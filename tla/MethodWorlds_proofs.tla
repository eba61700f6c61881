------------------------- MODULE MethodWorlds_proofs -------------------------
(***************************************************************************)
(* Theorems about the method table of the runtime and what is kept of it,   *)
(* for any signatures, any callers and edges between them, and any number   *)
(* of definitions, deletions, entries and tasks.                            *)
(*                                                                          *)
(* They take from dispatch that it answers right (DispatchRight): what      *)
(* MatchesRight has TLC find of ml_matches is all that is used of it.       *)
(*                                                                          *)
(* TableInv is about the worlds of the methods: from the newest world in    *)
(* which the table is final nothing more is taken back.  CacheInv says of   *)
(* each entry what CachesAgree does, and that it is either for all later    *)
(* worlds or has ended; CodeInv of each piece of code that as long as it    *)
(* has not ended, every edge that can end it is in the table and leads to   *)
(* it.  InferInv carries that through the steps of an inference, whose      *)
(* edges are partly in the table and partly its own.                        *)
(***************************************************************************)
EXTENDS MethodWorlds, Sums, TLAPS
-----------------------------------------------------------------------------
(* The invariants.                                                          *)

\* The newest world in which the table is final: a definition has its world
\* before its method is in the table.
Settled == IF Pending = {} THEN counter ELSE counter - 1

MethodIds == 1..MaxMethods
Instances == MethodIds \X SUBSET Types
Entries == [sig : SUBSET Types, guards : SUBSET SUBSET Types, mi : Instances,
            leaf : BOOLEAN, min : Nat, max : Nat]
SiteAnswers == [ids : SUBSET MethodIds, ambig : BOOLEAN, min : Nat, max : Nat]
Taken == [at : Callers, answer : SiteAnswers]
Edges == [callee : Instances \cup Callers, invoke : (SUBSET Types) \cup {None}, caller : Callers]
Missings == [types : SUBSET Types, caller : Callers]
Fills == [id : MethodIds, t : Types, world : Nat, bounds : [min : Nat, max : Nat]]
Inferences ==
  [of : Callers, step : {"matched", "storing", "stored", "checked"}, taken : SUBSET Taken,
   min : Nat, max : Nat, edges : SUBSET Edges, missing : SUBSET Missings, fill : SUBSET Fills]

Method == [sig : Signatures, min : Nat, max : Nat, inserted : BOOLEAN]

TableType ==
  /\ counter \in Nat /\ deletes \in Nat
  /\ methods \in Seq(Method)
  /\ counter = 1 + Len(methods) + deletes
  /\ Len(methods) <= MaxMethods /\ deletes <= MaxDeletes
CacheType == cache \in SUBSET Entries
CodeType ==
  /\ code \in SUBSET [of : Callers, taken : SUBSET Taken, min : Nat, max : Nat]
  /\ backedges \in SUBSET Edges /\ missing \in SUBSET Missings
  /\ infer = None \/ infer \in Inferences

\* A method is in the table from a settled world on, for ever or until an
\* earlier one than the settled; at most one waits to get there; no two of the
\* same signature are there in the same world, unless a deletion has put one back
\* there that had ended, and that can only be before the settled world.
TableInv ==
  /\ \A i \in Inserted : /\ methods[i].min \in 1..Settled
                         /\ methods[i].max = Forever \/ methods[i].max < Settled
  /\ \A i \in Pending : methods[i].min = counter /\ methods[i].max = Forever
  /\ \A i, j \in Pending : i = j
  /\ \A w \in rewritten : w \in Nat /\ w < Settled
  /\ \A w \in (0..counter) \ rewritten : \A i, j \in ActiveIn(w) :
       methods[i].sig = methods[j].sig => i = j

\* An entry is right in all its worlds but rewritten ones; they go on or ended
\* before the settled one.
EntryRight(e) ==
  /\ e.mi[1] \in Ids /\ e.sig \subseteq e.mi[2]
  /\ e.min <= counter
  /\ e.max = Forever \/ e.max < Settled
  /\ \A w \in For(e) : \A t \in e.sig :
       (\A s \in e.guards : t \notin s) => Selected(t, w) = {e.mi[1]}
CacheInv == \A e \in cache : EntryRight(e)

\* What an inference will put into the cache was found in the table as it is.
FillInv ==
  infer # None =>
    \A f \in infer.fill : /\ f.world \in 0..counter
                          /\ f.id \in Selected(f.t, f.world)
                          /\ f.bounds = Bounds({f.t}, f.world, TRUE)

\* What was taken from a call site holds in these worlds.
Holds(p, min, max) ==
  ~ resolved /\ p.answer # Unknown =>
    \A w \in (min..Lesser(max, counter)) \ rewritten : AnswerHolds(Site[p.at], p.answer, w)

\* All that may change what was taken is known, and edges lead from there to g.
Known(p, edges, sites) ==
  /\ EdgesOf(p.at, p.answer) \subseteq edges
  /\ MissingOf(p.at, p.answer) \subseteq sites
  /\ p.answer.ids \subseteq ActiveIn(counter)
LeadsTo(from, g, edges) ==
  \A set \in SUBSET Callers :
    from \in set /\ (\A e \in edges : e.callee \in set => e.caller \in set) => g \in set
CodeInv ==
  \A c \in code :
    /\ c.min <= counter
    /\ c.max = Forever \/ c.max < Settled
    /\ \A p \in c.taken : /\ p.answer.ids \subseteq Ids
                          /\ Holds(p, c.min, c.max)
                          /\ c.max = Forever => Known(p, backedges, missing)
                                                /\ LeadsTo(p.at, c.of, backedges)

\* An inference that is valid up to the present is so while its edges are stored.
InferInv ==
  infer # None =>
    /\ infer.min <= counter
    /\ IF infer.step = "checked" THEN infer.max = Forever \/ infer.max < Settled
                                 ELSE infer.max = counter \/ infer.max < Settled
    /\ infer.step \in {"stored", "checked"} /\ infer.max >= counter =>
         infer.edges = {} /\ infer.missing = {}
    /\ \A p \in infer.taken :
         /\ p.answer.ids \subseteq Ids
         /\ Holds(p, infer.min, infer.max)
         /\ infer.max >= counter =>
              /\ Known(p, backedges \cup infer.edges, missing \cup infer.missing)
              /\ LeadsTo(p.at, infer.of, backedges \cup infer.edges)

WorldsInv == /\ TableType /\ CacheType /\ CodeType
             /\ TableInv /\ CacheInv /\ FillInv /\ CodeInv /\ InferInv

-----------------------------------------------------------------------------
(* Sets.                                                                    *)

\* A finite set of numbers that is not empty has a largest and a smallest.
LEMMA MaxIs ==
  ASSUME NEW S, IsFiniteSet(S), S # {}, S \subseteq Int
  PROVE  Max(S) \in S /\ \A x \in S : x <= Max(S)
<1> DEFINE Good == {s \in SUBSET S : s # {} => \E m \in s : \A x \in s : x <= m}
<1>1. ASSUME NEW s \in SUBSET S, IsFiniteSet(s), \A u \in SUBSET s : u # s => u \in Good
      PROVE  s \in Good
  <2> SUFFICES ASSUME s # {} PROVE \E m \in s : \A x \in s : x <= m
    OBVIOUS
  <2>1. PICK y : y \in s
    OBVIOUS
  <2>2. CASE s \ {y} = {}
    BY <2>1, <2>2
  <2>3. CASE s \ {y} # {}
    <3>1. \E m \in s \ {y} : \A x \in s \ {y} : x <= m
      <4>1. s \ {y} \in Good
        BY <1>1, <2>1
      <4> QED
        BY <4>1, <2>3
    <3>2. PICK m \in s \ {y} : \A x \in s \ {y} : x <= m
      BY <3>1
    <3>3. m \in Int /\ y \in Int
      BY <2>1
    <3>4. CASE y <= m
      BY <2>1, <3>2, <3>4
    <3>5. CASE ~ (y <= m)
      <4>1. \A x \in s : x <= y
        BY <3>2, <3>3, <3>5
      <4> QED
        BY <2>1, <4>1
    <3> QED
      BY <3>4, <3>5
  <2> QED
    BY <2>2, <2>3
<1> HIDE DEF Good
<1>2. \A s \in SUBSET S : s \in Good
  BY <1>1, SubsetInduction
<1> USE DEF Good
<1>3. \E m \in S : \A x \in S : m >= x
  <2>1. \E m \in S : \A x \in S : x <= m
    BY <1>2
  <2> QED
    BY <2>1
<1> QED
  BY <1>3 DEF Max

LEMMA MinIs ==
  ASSUME NEW S, IsFiniteSet(S), S # {}, S \subseteq Int
  PROVE  Min(S) \in S /\ \A x \in S : Min(S) <= x
<1> DEFINE N == {-x : x \in S}
<1>1. IsFiniteSet(N)
  <2> DEFINE f == [x \in S |-> -x]
  <2>1. f \in Surjection(S, N)
    BY DEF Surjection
  <2> HIDE DEF f, N
  <2> QED
    BY <2>1, FS_Surjection
<1>2. N # {} /\ N \subseteq Int
  OBVIOUS
<1>3. Max(N) \in N /\ \A x \in N : x <= Max(N)
  <2> HIDE DEF N
  <2> QED
    BY <1>1, <1>2, MaxIs
<1>4. PICK m \in S : Max(N) = -m
  BY <1>3
<1>5. \A x \in S : m <= x
  <2> SUFFICES ASSUME NEW x \in S PROVE m <= x
    OBVIOUS
  <2>1. -x \in N /\ x \in Int /\ m \in Int
    OBVIOUS
  <2>2. -x <= -m
    BY <1>3, <1>4, <2>1
  <2> QED
    BY <2>1, <2>2
<1> QED
  BY <1>5 DEF Min

\* The elements of a finite set are finitely many after a mapping.
LEMMA ImageFinite ==
  ASSUME NEW S, IsFiniteSet(S), NEW f, DOMAIN f = S
  PROVE  /\ IsFiniteSet({f[x] : x \in S})
         /\ Cardinality({f[x] : x \in S}) <= Cardinality(S)
<1> DEFINE N == {f[x] : x \in S}
           h == [x \in S |-> f[x]]
<1>1. h \in Surjection(S, N)
  BY DEF Surjection
<1> HIDE DEF h, N
<1>2. IsFiniteSet(N) /\ Cardinality(N) <= Cardinality(S)
  BY <1>1, FS_Surjection
<1> QED
  BY <1>2 DEF N

\* A finite set of sets, one of which alone has none below it, has that as its least.
LEMMA OneMinimal ==
  ASSUME NEW S, IsFiniteSet(S), NEW m \in S,
         \A x \in S : (\A y \in S : ~ MoreSpecific(y, x)) => x = m
  PROVE  \A x \in S : m \subseteq x
<1> DEFINE Good == {s \in SUBSET S : s # {} => \E x \in s : \A y \in s : ~ MoreSpecific(y, x)}
<1>1. ASSUME NEW s \in SUBSET S, IsFiniteSet(s), \A u \in SUBSET s : u # s => u \in Good
      PROVE  s \in Good
  <2> SUFFICES ASSUME s # {} PROVE \E x \in s : \A y \in s : ~ MoreSpecific(y, x)
    OBVIOUS
  <2>1. PICK z : z \in s
    OBVIOUS
  <2>2. CASE s \ {z} = {}
    BY <2>1, <2>2 DEF MoreSpecific
  <2>3. CASE s \ {z} # {}
    <3>1. \E x \in s \ {z} : \A y \in s \ {z} : ~ MoreSpecific(y, x)
      <4>1. s \ {z} \in Good
        BY <1>1, <2>1
      <4> QED
        BY <4>1, <2>3
    <3>2. PICK x \in s \ {z} : \A y \in s \ {z} : ~ MoreSpecific(y, x)
      BY <3>1
    <3>3. CASE ~ MoreSpecific(z, x)
      <4>1. \A y \in s : ~ MoreSpecific(y, x)
        BY <3>2, <3>3
      <4> QED
        BY <3>2, <4>1
    <3>4. CASE MoreSpecific(z, x)
      <4>1. \A y \in s : ~ MoreSpecific(y, z)
        <5> SUFFICES ASSUME NEW y \in s, MoreSpecific(y, z) PROVE FALSE
          OBVIOUS
        <5>1. MoreSpecific(y, x) /\ y # z
          BY <3>4 DEF MoreSpecific
        <5> QED
          BY <3>2, <5>1
      <4> QED
        BY <2>1, <4>1
    <3> QED
      BY <3>3, <3>4
  <2> QED
    BY <2>2, <2>3
<1> HIDE DEF Good
<1>2. \A s \in SUBSET S : s \in Good
  BY <1>1, SubsetInduction
<1> USE DEF Good
<1> SUFFICES ASSUME NEW x \in S PROVE m \subseteq x
  OBVIOUS
<1> DEFINE below == {y \in S : y \subseteq x}
<1>3. below \in SUBSET S /\ x \in below
  OBVIOUS
<1>4. \E z \in below : \A y \in below : ~ MoreSpecific(y, z)
  BY <1>2, <1>3
<1>5. PICK z \in below : \A y \in below : ~ MoreSpecific(y, z)
  BY <1>4
<1>6. \A y \in S : ~ MoreSpecific(y, z)
  BY <1>5 DEF MoreSpecific
<1> QED
  BY <1>5, <1>6

\* The sequence of a finite set has its elements, each once.
LEMMA SetToSeqIs ==
  ASSUME NEW S, IsFiniteSet(S)
  PROVE  /\ SetToSeq(S) \in [1..Cardinality(S) -> S]
         /\ IsInjective(SetToSeq(S)) /\ ToSet(SetToSeq(S)) = S
<1> DEFINE n == Cardinality(S)
           f == SetToSeq(S)
<1>1. n \in Nat /\ ExistsBijection(1..n, S)
  BY FS_CardinalityType
<1>2. \E g \in [1..n -> S] : IsInjective(g)
  BY <1>1 DEF ExistsBijection, Bijection, Injection, IsInjective
<1>3. f \in [1..n -> S] /\ IsInjective(f)
  BY <1>2 DEF SetToSeq
<1>4. f \in Injection(1..n, S)
  BY <1>3 DEF Injection, IsInjective
<1>5. Cardinality(1..n) = n
  BY <1>1, FS_Interval
<1>6. f \in Surjection(1..n, S)
  BY <1>4, <1>5, FS_Injection
<1> HIDE DEF f
<1>7. ToSet(f) = S
  BY <1>3, <1>6 DEF ToSet, Surjection
<1> QED
  BY <1>3, <1>7 DEF f

-----------------------------------------------------------------------------
(* The table.                                                               *)

\* The bounds are numbers, and the counter is far from its end.
LEMMA BoundsAre ==
  MaxMethods \in Nat /\ MaxDeletes \in Nat /\ Lag \in Nat /\ 1 + MaxMethods + MaxDeletes < Forever
BY MethodsAssumption, Zenon

LEMMA SignaturesAre ==
  IsFiniteSet(Types) /\ \A s \in Signatures : s \in SUBSET Types /\ s # {}
<1>1. IsFiniteSet(Types) /\ {} \notin Signatures
  BY MethodsAssumption, Zenon
<1> QED
  BY <1>1 DEF Types

LEMMA TableIs ==
  ASSUME TableType
  PROVE  /\ Ids = 1..Len(methods) /\ Len(methods) \in Nat /\ Ids \subseteq MethodIds
         /\ counter \in 1..Forever - 1 /\ Forever \in Nat
         /\ \A i \in Ids : /\ methods[i].sig \in Signatures /\ methods[i].sig \in SUBSET Types
                           /\ methods[i].sig # {}
                           /\ methods[i].min \in Nat /\ methods[i].max \in Nat
                           /\ methods[i].inserted \in BOOLEAN
                           /\ methods[i] \in Method
<1>1. /\ Ids = 1..Len(methods) /\ Len(methods) \in Nat
      /\ \A i \in Ids : methods[i] \in Method
  BY DEF TableType, Ids
<1>2. Ids \subseteq MethodIds
  BY <1>1, BoundsAre DEF TableType, MethodIds
<1>3. counter \in 1..Forever - 1 /\ Forever \in Nat
  <2>1. counter = 1 + Len(methods) + deletes /\ deletes \in Nat
        /\ Len(methods) <= MaxMethods /\ deletes <= MaxDeletes
    BY DEF TableType
  <2> DEFINE n == Len(methods)
  <2>2. n \in Nat /\ Forever \in Nat
    BY <1>1 DEF Forever
  <2> HIDE DEF n
  <2>3. counter = 1 + n + deletes /\ n <= MaxMethods
    BY <2>1 DEF n
  <2> QED
    BY <2>1, <2>2, <2>3, BoundsAre
<1> QED
  BY <1>1, <1>2, <1>3, SignaturesAre DEF Method

LEMMA TableFinite ==
  ASSUME TableType
  PROVE  /\ \A set : set \subseteq Ids => IsFiniteSet(set) /\ Cardinality(set) \in 0..MaxMethods
         /\ Inserted \subseteq Ids /\ Pending \subseteq Ids
         /\ \A w : ActiveIn(w) \subseteq Inserted
<1>1. Ids = 1..Len(methods) /\ Len(methods) \in 0..MaxMethods
  BY TableIs, BoundsAre DEF TableType
<1>2. IsFiniteSet(Ids) /\ Cardinality(Ids) = Len(methods)
  <2>1. 1 \in Int /\ Len(methods) \in Int
    BY <1>1
  <2>2. IsFiniteSet(1..Len(methods)) /\ Cardinality(1..Len(methods)) = IF 1 > Len(methods) THEN 0 ELSE Len(methods) - 1 + 1
    BY <2>1, FS_Interval
  <2> QED
    BY <1>1, <2>2
<1>3. ASSUME NEW set, set \subseteq Ids PROVE IsFiniteSet(set) /\ Cardinality(set) \in 0..MaxMethods
  <2>1. IsFiniteSet(set) /\ Cardinality(set) <= Cardinality(Ids)
    BY <1>2, <1>3, FS_Subset
  <2>2. Cardinality(set) \in Nat
    BY <2>1, FS_CardinalityType
  <2> QED
    BY <1>1, <1>2, <2>1, <2>2, BoundsAre
<1> QED
  BY <1>3 DEF Inserted, Pending, ActiveIn, Active

LEMMA SettledIs ==
  ASSUME TableType
  PROVE  Settled \in Nat /\ Settled \in {counter, counter - 1} /\ (Pending = {} => Settled = counter)
BY TableIs DEF Settled

\* From the settled world on the table is the same.
LEMMA SameLater ==
  ASSUME TableType, TableInv, NEW w \in Nat, Settled <= w, w < Forever
  PROVE  ActiveIn(w) = ActiveIn(counter)
<1>1. \A i \in Inserted : /\ methods[i].min \in Nat /\ methods[i].max \in Nat
                          /\ methods[i].min <= Settled
                          /\ methods[i].max = Forever \/ methods[i].max < Settled
  BY TableIs, TableFinite, SettledIs DEF TableInv
<1>2. Settled \in Nat /\ counter \in Nat /\ Settled <= counter /\ counter < Forever /\ Forever \in Nat
  BY TableIs, SettledIs
<1>3. \A i \in Inserted : Within(methods[i], w) <=> Within(methods[i], counter)
  BY <1>1, <1>2 DEF Within
<1> QED
  BY <1>3 DEF ActiveIn, Active, Inserted

\* The present world is none that a deletion has rewritten.
LEMMA PresentIsClean ==
  ASSUME TableType, TableInv
  PROVE  counter \in (0..counter) \ rewritten
<1>1. counter \in Nat /\ Settled \in Nat /\ Settled <= counter
  BY TableIs, SettledIs
<1> QED
  BY <1>1 DEF TableInv

-----------------------------------------------------------------------------
(* What a change does to the table: all is the same up to the settled world, *)
(* but in worlds that it rewrites, and the world after it has the methods in *)
(* now.                                                                      *)
Change(now) ==
  /\ counter' = Settled + 1 /\ counter <= counter' /\ Settled' \in {Settled, counter'}
  /\ Ids \subseteq Ids'
  /\ \A i \in Ids : methods'[i].sig = methods[i].sig
  /\ rewritten \subseteq rewritten'
  /\ \A w \in (0..Settled) \ rewritten' : ActiveIn(w)' = ActiveIn(w)
  /\ \A w : w = counter' => ActiveIn(w)' = now

LEMMA DefineChange ==
  ASSUME TableType, TableInv, ~ Overlap, NEW sig \in Signatures, StartDefine(sig)
  PROVE  TableType' /\ TableInv' /\ Change(ActiveIn(counter)) /\ Settled' = Settled
<1> DEFINE n == Len(methods)
           new == [sig |-> sig, min |-> counter + 1, max |-> Forever, inserted |-> FALSE]
<1>1. /\ Ids = 1..n /\ n \in Nat /\ counter \in Nat /\ counter + 1 \in Nat /\ Forever \in Nat
      /\ counter < Forever
  BY TableIs
<1>2. Pending = {} /\ Settled = counter /\ Inserted = Ids
  BY SettledIs DEF StartDefine, Undisturbed, Pending, Inserted
<1>3. /\ methods' = Append(methods, new) /\ counter' = counter + 1 /\ deletes' = deletes
      /\ Len(methods) < MaxMethods /\ rewritten' = rewritten
  BY DEF StartDefine, past
<1>4. TableType'
  <2>1. methods' \in Seq(Method)
    <3>1. new \in Method
      BY <1>1 DEF Method
    <3> QED
      BY <1>3, <3>1 DEF TableType
  <2>2. Len(methods') = n + 1
    BY <1>1, <1>3 DEF TableType
  <2> QED
    BY <1>1, <1>3, <2>1, <2>2, BoundsAre DEF TableType
<1>5. /\ Ids' = Ids \cup {n + 1} /\ n + 1 \notin Ids /\ methods'[n + 1] = new
      /\ \A i \in Ids : methods'[i] = methods[i]
  <2>1. /\ Len(methods') = n + 1 /\ methods'[n + 1] = new
        /\ \A i \in 1..n : methods'[i] = methods[i]
    BY <1>1, <1>3 DEF TableType
  <2>2. Ids' = 1..n + 1
    BY <1>4, <2>1, TableIs DEF Ids, TableType
  <2> QED
    BY <1>1, <2>1, <2>2
<1>6. Inserted' = Inserted /\ Pending' = {n + 1}
  BY <1>2, <1>5 DEF Inserted, Pending
<1>7. \A w : ActiveIn(w)' = ActiveIn(w)
  BY <1>5 DEF ActiveIn, Active, Within
<1>8. Settled' = counter
  BY <1>1, <1>3, <1>6 DEF Settled
<1>9. ActiveIn(counter + 1) = ActiveIn(counter)
  <2>1. CASE counter + 1 < Forever
    BY <1>1, <1>2, <2>1, SameLater
  <2>2. CASE counter + 1 = Forever
    <3>1. \A i \in Inserted : /\ methods[i].min \in Nat /\ methods[i].max \in Nat
                              /\ methods[i].min <= Settled
                              /\ methods[i].max = Forever \/ methods[i].max < Settled
      BY TableIs, TableFinite, SettledIs DEF TableInv
    <3> QED
      BY <1>1, <1>2, <2>2, <3>1 DEF ActiveIn, Active, Within, Inserted
  <2> QED
    BY <1>1, <2>1, <2>2
<1>10. TableInv'
  <2>1. \A i \in Inserted' : /\ methods'[i].min \in 1..Settled'
                             /\ methods'[i].max = Forever \/ methods'[i].max < Settled'
    BY <1>2, <1>5, <1>6, <1>8 DEF TableInv
  <2>2. \A i \in Pending' : methods'[i].min = counter' /\ methods'[i].max = Forever
    BY <1>3, <1>5, <1>6
  <2>3. \A i, j \in Pending' : i = j
    BY <1>6
  <2>4. ASSUME NEW w \in (0..counter') \ rewritten', NEW i \in ActiveIn(w)', NEW j \in ActiveIn(w)',
               methods'[i].sig = methods'[j].sig
        PROVE  i = j
    <3>1. \E v \in (0..counter) \ rewritten : ActiveIn(w) = ActiveIn(v)
      <4>1. CASE w \in 0..counter
        BY <1>3, <2>4, <4>1
      <4>2. CASE w = counter + 1
        <5>1. counter \in (0..counter) \ rewritten
          BY <1>1, <1>2 DEF TableInv
        <5> QED
          BY <1>9, <4>2, <5>1
      <4> QED
        BY <1>1, <1>3, <4>1, <4>2
    <3>2. i \in Ids /\ j \in Ids
      BY <1>7, TableFinite
    <3> QED
      BY <1>5, <1>7, <2>4, <3>1, <3>2 DEF TableInv
  <2>5. \A w \in rewritten' : w \in Nat /\ w < Settled'
    BY <1>2, <1>3, <1>8 DEF TableInv
  <2> QED
    BY <2>1, <2>2, <2>3, <2>4, <2>5 DEF TableInv
<1>11. Change(ActiveIn(counter))
  BY <1>1, <1>2, <1>3, <1>5, <1>7, <1>8, <1>9 DEF Change
<1> QED
  BY <1>2, <1>4, <1>8, <1>10, <1>11

\* Method i is put into the table, as a new one or in the place of j.
Put(i) ==
  /\ methods' = [methods EXCEPT ![i].inserted = TRUE]
  /\ counter' = counter /\ deletes' = deletes /\ rewritten' = rewritten
PutFor(i, j) ==
  /\ methods' = [methods EXCEPT ![i].inserted = TRUE, ![j].max = methods[i].min - 1]
  /\ counter' = counter /\ deletes' = deletes /\ rewritten' = rewritten

LEMMA TableChange ==
  ASSUME TableType, TableInv, NEW added, NEW ended,
         Pending = added, ended \subseteq ActiveIn(counter),
         counter' = Settled + 1, Ids' = Ids, rewritten' = rewritten,
         \A k \in Ids : /\ methods'[k].sig = methods[k].sig
                        /\ methods'[k].min = methods[k].min
                        /\ methods'[k].max = IF k \in ended THEN Settled ELSE methods[k].max
                        /\ methods'[k].inserted <=> (k \in added \/ methods[k].inserted),
         \A k \in ActiveIn(counter) \ ended, i \in added : methods[k].sig # methods[i].sig
  PROVE  /\ TableInv' /\ Change((ActiveIn(counter) \ ended) \cup added) /\ Settled' = counter'
         /\ added \intersect ActiveIn(counter) = {}
<1> DEFINE s == Settled
           now == (ActiveIn(counter) \ ended) \cup added
<1>1. /\ s \in Nat /\ counter \in Nat /\ Forever \in Nat /\ s \in {counter, counter - 1}
      /\ s + 1 <= Forever /\ s < Forever /\ s <= counter
      /\ counter < Forever
  BY TableIs, SettledIs
<1>2. /\ Inserted' = Inserted \cup added /\ Pending' = {}
      /\ added \subseteq Ids /\ Inserted \subseteq Ids /\ Inserted \intersect added = {}
      /\ Ids = Inserted \cup added
  BY TableIs DEF Inserted, Pending
<1>3. /\ \A k \in Ids : methods[k].min \in Nat /\ methods[k].max \in Nat
      /\ \A k \in Inserted : /\ methods[k].min <= s
                             /\ methods[k].min >= 1
                             /\ methods[k].max = Forever \/ methods[k].max < s
      /\ \A k \in added : methods[k].min = counter /\ methods[k].max = Forever
  BY TableIs, <1>1, <1>2 DEF TableInv
<1>4. /\ ActiveIn(counter) = {k \in Inserted : methods[k].max = Forever}
      /\ ActiveIn(counter) \subseteq Inserted /\ ended \subseteq Inserted
  BY <1>1, <1>3 DEF ActiveIn, Active, Within, Inserted
<1>5. Settled' = counter'
  BY <1>2 DEF Settled
<1>6. added # {} => s = counter - 1
  BY <1>1 DEF Settled
<1>7. ASSUME NEW w \in 0..s PROVE ActiveIn(w)' = ActiveIn(w)
  <2>1. ActiveIn(w)' = {k \in Inserted \cup added : methods'[k].min <= w /\ w <= methods'[k].max}
    BY <1>2 DEF ActiveIn, Active, Within, Inserted
  <2>2. ActiveIn(w) = {k \in Inserted : methods[k].min <= w /\ w <= methods[k].max}
    BY DEF ActiveIn, Active, Within, Inserted
  <2>3. \A k \in added : ~ (methods'[k].min <= w)
    BY <1>1, <1>2, <1>3, <1>6
  <2>4. \A k \in Inserted : (methods'[k].min <= w /\ w <= methods'[k].max)
                              <=> (methods[k].min <= w /\ w <= methods[k].max)
    <3> SUFFICES ASSUME NEW k \in Inserted
                 PROVE  (methods'[k].min <= w /\ w <= methods'[k].max)
                              <=> (methods[k].min <= w /\ w <= methods[k].max)
      OBVIOUS
    <3>1. CASE k \in ended
      BY <1>1, <1>2, <1>3, <1>4, <3>1
    <3>2. CASE k \notin ended
      BY <1>2, <3>2
    <3> QED
      BY <3>1, <3>2
  <2> QED
    BY <1>2, <2>1, <2>2, <2>3, <2>4
<1>8. ASSUME NEW w, w = counter' PROVE ActiveIn(w)' = now
  <2>1. ActiveIn(w)' = {k \in Inserted \cup added : methods'[k].min <= w /\ w <= methods'[k].max}
    BY <1>2 DEF ActiveIn, Active, Within, Inserted
  <2>2. ASSUME NEW k \in added
        PROVE  methods'[k].min <= w /\ w <= methods'[k].max
    <3>1. methods'[k].min = counter /\ methods'[k].max = Forever
      BY <1>2, <1>3, <1>4
    <3> QED
      BY <1>1, <1>6, <1>8, <3>1
  <2>3. ASSUME NEW k \in Inserted
        PROVE  (methods'[k].min <= w /\ w <= methods'[k].max) <=> k \in ActiveIn(counter) \ ended
    <3>1. CASE k \in ended
      BY <1>1, <1>2, <1>3, <1>8, <3>1
    <3>2. CASE k \notin ended
      <4>1. methods'[k].min = methods[k].min /\ methods'[k].max = methods[k].max
        BY <1>2, <3>2
      <4> QED
        BY <1>1, <1>2, <1>3, <1>4, <1>8, <3>2, <4>1
    <3> QED
      BY <3>1, <3>2
  <2> QED
    BY <1>2, <1>4, <2>1, <2>2, <2>3
<1>9. Change(now)
  BY <1>1, <1>2, <1>5, <1>7, <1>8 DEF Change
<1>10. TableInv'
  <2>1. ASSUME NEW k \in Inserted'
        PROVE  /\ methods'[k].min \in 1..Settled'
               /\ methods'[k].max = Forever \/ methods'[k].max < Settled'
    <3>1. CASE k \in added
      <4>1. methods'[k].min = counter /\ methods'[k].max = Forever
        BY <1>2, <1>3, <1>4, <3>1
      <4>2. counter' = counter /\ counter \in 1..counter
        BY <1>1, <1>6, <3>1, TableIs
      <4> QED
        BY <1>5, <4>1, <4>2
    <3>2. CASE k \in Inserted
      <4>1. methods'[k].min = methods[k].min /\ methods'[k].max \in {s, methods[k].max}
        BY <1>2, <3>2
      <4> QED
        BY <1>1, <1>2, <1>3, <1>5, <3>2, <4>1
    <3> QED
      BY <1>2, <3>1, <3>2
  <2>2. ASSUME NEW w \in (0..counter') \ rewritten', NEW i \in ActiveIn(w)', NEW j \in ActiveIn(w)',
               methods'[i].sig = methods'[j].sig
        PROVE  i = j
    <3>1. i \in Ids /\ j \in Ids
      BY DEF ActiveIn
    <3>2. methods[i].sig = methods[j].sig
      BY <2>2, <3>1
    <3>3. CASE w \in 0..s
      <4>1. w \in (0..counter) \ rewritten /\ ActiveIn(w)' = ActiveIn(w)
        BY <1>1, <1>7, <2>2, <3>3
      <4> QED
        BY <2>2, <3>2, <4>1 DEF TableInv
    <3>4. CASE w = counter'
      <4>1. i \in now /\ j \in now
        BY <1>8, <3>4
      <4>2. i \in added /\ j \in added => i = j
        BY DEF TableInv
      <4>3. i \in ActiveIn(counter) /\ j \in ActiveIn(counter) => i = j
        <5>1. counter \in (0..counter) \ rewritten
          BY <1>1 DEF TableInv
        <5> QED
          BY <3>2, <5>1 DEF TableInv
      <4> QED
        BY <3>2, <4>1, <4>2, <4>3
    <3> QED
      BY <1>1, <3>3, <3>4
  <2>3. \A w \in rewritten' : w \in Nat /\ w < Settled'
    BY <1>1, <1>5 DEF TableInv
  <2> QED
    BY <1>2, <2>1, <2>2, <2>3 DEF TableInv
<1>11. added \intersect ActiveIn(counter) = {}
  BY <1>2, <1>4
<1> QED
  BY <1>5, <1>9, <1>10, <1>11

\* A method that is in the table as it is replaced or deleted.
LEMMA ActiveNow ==
  ASSUME TableType, TableInv
  PROVE  /\ \A i \in ActiveIn(counter) : i \in Inserted /\ i \in Ids /\ methods[i].max = Forever
         /\ \A i \in Inserted : methods[i].max = Forever => i \in ActiveIn(counter)
         /\ ActiveIn(Settled) = ActiveIn(counter)
<1>1. /\ \A i \in Inserted : /\ methods[i].min \in Nat /\ methods[i].max \in Nat
                             /\ methods[i].min <= Settled
                             /\ methods[i].max = Forever \/ methods[i].max < Settled
      /\ \A i \in Inserted : i \in Ids
  BY TableIs, TableFinite, SettledIs DEF TableInv
<1>2. Settled \in Nat /\ counter \in Nat /\ Settled <= counter /\ counter < Forever /\ Forever \in Nat
  BY TableIs, SettledIs
<1>3. ActiveIn(Settled) = ActiveIn(counter)
  BY <1>2, SameLater
<1> QED
  BY <1>1, <1>2, <1>3 DEF ActiveIn, Active, Within, Inserted

LEMMA Updated ==
  ASSUME NEW M, NEW s, s \in Seq(M), NEW i, i \in DOMAIN s, NEW v, v \in M,
         NEW u, u = [s EXCEPT ![i] = v]
  PROVE  u \in Seq(M) /\ Len(u) = Len(s) /\ DOMAIN u = DOMAIN s
OBVIOUS

LEMMA ReplaceChange ==
  ASSUME TableType, TableInv, NEW i \in Pending, NEW j \in ActiveIn(counter),
         methods[j].sig = methods[i].sig, PutFor(i, j)
  PROVE  /\ TableType' /\ TableInv' /\ Settled' = counter'
         /\ Change((ActiveIn(counter) \ {j}) \cup {i}) /\ i \notin ActiveIn(counter)
<1>1. /\ Pending = {i} /\ i \in Ids /\ j \in Ids /\ i # j /\ methods[i].min = counter
      /\ Settled = counter - 1 /\ counter \in 1..Forever - 1 /\ ~ methods[i].inserted
      /\ counter' = counter /\ deletes' = deletes /\ rewritten' = rewritten
  BY TableIs, ActiveNow DEF TableInv, Pending, Inserted, Settled, PutFor
<1>2. /\ methods' \in Seq(Method)
      /\ Len(methods') = Len(methods) /\ Ids' = Ids
      /\ methods'[i] = [methods[i] EXCEPT !.inserted = TRUE]
      /\ methods'[j] = [methods[j] EXCEPT !.max = counter - 1]
      /\ \A k \in Ids \ {i, j} : methods'[k] = methods[k]
  <2> DEFINE mi == [methods[i] EXCEPT !.inserted = TRUE]
             mj == [methods[j] EXCEPT !.max = counter - 1]
  <2>1. /\ methods \in Seq(Method) /\ DOMAIN methods = Ids /\ Ids = 1..Len(methods)
        /\ methods[i] \in Method /\ methods[j] \in Method
    BY <1>1, TableIs DEF TableType, Ids
  <2>2. mi \in Method /\ mj \in Method
    <3>1. counter - 1 \in Nat
      BY <1>1
    <3> QED
      BY <2>1, <3>1 DEF Method
  <2>3. methods' = [methods EXCEPT ![i] = mi, ![j] = mj]
    BY <1>1, <2>1 DEF PutFor
  <2> HIDE DEF mi, mj
  <2>4. methods' \in Seq(Method) /\ Len(methods') = Len(methods) /\ DOMAIN methods' = DOMAIN methods
    <3> DEFINE m == [methods EXCEPT ![i] = mi]
    <3>1. m \in Seq(Method) /\ Len(m) = Len(methods) /\ DOMAIN m = DOMAIN methods
      <4>1. i \in DOMAIN methods
        BY <1>1, <2>1
      <4> HIDE DEF m
      <4>2. m = [methods EXCEPT ![i] = mi]
        BY DEF m
      <4> QED
        BY <2>1, <2>2, <4>1, <4>2, Updated
    <3>2. methods' = [m EXCEPT ![j] = mj]
      BY <2>3
    <3> HIDE DEF m
    <3> QED
      <4>1. j \in DOMAIN m
        BY <1>1, <2>1, <3>1
      <4>2. methods' \in Seq(Method) /\ Len(methods') = Len(m) /\ DOMAIN methods' = DOMAIN m
        BY <2>2, <3>1, <3>2, <4>1, Updated
      <4> QED
        BY <3>1, <4>2
  <2>5. methods'[i] = mi /\ methods'[j] = mj /\ \A k \in Ids \ {i, j} : methods'[k] = methods[k]
    BY <1>1, <2>1, <2>3
  <2> QED
    BY <2>4, <2>5 DEF mi, mj, Ids
<1>3. \A k \in Ids : methods[k] \in Method
  BY TableIs
<1>4. \A k \in Ids : /\ methods'[k].sig = methods[k].sig
                     /\ methods'[k].min = methods[k].min
                     /\ methods'[k].max = IF k \in {j} THEN Settled ELSE methods[k].max
                     /\ methods'[k].inserted <=> (k \in {i} \/ methods[k].inserted)
  <2> SUFFICES ASSUME NEW k \in Ids
               PROVE  /\ methods'[k].sig = methods[k].sig
                      /\ methods'[k].min = methods[k].min
                      /\ methods'[k].max = IF k \in {j} THEN Settled ELSE methods[k].max
                      /\ methods'[k].inserted <=> (k \in {i} \/ methods[k].inserted)
    OBVIOUS
  <2>1. CASE k = i
    BY <1>1, <1>2, <1>3, <2>1 DEF Method
  <2>2. CASE k = j
    BY <1>1, <1>2, <1>3, <2>2 DEF Method
  <2>3. CASE k # i /\ k # j
    <3>1. methods'[k] = methods[k] /\ k \notin {i} /\ k \notin {j}
      BY <1>2, <2>3
    <3> QED
      BY <3>1
  <2> QED
    BY <2>1, <2>2, <2>3
<1>5. \A k \in ActiveIn(counter) \ {j}, x \in {i} : methods[k].sig # methods[x].sig
  BY <1>1, PresentIsClean DEF TableInv
<1>6. /\ TableInv' /\ Change((ActiveIn(counter) \ {j}) \cup {i}) /\ Settled' = counter'
      /\ {i} \intersect ActiveIn(counter) = {}
  <2>1. counter' = Settled + 1 /\ {j} \subseteq ActiveIn(counter)
    BY <1>1
  <2> DEFINE added == {i}
             ended == {j}
  <2>2. /\ Pending = added /\ ended \subseteq ActiveIn(counter) /\ Ids' = Ids
        /\ counter' = Settled + 1 /\ rewritten' = rewritten
    BY <1>1, <1>2, <2>1
  <2>3. \A k \in Ids : /\ methods'[k].sig = methods[k].sig
                       /\ methods'[k].min = methods[k].min
                       /\ methods'[k].max = IF k \in ended THEN Settled ELSE methods[k].max
                       /\ methods'[k].inserted <=> (k \in added \/ methods[k].inserted)
    BY <1>4
  <2>4. \A k \in ActiveIn(counter) \ ended, x \in added : methods[k].sig # methods[x].sig
    BY <1>5
  <2>5. /\ TableInv' /\ Change((ActiveIn(counter) \ ended) \cup added) /\ Settled' = counter'
        /\ added \intersect ActiveIn(counter) = {}
    <3> HIDE DEF added, ended
    <3> QED
      BY <2>2, <2>3, <2>4, TableChange
  <2> QED
    BY <2>5
<1>7. TableType'
  BY <1>1, <1>2 DEF TableType
<1> QED
  BY <1>6, <1>7

LEMMA NewChange ==
  ASSUME TableType, TableInv, NEW i \in Pending,
         \A k \in ActiveIn(counter) : methods[k].sig # methods[i].sig,
         Put(i)
  PROVE  /\ TableType' /\ TableInv' /\ Settled' = counter'
         /\ Change(ActiveIn(counter) \cup {i}) /\ i \notin ActiveIn(counter)
<1>1. /\ Pending = {i} /\ i \in Ids /\ methods[i].min = counter
      /\ Settled = counter - 1 /\ counter \in 1..Forever - 1 /\ ~ methods[i].inserted
      /\ counter' = counter /\ deletes' = deletes /\ rewritten' = rewritten
  BY TableIs, ActiveNow DEF TableInv, Pending, Inserted, Settled, Put
<1>2. /\ methods' \in Seq(Method)
      /\ Len(methods') = Len(methods) /\ Ids' = Ids
      /\ methods'[i] = [methods[i] EXCEPT !.inserted = TRUE]
      /\ \A k \in Ids \ {i} : methods'[k] = methods[k]
  <2> DEFINE mi == [methods[i] EXCEPT !.inserted = TRUE]
  <2>1. /\ methods \in Seq(Method) /\ DOMAIN methods = Ids /\ Ids = 1..Len(methods)
        /\ methods[i] \in Method
    BY <1>1, TableIs DEF TableType, Ids
  <2>2. mi \in Method
    BY <2>1 DEF Method
  <2>3. methods' = [methods EXCEPT ![i] = mi]
    BY <1>1, <2>1 DEF Put
  <2> HIDE DEF mi
  <2>4. methods' \in Seq(Method) /\ Len(methods') = Len(methods) /\ DOMAIN methods' = DOMAIN methods
    <3>1. i \in DOMAIN methods
      BY <1>1, <2>1
    <3> QED
      BY <2>1, <2>2, <2>3, <3>1, Updated
  <2>5. methods'[i] = mi /\ \A k \in Ids \ {i} : methods'[k] = methods[k]
    BY <1>1, <2>1, <2>3
  <2> QED
    BY <2>4, <2>5 DEF mi, Ids
<1>3. \A k \in Ids : methods[k] \in Method
  BY TableIs
<1>4. \A k \in Ids : /\ methods'[k].sig = methods[k].sig
                     /\ methods'[k].min = methods[k].min
                     /\ methods'[k].max = IF k \in {} THEN Settled ELSE methods[k].max
                     /\ methods'[k].inserted <=> (k \in {i} \/ methods[k].inserted)
  <2> SUFFICES ASSUME NEW k \in Ids
               PROVE  /\ methods'[k].sig = methods[k].sig
                      /\ methods'[k].min = methods[k].min
                      /\ methods'[k].max = IF k \in {} THEN Settled ELSE methods[k].max
                      /\ methods'[k].inserted <=> (k \in {i} \/ methods[k].inserted)
    OBVIOUS
  <2>1. CASE k = i
    BY <1>1, <1>2, <1>3, <2>1 DEF Method
  <2>2. CASE k # i
    BY <1>2, <1>3, <2>2 DEF Method
  <2> QED
    BY <2>1, <2>2
<1>5. \A k \in ActiveIn(counter) \ {}, x \in {i} : methods[k].sig # methods[x].sig
  OBVIOUS
<1>6. /\ TableInv' /\ Change((ActiveIn(counter) \ {}) \cup {i}) /\ Settled' = counter'
      /\ {i} \intersect ActiveIn(counter) = {}
  <2>1. counter' = Settled + 1 /\ {} \subseteq ActiveIn(counter)
    BY <1>1
  <2> DEFINE added == {i}
             ended == {}
  <2>2. /\ Pending = added /\ ended \subseteq ActiveIn(counter) /\ Ids' = Ids
        /\ counter' = Settled + 1 /\ rewritten' = rewritten
    BY <1>1, <1>2, <2>1
  <2>3. \A k \in Ids : /\ methods'[k].sig = methods[k].sig
                       /\ methods'[k].min = methods[k].min
                       /\ methods'[k].max = IF k \in ended THEN Settled ELSE methods[k].max
                       /\ methods'[k].inserted <=> (k \in added \/ methods[k].inserted)
    BY <1>4
  <2>4. \A k \in ActiveIn(counter) \ ended, x \in added : methods[k].sig # methods[x].sig
    BY <1>5
  <2>5. /\ TableInv' /\ Change((ActiveIn(counter) \ ended) \cup added) /\ Settled' = counter'
        /\ added \intersect ActiveIn(counter) = {}
    <3> HIDE DEF added, ended
    <3> QED
      BY <2>2, <2>3, <2>4, TableChange
  <2> QED
    BY <2>5
<1>7. TableType'
  BY <1>1, <1>2 DEF TableType
<1>8. (ActiveIn(counter) \ {}) \cup {i} = ActiveIn(counter) \cup {i}
  OBVIOUS
<1> QED
  BY <1>6, <1>7, <1>8

\* A deletion: the method ends now, if it had ended before or not.
LEMMA DeleteTable ==
  ASSUME TableType, ~ Overlap, NEW i \in Ids, Delete(i)
  PROVE  /\ TableType' /\ Pending = {} /\ Settled = counter /\ Inserted = Ids
         /\ Ids' = Ids /\ Inserted' = Ids /\ Pending' = {} /\ Settled' = counter'
         /\ counter \in 1..Forever - 1 /\ counter' = counter + 1
         /\ rewritten' = rewritten \union Since(i)
         /\ \A k \in Ids : /\ methods'[k].sig = methods[k].sig
                           /\ methods'[k].min = methods[k].min
                           /\ methods'[k].max = IF k \in {i} THEN counter ELSE methods[k].max
                           /\ methods'[k].inserted <=> methods[k].inserted
<1>1. /\ Pending = {} /\ Settled = counter /\ Inserted = Ids
      /\ counter \in 1..Forever - 1 /\ deletes < MaxDeletes
      /\ counter' = counter + 1 /\ deletes' = deletes + 1
      /\ methods' = [methods EXCEPT ![i].max = counter]
      /\ rewritten' = rewritten \union Since(i)
  BY SettledIs, TableIs DEF Delete, Undisturbed, Pending, Inserted
<1>2. /\ methods' \in Seq(Method)
      /\ Len(methods') = Len(methods) /\ Ids' = Ids
      /\ methods'[i] = [methods[i] EXCEPT !.max = counter]
      /\ \A k \in Ids \ {i} : methods'[k] = methods[k]
  <2> DEFINE mi == [methods[i] EXCEPT !.max = counter]
  <2>0. counter \in Nat
    BY <1>1
  <2>1. /\ methods \in Seq(Method) /\ DOMAIN methods = Ids /\ Ids = 1..Len(methods)
        /\ methods[i] \in Method
    BY <1>1, TableIs DEF TableType, Ids
  <2>2. mi \in Method
    BY <2>0, <2>1 DEF Method
  <2>3. methods' = [methods EXCEPT ![i] = mi]
    BY <1>1, <2>1
  <2> HIDE DEF mi
  <2>4. methods' \in Seq(Method) /\ Len(methods') = Len(methods) /\ DOMAIN methods' = DOMAIN methods
    <3>1. i \in DOMAIN methods
      BY <1>1, <2>1
    <3> QED
      BY <2>1, <2>2, <2>3, <3>1, Updated
  <2>5. methods'[i] = mi /\ \A k \in Ids \ {i} : methods'[k] = methods[k]
    BY <1>1, <2>1, <2>3
  <2> QED
    BY <2>4, <2>5 DEF mi, Ids
<1>3. \A k \in Ids : methods[k] \in Method
  BY TableIs
<1>4. \A k \in Ids : /\ methods'[k].sig = methods[k].sig
                     /\ methods'[k].min = methods[k].min
                     /\ methods'[k].max = IF k \in {i} THEN counter ELSE methods[k].max
                     /\ methods'[k].inserted <=> methods[k].inserted
  <2> SUFFICES ASSUME NEW k \in Ids
               PROVE  /\ methods'[k].sig = methods[k].sig
                      /\ methods'[k].min = methods[k].min
                      /\ methods'[k].max = IF k \in {i} THEN counter ELSE methods[k].max
                      /\ methods'[k].inserted <=> methods[k].inserted
    OBVIOUS
  <2>1. CASE k = i
    BY <1>1, <1>2, <1>3, <2>1 DEF Method
  <2>2. CASE k # i
    BY <1>2, <1>3, <2>2 DEF Method
  <2> QED
    BY <2>1, <2>2
<1>5. Inserted' = Ids /\ Pending' = {} /\ Settled' = counter'
  <2>1. \A k \in Ids' : methods'[k].inserted
    BY <1>1, <1>2, <1>4 DEF Inserted
  <2>2. Inserted' = Ids' /\ Pending' = {}
    BY <2>1 DEF Inserted, Pending
  <2> QED
    BY <1>2, <2>2 DEF Settled
<1>7. TableType'
  <2>1. deletes \in Nat /\ deletes + 1 <= MaxDeletes /\ counter + 1 \in Nat
    BY <1>1, BoundsAre DEF TableType
  <2>2. Len(methods) \in Nat /\ counter + 1 = 1 + Len(methods) + (deletes + 1)
    BY <2>1, TableIs DEF TableType
  <2> QED
    BY <1>1, <1>2, <2>1, <2>2 DEF TableType
<1> QED
  BY <1>1, <1>2, <1>4, <1>5, <1>7

\* Of a method that has not ended: it is gone from the next world on.
LEMMA DeleteChange ==
  ASSUME TableType, TableInv, ~ Overlap, NEW i \in Ids, Delete(i), methods[i].max = Forever
  PROVE  /\ TableType' /\ TableInv' /\ Settled' = counter'
         /\ Change(ActiveIn(counter) \ {i}) /\ i \in ActiveIn(counter)
<1>1. /\ Pending = {} /\ Settled = counter /\ Inserted = Ids /\ i \in ActiveIn(counter)
      /\ counter \in 1..Forever - 1 /\ counter' = counter + 1 /\ Ids' = Ids /\ TableType'
  BY DeleteTable, ActiveNow
<1>2. rewritten' = rewritten
  <2>1. Since(i) = {}
    BY <1>1, TableIs DEF Since
  <2> QED
    BY <2>1, DeleteTable
<1>4. \A k \in Ids : /\ methods'[k].sig = methods[k].sig
                     /\ methods'[k].min = methods[k].min
                     /\ methods'[k].max = IF k \in {i} THEN Settled ELSE methods[k].max
                     /\ methods'[k].inserted <=> (k \in {} \/ methods[k].inserted)
  BY <1>1, DeleteTable
<1>5. \A k \in ActiveIn(counter) \ {i}, x \in {} : methods[k].sig # methods[x].sig
  OBVIOUS
<1>6. TableInv' /\ Change((ActiveIn(counter) \ {i}) \cup {}) /\ Settled' = counter'
  <2>1. counter' = Settled + 1 /\ {i} \subseteq ActiveIn(counter)
    BY <1>1
  <2> DEFINE added == {}
             ended == {i}
  <2>2. /\ Pending = added /\ ended \subseteq ActiveIn(counter) /\ Ids' = Ids
        /\ counter' = Settled + 1 /\ rewritten' = rewritten
    BY <1>1, <1>2, <2>1
  <2>3. \A k \in Ids : /\ methods'[k].sig = methods[k].sig
                       /\ methods'[k].min = methods[k].min
                       /\ methods'[k].max = IF k \in ended THEN Settled ELSE methods[k].max
                       /\ methods'[k].inserted <=> (k \in added \/ methods[k].inserted)
    BY <1>4
  <2>4. \A k \in ActiveIn(counter) \ ended, x \in added : methods[k].sig # methods[x].sig
    BY <1>5
  <2>5. /\ TableInv' /\ Change((ActiveIn(counter) \ ended) \cup added) /\ Settled' = counter'
        /\ added \intersect ActiveIn(counter) = {}
    <3> HIDE DEF added, ended
    <3> QED
      BY <2>2, <2>3, <2>4, TableChange
  <2> QED
    BY <2>5
<1>8. (ActiveIn(counter) \ {i}) \cup {} = ActiveIn(counter) \ {i}
  OBVIOUS
<1> QED
  BY <1>1, <1>6, <1>8

\* Of a method that had ended: the worlds since are rewritten, and the next one
\* has the methods that this one had before.
LEMMA RepeatChange ==
  ASSUME TableType, TableInv, ~ Overlap, NEW i \in Ids, Delete(i), methods[i].max # Forever
  PROVE  TableType' /\ TableInv' /\ Settled' = counter' /\ Change(ActiveIn(counter))
<1>1. /\ Settled = counter /\ Inserted = Ids /\ Pending' = {} /\ Inserted' = Ids
      /\ counter \in 1..Forever - 1 /\ counter' = counter + 1 /\ Ids' = Ids /\ TableType'
      /\ Settled' = counter' /\ rewritten' = rewritten \union Since(i)
  BY DeleteTable
<1>2. \A k \in Ids : /\ methods'[k].sig = methods[k].sig
                     /\ methods'[k].min = methods[k].min
                     /\ methods'[k].max = IF k = i THEN counter ELSE methods[k].max
  BY DeleteTable
<1>3. \A k \in Ids : /\ methods[k].min \in 1..counter /\ methods[k].max \in Nat
                     /\ methods[k].max = Forever \/ methods[k].max < counter
  BY <1>1, TableIs DEF TableInv
<1>4. methods[i].max \in Nat /\ methods[i].max < counter /\ counter \in Nat /\ Forever \in Nat
  BY <1>1, <1>3, TableIs
<1>5. Since(i) = methods[i].max + 1..counter
  BY DEF Since
<1>6. \A w : /\ ActiveIn(w) = {k \in Ids : methods[k].min <= w /\ w <= methods[k].max}
            /\ ActiveIn(w)' = {k \in Ids : methods'[k].min <= w /\ w <= methods'[k].max}
  BY <1>1 DEF ActiveIn, Active, Within, Inserted
<1>7. ASSUME NEW w \in (0..counter) \ rewritten' PROVE ActiveIn(w)' = ActiveIn(w)
  <2>1. w <= methods[i].max /\ w <= counter
    BY <1>1, <1>4, <1>5, <1>7
  <2>2. \A k \in Ids : w <= methods'[k].max <=> w <= methods[k].max
    BY <1>2, <2>1
  <2> QED
    BY <1>2, <1>6, <2>2
<1>8. ASSUME NEW w, w = counter' PROVE ActiveIn(w)' = ActiveIn(counter)
  <2>1. ASSUME NEW k \in Ids
        PROVE  (methods'[k].min <= w /\ w <= methods'[k].max)
                 <=> (methods[k].min <= counter /\ counter <= methods[k].max)
    <3>1. CASE k = i
      BY <1>1, <1>2, <1>4, <1>8, <3>1
    <3>2. CASE k # i
      <4>1. methods'[k].max = methods[k].max /\ methods'[k].min = methods[k].min
        BY <1>2, <3>2
      <4> QED
        BY <1>1, <1>3, <1>4, <1>8, <4>1
    <3> QED
      BY <3>1, <3>2
  <2> QED
    BY <1>6, <2>1
<1>9. Change(ActiveIn(counter))
  BY <1>1, <1>2, <1>4, <1>7, <1>8 DEF Change
<1>10. TableInv'
  <2>1. ASSUME NEW k \in Inserted'
        PROVE  methods'[k].min \in 1..Settled' /\ (methods'[k].max = Forever \/ methods'[k].max < Settled')
    <3>1. k \in Ids
      BY <1>1
    <3>2. methods'[k].min \in 1..counter /\ methods'[k].max \in {counter, methods[k].max}
      BY <1>2, <1>3, <3>1
    <3> QED
      BY <1>1, <1>3, <1>4, <3>1, <3>2
  <2>2. ASSUME NEW w \in rewritten' PROVE w \in Nat /\ w < Settled'
    <3>1. w \in rewritten => w \in Nat /\ w < counter
      BY <1>1 DEF TableInv
    <3>2. w \in Since(i) => w \in Nat /\ w <= counter
      BY <1>4, <1>5
    <3> QED
      BY <1>1, <1>4, <2>2, <3>1, <3>2
  <2>3. ASSUME NEW w \in (0..counter') \ rewritten', NEW k \in ActiveIn(w)', NEW j \in ActiveIn(w)',
               methods'[k].sig = methods'[j].sig
        PROVE  k = j
    <3>1. \E v \in (0..counter) \ rewritten : ActiveIn(w)' = ActiveIn(v)
      <4>1. CASE w \in 0..counter
        BY <1>1, <1>7, <2>3, <4>1
      <4>2. CASE w = counter + 1
        BY <1>1, <1>8, <4>2, PresentIsClean
      <4> QED
        BY <1>1, <4>1, <4>2
    <3>2. k \in Ids /\ j \in Ids
      BY <1>6
    <3>3. methods[k].sig = methods[j].sig
      BY <1>2, <2>3, <3>2
    <3> QED
      BY <3>1, <3>3 DEF TableInv
  <2> QED
    BY <1>1, <2>1, <2>2, <2>3 DEF TableInv
<1> QED
  BY <1>1, <1>9, <1>10

-----------------------------------------------------------------------------
(* Selection.                                                               *)

LEMMA SelectedIs ==
  ASSUME NEW t, NEW w, NEW i
  PROVE  i \in Selected(t, w) <=>
           /\ i \in ActiveIn(w) /\ t \in methods[i].sig
           /\ \A j \in ActiveIn(w) : t \in methods[j].sig => methods[i].sig \subseteq methods[j].sig
BY DEF Selected, Applicable

\* One method at most is selected, but in a rewritten world.
LEMMA SelectedOne ==
  ASSUME TableType, TableInv, NEW w \in (0..counter) \ rewritten, NEW t, NEW i \in Selected(t, w)
  PROVE  Selected(t, w) = {i}
<1> SUFFICES ASSUME NEW j \in Selected(t, w) PROVE j = i
  OBVIOUS
<1>1. i \in ActiveIn(w) /\ j \in ActiveIn(w) /\ methods[i].sig = methods[j].sig
  <2>1. /\ i \in ActiveIn(w) /\ t \in methods[i].sig
        /\ \A k \in ActiveIn(w) : t \in methods[k].sig => methods[i].sig \subseteq methods[k].sig
    BY SelectedIs
  <2>2. /\ j \in ActiveIn(w) /\ t \in methods[j].sig
        /\ \A k \in ActiveIn(w) : t \in methods[k].sig => methods[j].sig \subseteq methods[k].sig
    BY SelectedIs
  <2>3. methods[i].sig \subseteq methods[j].sig /\ methods[j].sig \subseteq methods[i].sig
    BY <2>1, <2>2
  <2> QED
    BY <2>1, <2>2, <2>3
<1> QED
  BY <1>1 DEF TableInv

\* Selection depends on the methods that take the argument.
LEMMA SelectedSame ==
  ASSUME NEW t, NEW v, NEW w,
         \A i \in Inserted : t \in methods[i].sig => (i \in ActiveIn(v) <=> i \in ActiveIn(w))
  PROVE  Selected(t, v) = Selected(t, w)
<1>1. \A i \in ActiveIn(v) \cup ActiveIn(w) : i \in Inserted
  BY DEF ActiveIn, Active, Inserted
<1>2. \A i : t \in methods[i].sig => (i \in ActiveIn(v) <=> i \in ActiveIn(w))
  BY <1>1
<1>3. Applicable(t, v) = Applicable(t, w)
  BY <1>2 DEF Applicable
<1> QED
  BY <1>3 DEF Selected

\* A change leaves what is selected in the settled worlds.
LEMMA SelectedKept ==
  ASSUME NEW now, Change(now), NEW w \in (0..Settled) \ rewritten', NEW t
  PROVE  Selected(t, w)' = Selected(t, w)
<1>1. ActiveIn(w)' = ActiveIn(w) /\ ActiveIn(w) \subseteq Ids
  BY DEF Change, ActiveIn
<1>2. \A i \in ActiveIn(w) : methods'[i].sig = methods[i].sig
  BY <1>1 DEF Change
<1>3. Applicable(t, w)' = Applicable(t, w)
  BY <1>1, <1>2 DEF Applicable
<1>4. \A i \in Applicable(t, w) : methods'[i].sig = methods[i].sig
  BY <1>2 DEF Applicable
<1> QED
  BY <1>3, <1>4 DEF Selected

\* In the bounds of an answer the methods that the query meets come and go as in its world.
LEMMA BoundsHold ==
  ASSUME TableType, TableInv, NEW w \in 0..counter, NEW query, NEW meets \in BOOLEAN
  PROVE  LET b == Bounds(query, w, meets)
         IN  /\ b \in [min : Nat, max : Nat]
             /\ b.min <= w /\ w <= b.max
             /\ b.max = Forever \/ b.max < Settled
             /\ \A v \in b.min..b.max : \A i \in Met(query, meets) :
                  i \in ActiveIn(v) <=> i \in ActiveIn(w)
<1> DEFINE met == Met(query, meets)
           over == {j \in met : methods[j].max < w}
           present == met \intersect ActiveIn(w)
           future == {j \in met : w < methods[j].min}
           ended == {methods[i].max + 1 : i \in over}
           begun == {methods[i].min : i \in present}
           begin == {methods[i].min - 1 : i \in future}
           end == {methods[i].max : i \in present}
           before == ended \union begun
           after == begin \union end
           b == Bounds(query, w, meets)
<1>1. b = [min |-> Max(before \union {0}), max |-> Min(after \union {Forever})]
  BY DEF Bounds
<1>2. /\ met \subseteq Ids /\ met \subseteq Inserted
      /\ Settled \in Nat /\ Settled <= counter /\ counter \in Nat /\ counter < Forever /\ Forever \in Nat
      /\ w \in Nat /\ w <= counter
  BY TableIs, TableFinite, SettledIs DEF Met
<1>3. /\ \A i \in met : /\ methods[i].min \in Nat /\ methods[i].max \in Nat
                        /\ methods[i].min <= Settled /\ methods[i].min >= 1
                        /\ methods[i].max = Forever \/ methods[i].max < Settled
      /\ \A v : \A i \in met : i \in ActiveIn(v) <=> methods[i].min <= v /\ v <= methods[i].max
  <2>1. \A i \in met : i \in Ids /\ i \in Inserted
    BY <1>2
  <2>2. \A v : \A i \in met : i \in ActiveIn(v) <=> methods[i].min <= v /\ v <= methods[i].max
    BY <2>1 DEF ActiveIn, Active, Within, Inserted
  <2> HIDE DEF met
  <2> QED
    BY <1>2, <2>1, <2>2, TableIs DEF TableInv
<1>4. IsFiniteSet(before \union {0}) /\ IsFiniteSet(after \union {Forever})
  <2>1. IsFiniteSet(over) /\ IsFiniteSet(present) /\ IsFiniteSet(future)
    BY <1>2, TableFinite
  <2>2. IsFiniteSet(ended)
    <3> DEFINE f == [i \in over |-> methods[i].max + 1]
    <3>1. DOMAIN f = over /\ ended = {f[i] : i \in over}
      OBVIOUS
    <3> HIDE DEF f, over, ended
    <3> QED
      BY <2>1, <3>1, ImageFinite
  <2>3. IsFiniteSet(begun) /\ IsFiniteSet(end)
    <3> DEFINE f == [i \in present |-> methods[i].min]
               h == [i \in present |-> methods[i].max]
    <3>1. DOMAIN f = present /\ begun = {f[i] : i \in present}
          /\ DOMAIN h = present /\ end = {h[i] : i \in present}
      OBVIOUS
    <3> HIDE DEF f, h, present, begun, end
    <3> QED
      BY <2>1, <3>1, ImageFinite
  <2>4. IsFiniteSet(begin)
    <3> DEFINE f == [i \in future |-> methods[i].min - 1]
    <3>1. DOMAIN f = future /\ begin = {f[i] : i \in future}
      OBVIOUS
    <3> HIDE DEF f, future, begin
    <3> QED
      BY <2>1, <3>1, ImageFinite
  <2> HIDE DEF ended, begun, begin, end
  <2>5. IsFiniteSet(before) /\ IsFiniteSet(after)
    BY <2>2, <2>3, <2>4, FS_Union
  <2> QED
    BY <2>5, FS_AddElement
<1>5. /\ \A x \in before : x \in Nat /\ x <= w
      /\ \A x \in after : x \in Nat /\ w <= x /\ (x = Forever \/ x < Settled)
  BY <1>2, <1>3
<1>6. /\ b.min \in before \union {0} /\ \A x \in before \union {0} : x <= b.min
      /\ b.max \in after \union {Forever} /\ \A x \in after \union {Forever} : b.max <= x
  <2> HIDE DEF before, after
  <2>1. before \union {0} \subseteq Int /\ after \union {Forever} \subseteq Int
    BY <1>2, <1>5
  <2>2. before \union {0} # {} /\ after \union {Forever} # {}
    OBVIOUS
  <2>3. Max(before \union {0}) \in before \union {0}
        /\ \A x \in before \union {0} : x <= Max(before \union {0})
    BY <1>4, <2>1, <2>2, MaxIs
  <2>4. Min(after \union {Forever}) \in after \union {Forever}
        /\ \A x \in after \union {Forever} : Min(after \union {Forever}) <= x
    BY <1>4, <2>1, <2>2, MinIs
  <2>5. b.min = Max(before \union {0}) /\ b.max = Min(after \union {Forever})
    BY <1>1
  <2> QED
    BY <2>3, <2>4, <2>5
<1>7. /\ b.min \in Nat /\ b.max \in Nat /\ b.min <= w /\ w <= b.max
      /\ b.max = Forever \/ b.max < Settled
  <2> HIDE DEF before, after, b
  <2> QED
    BY <1>2, <1>5, <1>6
<1>8. ASSUME NEW v \in b.min..b.max, NEW i \in met
      PROVE  i \in ActiveIn(v) <=> i \in ActiveIn(w)
  <2>1. /\ methods[i].min \in Nat /\ methods[i].max \in Nat
        /\ i \in ActiveIn(v) <=> methods[i].min <= v /\ v <= methods[i].max
        /\ i \in ActiveIn(w) <=> methods[i].min <= w /\ w <= methods[i].max
    BY <1>3
  <2>2. /\ v \in Nat /\ b.min <= v /\ v <= b.max
    BY <1>7
  <2>3. CASE i \in ActiveIn(w)
    <3>1. methods[i].min \in before /\ methods[i].max \in after
      BY <2>3
    <3>2. methods[i].min <= b.min /\ b.max <= methods[i].max
      BY <1>6, <3>1
    <3> QED
      BY <1>7, <2>1, <2>2, <2>3, <3>2
  <2>4. CASE methods[i].max < w
    <3>1. methods[i].max + 1 \in before
      BY <2>4
    <3>2. methods[i].max + 1 <= b.min
      BY <1>6, <3>1
    <3> QED
      BY <1>2, <1>7, <2>1, <2>2, <2>4, <3>2
  <2>5. CASE w < methods[i].min
    <3>1. methods[i].min - 1 \in after
      BY <2>5
    <3>2. b.max <= methods[i].min - 1
      BY <1>6, <3>1
    <3> QED
      BY <1>2, <1>7, <2>1, <2>2, <2>5, <3>2
  <2> QED
    BY <1>2, <2>1, <2>3, <2>4, <2>5
<1>9. b \in [min : Nat, max : Nat]
  <2> DEFINE x == Max(before \union {0})
             y == Min(after \union {Forever})
  <2>1. x \in Nat /\ y \in Nat
    BY <1>1, <1>7
  <2> HIDE DEF x, y
  <2>2. b = [min |-> x, max |-> y]
    BY <1>1 DEF x, y
  <2> QED
    BY <2>1, <2>2
<1> QED
  BY <1>7, <1>8, <1>9

-----------------------------------------------------------------------------
(* What the table answers.                                                  *)

LEMMA OrderIs ==
  ASSUME TableType, NEW w
  PROVE  Order(w) \in Tables /\ ToSet(Order(w)) = {methods[i].sig : i \in ActiveIn(w)}
<1> DEFINE S == {methods[i].sig : i \in ActiveIn(w)}
<1>1. ActiveIn(w) \subseteq Ids /\ IsFiniteSet(ActiveIn(w)) /\ Cardinality(ActiveIn(w)) \in 0..MaxMethods
  <2>1. ActiveIn(w) \subseteq Ids
    BY DEF ActiveIn
  <2> QED
    BY <2>1, TableFinite
<1>2. IsFiniteSet(S) /\ Cardinality(S) <= Cardinality(ActiveIn(w))
  <2> DEFINE f == [i \in ActiveIn(w) |-> methods[i].sig]
  <2>1. DOMAIN f = ActiveIn(w) /\ S = {f[i] : i \in ActiveIn(w)}
    OBVIOUS
  <2> HIDE DEF f, S
  <2> QED
    BY <1>1, <2>1, ImageFinite
<1>3. S \subseteq Signatures
  BY <1>1, TableIs
<1>4. Cardinality(S) \in 0..MaxMethods
  <2> HIDE DEF S
  <2>1. Cardinality(S) \in Nat
    BY <1>2, FS_CardinalityType
  <2> QED
    BY <1>1, <1>2, <2>1, BoundsAre
<1>5. Order(w) = SetToSeq(S)
  BY DEF Order
<1> HIDE DEF S
<1>6. /\ SetToSeq(S) \in [1..Cardinality(S) -> S]
      /\ IsInjective(SetToSeq(S)) /\ ToSet(SetToSeq(S)) = S
  BY <1>2, SetToSeqIs
<1>7. SetToSeq(S) \in [1..Cardinality(S) -> Signatures]
  BY <1>3, <1>6
<1>8. SetToSeq(S) \in Tables
  BY <1>4, <1>6, <1>7 DEF Tables
<1> QED
  BY <1>5, <1>6, <1>8 DEF S

LEMMA Dispatch ==
  ASSUME DispatchRight, TableType, NEW query, query \in (SUBSET Types) \ {{}}, NEW w
  PROVE  /\ SomeMatches(query, w) # Nothing =>
              RightMatches(Order(w), query, FALSE, SomeMatches(query, w))
         /\ Candidates(query, w) # Nothing =>
              RightMatches(Order(w), query, TRUE, Candidates(query, w))
         /\ RightSupremum(Order(w), query, Supremum(query, w))
<1>1. Order(w) \in Tables
  BY OrderIs
<1> QED
  BY <1>1, Zenon DEF DispatchRight, SomeMatches, Candidates, Supremum

LEMMA MethodOfIs ==
  ASSUME TableType, NEW w, NEW sig, sig \in ToSet(Order(w))
  PROVE  MethodOf(sig, w) \in ActiveIn(w) /\ methods[MethodOf(sig, w)].sig = sig
<1>1. \E i \in ActiveIn(w) : methods[i].sig = sig
  BY OrderIs
<1> QED
  BY <1>1 DEF MethodOf

\* The one method found for a signature is the one that it selects.
LEMMA SupremumSelects ==
  ASSUME DispatchRight, TableType, NEW query, query \in (SUBSET Types) \ {{}}, NEW w,
         Supremum(query, w) # Nothing, Len(Supremum(query, w).matches) = 1
  PROVE  LET i == MethodOf(Supremum(query, w).matches[1], w)
         IN  /\ i \in ActiveIn(w) /\ query \subseteq methods[i].sig
             /\ \A j \in ActiveIn(w) : query \subseteq methods[j].sig
                                       => methods[i].sig \subseteq methods[j].sig
<1> DEFINE sig == Supremum(query, w).matches[1]
           i == MethodOf(sig, w)
           order == Order(w)
           above == {s \in ToSet(order) : query \subseteq s}
           least == {s \in above : \A s2 \in above : s \subseteq s2}
<1>1. least = {sig}
  BY Dispatch DEF RightSupremum
<1>2. /\ sig \in ToSet(order) /\ query \subseteq sig
      /\ \A s2 \in ToSet(order) : query \subseteq s2 => sig \subseteq s2
  BY <1>1
<1>3. i \in ActiveIn(w) /\ methods[i].sig = sig
  <2> HIDE DEF sig
  <2> QED
    BY <1>2, MethodOfIs
<1>4. \A j \in ActiveIn(w) : methods[j].sig \in ToSet(order)
  BY OrderIs
<1> QED
  BY <1>2, <1>3, <1>4

LEMMA TakenByIs ==
  ASSUME TableType, NEW w, NEW t
  PROVE  /\ TakenBy(Order(w), t) = {methods[i].sig : i \in Applicable(t, w)}
         /\ BestFor(Order(w), t) = {methods[i].sig : i \in Selected(t, w)}
<1>1. TakenBy(Order(w), t) = {methods[i].sig : i \in Applicable(t, w)}
  BY OrderIs DEF TakenBy, Applicable
<1>2. BestFor(Order(w), t) = {methods[i].sig : i \in Selected(t, w)}
  BY <1>1 DEF BestFor, Selected
<1> QED
  BY <1>1, <1>2

\* The matches of a call are met by it, and the one that is selected is among them.
LEMMA MatchesSelect ==
  ASSUME DispatchRight, TableType, TableInv, NEW query, query \in (SUBSET Types) \ {{}},
         NEW w \in 0..counter, SomeMatches(query, w) # Nothing
  PROVE  LET found == SomeMatches(query, w)
             ids == {MethodOf(sig, w) : sig \in ToSet(found.matches)}
         IN  /\ ids \subseteq ActiveIn(w) /\ found.ambig \in BOOLEAN
             /\ \A i \in ids : ~ Disjoint(query, methods[i].sig)
             /\ \A t \in query : /\ Selected(t, w) # {} => \E i \in ids : i \in Selected(t, w)
                                 /\ Selected(t, w) = {} /\ Applicable(t, w) # {} => found.ambig
             /\ Cardinality(query) = 1 => \A i, j \in ids : i = j
<1> DEFINE found == SomeMatches(query, w)
           order == Order(w)
           met == {sig \in ToSet(order) : ~ Disjoint(query, sig)}
           ids == {MethodOf(sig, w) : sig \in ToSet(found.matches)}
<1>1. RightMatches(order, query, FALSE, found)
  BY Dispatch
<1> HIDE DEF found
<1>2. /\ found.matches \in Seq(met)
      /\ \A t \in query :
           /\ BestFor(order, t) # {} =>
                /\ t \in UNION ToSet(found.matches)
                /\ FirstFor(found.matches, t) \in BestFor(order, t)
           /\ BestFor(order, t) = {} /\ TakenBy(order, t) # {} => found.ambig
      /\ Cardinality(query) = 1 => Len(found.matches) <= 1
      /\ found.ambig \in BOOLEAN
  BY <1>1 DEF RightMatches
<1>3. ToSet(found.matches) \subseteq met /\ DOMAIN found.matches = 1..Len(found.matches)
      /\ Len(found.matches) \in Nat
  <2> DEFINE m == found.matches
  <2>1. m \in Seq(met)
    BY <1>2
  <2> HIDE DEF met, m
  <2>2. ToSet(m) \subseteq met /\ DOMAIN m = 1..Len(m) /\ Len(m) \in Nat
    BY <2>1 DEF ToSet
  <2> QED
    BY <2>2 DEF m
<1>4. ASSUME NEW sig \in ToSet(found.matches)
      PROVE  /\ MethodOf(sig, w) \in ActiveIn(w) /\ methods[MethodOf(sig, w)].sig = sig
             /\ ~ Disjoint(query, sig)
  <2>1. sig \in ToSet(order) /\ ~ Disjoint(query, sig)
    BY <1>3
  <2> QED
    BY <2>1, MethodOfIs
<1>5. ASSUME NEW t \in query, NEW i \in Selected(t, w)
      PROVE  \E k \in ids : k \in Selected(t, w)
  <2>1. methods[i].sig \in BestFor(order, t)
    BY TakenByIs
  <2>2. /\ t \in UNION ToSet(found.matches)
        /\ FirstFor(found.matches, t) \in BestFor(order, t)
    BY <1>2, <2>1
  <2> DEFINE m == found.matches
             N == {n \in DOMAIN m : t \in m[n]}
             sig == FirstFor(m, t)
  <2>3. sig \in ToSet(m)
    <3>1. N # {} /\ N \subseteq 1..Len(m)
      BY <1>3, <2>2 DEF ToSet
    <3>2. IsFiniteSet(N) /\ N \subseteq Int
      <4>1. Len(m) \in Int /\ 1 \in Int
        BY <1>3
      <4>2. IsFiniteSet(1..Len(m))
        BY <4>1, FS_Interval
      <4> HIDE DEF N, m
      <4>3. N \in SUBSET (1..Len(m))
        BY <3>1
      <4>4. IsFiniteSet(N)
        BY <4>2, <4>3, FS_Subset
      <4>5. 1..Len(m) \subseteq Int
        BY <4>1
      <4> QED
        BY <4>3, <4>4, <4>5
    <3>3. Min(N) \in N
      <4> HIDE DEF N
      <4> QED
        BY <3>1, <3>2, MinIs
    <3>4. sig = m[Min(N)]
      BY DEF FirstFor
    <3> QED
      BY <3>3, <3>4 DEF ToSet
  <2>4. PICK j \in Selected(t, w) : methods[j].sig = sig
    BY <2>2, TakenByIs
  <2>6. MethodOf(sig, w) \in ActiveIn(w) /\ methods[MethodOf(sig, w)].sig = sig
    <3> HIDE DEF sig, m
    <3> QED
      BY <1>4, <2>3 DEF m
  <2>7. MethodOf(sig, w) \in Selected(t, w)
    <3> HIDE DEF sig
    <3>1. /\ j \in ActiveIn(w) /\ t \in methods[j].sig
          /\ \A k \in ActiveIn(w) : t \in methods[k].sig => methods[j].sig \subseteq methods[k].sig
      BY <2>4, SelectedIs
    <3> QED
      BY <2>4, <2>6, <3>1, SelectedIs
  <2> QED
    BY <2>3, <2>7
<1>6. ASSUME NEW t \in query, Selected(t, w) = {}, Applicable(t, w) # {}
      PROVE  found.ambig
  <2>1. BestFor(order, t) = {}
    BY <1>6, TakenByIs
  <2>2. TakenBy(order, t) # {}
    <3>1. PICK i : i \in Applicable(t, w)
      BY <1>6
    <3>2. methods[i].sig \in TakenBy(order, t)
      BY <3>1, TakenByIs
    <3> QED
      BY <3>2
  <2> HIDE DEF order
  <2> QED
    BY <1>2, <2>1, <2>2, Zenon
<1>7. ASSUME Cardinality(query) = 1, NEW i \in ids, NEW j \in ids
      PROVE  i = j
  <2>1. \A s1, s2 \in ToSet(found.matches) : s1 = s2
    BY <1>2, <1>3, <1>7 DEF ToSet
  <2> QED
    BY <2>1
<1>8. ids \subseteq ActiveIn(w) /\ \A i \in ids : ~ Disjoint(query, methods[i].sig)
  BY <1>4
<1> QED
  BY <1>2, <1>5, <1>6, <1>7, <1>8 DEF found

\* Of the methods that take an argument, those that have none below them are candidates.
LEMMA CandidatesCover ==
  ASSUME DispatchRight, TableType, NEW query, query \in (SUBSET Types) \ {{}}, NEW w,
         Candidates(query, w) # Nothing, NEW t \in query, NEW i \in Applicable(t, w),
         \A j \in Applicable(t, w) : ~ MoreSpecific(methods[j].sig, methods[i].sig)
  PROVE  methods[i].sig \in ToSet(Candidates(query, w).matches)
<1>1. RightMatches(Order(w), query, TRUE, Candidates(query, w))
  BY Dispatch
<1>2. /\ methods[i].sig \in TakenBy(Order(w), t)
      /\ \A s2 \in TakenBy(Order(w), t) : ~ MoreSpecific(s2, methods[i].sig)
  BY TakenByIs
<1> QED
  BY <1>1, <1>2 DEF RightMatches

-----------------------------------------------------------------------------
(* Selection after a change.                                                *)

LEMMA SelectedAfter ==
  ASSUME NEW now, Change(now), now \subseteq Ids, NEW w, w = counter', NEW t
  PROVE  Selected(t, w)' = {i \in now : /\ t \in methods[i].sig
                                        /\ \A j \in now : t \in methods[j].sig
                                              => methods[i].sig \subseteq methods[j].sig}
<1>1. ActiveIn(w)' = now /\ \A i \in now : methods'[i].sig = methods[i].sig
  BY DEF Change
<1>2. Applicable(t, w)' = {i \in now : t \in methods[i].sig}
  BY <1>1 DEF Applicable
<1> QED
  BY <1>1, <1>2 DEF Selected

\* A method that has taken another's place: what was not the other's stays.
LEMMA ReplaceSelected ==
  ASSUME TableType, TableInv, NEW i \in Ids, NEW j \in ActiveIn(counter),
         i \notin ActiveIn(counter), methods[j].sig = methods[i].sig,
         Change((ActiveIn(counter) \ {j}) \cup {i}), NEW w, w = counter', NEW t
  PROVE  /\ \A k : Selected(t, counter) = {k} /\ k # j => Selected(t, w)' = {k}
         /\ Selected(t, counter) = {} => Selected(t, w)' = {}
<1> DEFINE A == ActiveIn(counter)
           now == (A \ {j}) \cup {i}
<1>1. A \subseteq Ids
  BY DEF ActiveIn
<1>2. Selected(t, w)' = {k \in now : /\ t \in methods[k].sig
                                     /\ \A m \in now : t \in methods[m].sig
                                           => methods[k].sig \subseteq methods[m].sig}
  <2>1. now \subseteq Ids
    BY <1>1
  <2> QED
    BY <2>1, SelectedAfter
<1>3. Selected(t, counter) = {k \in A : /\ t \in methods[k].sig
                                        /\ \A m \in A : t \in methods[m].sig
                                           => methods[k].sig \subseteq methods[m].sig}
  BY SelectedIs
<1> HIDE DEF A
<1>4. \A k \in Selected(t, w)' : k # i => k \in Selected(t, counter)
  BY <1>2, <1>3
<1>5. i \in Selected(t, w)' => j \in Selected(t, counter)
  BY <1>2, <1>3 DEF A
<1>6. \A k \in Selected(t, counter) : k # j => k \in Selected(t, w)'
  BY <1>2, <1>3 DEF A
<1> QED
  BY <1>4, <1>5, <1>6

\* A method that is gone: what was not its own stays, and where nothing was
\* selected, something is only if it was unordered with that.
LEMMA DeleteSelected ==
  ASSUME TableType, TableInv, NEW i \in ActiveIn(counter),
         Change(ActiveIn(counter) \ {i}), NEW w, w = counter', NEW t
  PROVE  /\ \A k : Selected(t, counter) = {k} /\ k # i => Selected(t, w)' = {k}
         /\ Selected(t, counter) = {} /\ Selected(t, w)' # {} =>
              \E j \in ActiveIn(counter) \ {i} :
                 t \in methods[i].sig /\ t \in methods[j].sig /\ Unordered(methods[i].sig, methods[j].sig)
<1> DEFINE A == ActiveIn(counter)
           now == A \ {i}
<1>1. A \subseteq Ids
  BY DEF ActiveIn
<1>2. Selected(t, w)' = {k \in now : /\ t \in methods[k].sig
                                     /\ \A m \in now : t \in methods[m].sig
                                           => methods[k].sig \subseteq methods[m].sig}
  <2>1. now \subseteq Ids
    BY <1>1
  <2> QED
    BY <2>1, SelectedAfter
<1>3. Selected(t, counter) = {k \in A : /\ t \in methods[k].sig
                                        /\ \A m \in A : t \in methods[m].sig
                                           => methods[k].sig \subseteq methods[m].sig}
  BY SelectedIs
<1> HIDE DEF A
<1>4. ASSUME NEW k, Selected(t, counter) = {k}, k # i PROVE Selected(t, w)' = {k}
  <2>1. k \in Selected(t, w)'
    BY <1>2, <1>3, <1>4
  <2>2. ASSUME NEW m \in Selected(t, w)' PROVE m \in Selected(t, counter)
    <3>1. methods[m].sig \subseteq methods[k].sig /\ m \in A /\ t \in methods[m].sig
      BY <1>2, <2>1, <2>2
    <3>2. \A x \in A : t \in methods[x].sig => methods[k].sig \subseteq methods[x].sig
      BY <1>3, <1>4
    <3> QED
      BY <1>3, <3>1, <3>2
  <2> QED
    BY <1>4, <2>1, <2>2
<1>5. ASSUME Selected(t, counter) = {}, NEW k \in Selected(t, w)'
      PROVE  /\ k \in A \ {i} /\ t \in methods[i].sig /\ t \in methods[k].sig
             /\ Unordered(methods[i].sig, methods[k].sig)
  <2>1. /\ k \in A \ {i} /\ t \in methods[k].sig
        /\ \A m \in A \ {i} : t \in methods[m].sig => methods[k].sig \subseteq methods[m].sig
    BY <1>2
  <2>2. ~ (\A m \in A : t \in methods[m].sig => methods[k].sig \subseteq methods[m].sig)
    BY <1>3, <1>5, <2>1
  <2>3. t \in methods[i].sig /\ ~ (methods[k].sig \subseteq methods[i].sig)
    BY <2>1, <2>2
  <2>4. ~ (methods[i].sig \subseteq methods[k].sig)
    <3> SUFFICES ASSUME methods[i].sig \subseteq methods[k].sig PROVE FALSE
      OBVIOUS
    <3>1. \A m \in A : t \in methods[m].sig => methods[i].sig \subseteq methods[m].sig
      BY <2>1
    <3>2. i \in Selected(t, counter)
      BY <1>3, <2>3, <3>1 DEF A
    <3> QED
      BY <1>5, <3>2
  <2> QED
    BY <2>1, <2>3, <2>4 DEF Unordered, MoreSpecific
<1> QED
  BY <1>4, <1>5 DEF A

\* A method that is new: it is selected, or nothing is, where it takes the
\* argument and the one selected is not more specific.
LEMMA NewSelected ==
  ASSUME TableType, TableInv, NEW i \in Ids, i \notin ActiveIn(counter),
         \A k \in ActiveIn(counter) : methods[k].sig # methods[i].sig,
         Change(ActiveIn(counter) \cup {i}), NEW w, w = counter', NEW t
  PROVE  /\ t \notin methods[i].sig => Selected(t, w)' = Selected(t, counter)
         /\ \A k : /\ Selected(t, counter) = {k}
                   /\ t \notin methods[i].sig \/ MoreSpecific(methods[k].sig, methods[i].sig)
                   => Selected(t, w)' = {k}
         /\ Selected(t, counter) = {} /\ Selected(t, w)' # {} =>
              /\ Selected(t, w)' = {i} /\ t \in methods[i].sig
              /\ \A j \in ActiveIn(counter) : t \in methods[j].sig
                                              => MoreSpecific(methods[i].sig, methods[j].sig)
<1> DEFINE A == ActiveIn(counter)
           now == A \cup {i}
<1>1. A \subseteq Ids
  BY DEF ActiveIn
<1>2. Selected(t, w)' = {k \in now : /\ t \in methods[k].sig
                                     /\ \A m \in now : t \in methods[m].sig
                                           => methods[k].sig \subseteq methods[m].sig}
  <2>1. now \subseteq Ids
    BY <1>1
  <2> QED
    BY <2>1, SelectedAfter
<1>3. Selected(t, counter) = {k \in A : /\ t \in methods[k].sig
                                        /\ \A m \in A : t \in methods[m].sig
                                           => methods[k].sig \subseteq methods[m].sig}
  BY SelectedIs
<1> HIDE DEF A
<1>4. t \notin methods[i].sig => Selected(t, w)' = Selected(t, counter)
  BY <1>2, <1>3
<1>5. ASSUME NEW k, Selected(t, counter) = {k}, MoreSpecific(methods[k].sig, methods[i].sig)
      PROVE  Selected(t, w)' = {k}
  <2>1. k \in A /\ t \in methods[k].sig
        /\ \A m \in A : t \in methods[m].sig => methods[k].sig \subseteq methods[m].sig
    BY <1>3, <1>5
  <2>2. k \in Selected(t, w)'
    BY <1>2, <1>5, <2>1 DEF MoreSpecific
  <2>3. \A m \in Selected(t, w)' : m \in Selected(t, counter)
    <3> SUFFICES ASSUME NEW m \in Selected(t, w)' PROVE m \in Selected(t, counter)
      OBVIOUS
    <3>1. m \in now /\ t \in methods[m].sig
          /\ \A x \in now : t \in methods[x].sig => methods[m].sig \subseteq methods[x].sig
      BY <1>2
    <3>2. methods[m].sig \subseteq methods[k].sig
      BY <2>1, <3>1
    <3>3. m # i
      BY <1>5, <3>2 DEF MoreSpecific
    <3> QED
      BY <1>3, <3>1, <3>3
  <2> QED
    BY <1>5, <2>2, <2>3
<1>6. ASSUME Selected(t, counter) = {}, Selected(t, w)' # {}
      PROVE  /\ Selected(t, w)' = {i} /\ t \in methods[i].sig
             /\ \A j \in A : t \in methods[j].sig => MoreSpecific(methods[i].sig, methods[j].sig)
  <2>1. \A k \in Selected(t, w)' : k = i
    BY <1>2, <1>3, <1>6
  <2>2. Selected(t, w)' = {i}
    BY <1>6, <2>1
  <2>3. /\ t \in methods[i].sig
        /\ \A j \in A : t \in methods[j].sig => methods[i].sig \subseteq methods[j].sig
    BY <1>2, <2>2
  <2>4. \A j \in A : methods[j].sig # methods[i].sig
    BY DEF A
  <2> QED
    BY <2>2, <2>3, <2>4 DEF MoreSpecific
<1> QED
  BY <1>4, <1>5, <1>6 DEF A

-----------------------------------------------------------------------------
(* The cache.                                                               *)

\* An entry that is filled in is right: with one argument within the bounds of
\* the answer; for a whole signature, because every other method that could be
\* selected in it is guarded.
LEMMA EntryIsRight ==
  ASSUME DispatchRight, TableType, TableInv, NEW w \in 0..counter, NEW t \in Types,
         NEW i \in Selected(t, w), NEW meets \in BOOLEAN, NEW csig, csig = CompilationSig(i, t),
         NEW bail \in BOOLEAN
  PROVE  LET f == Entry(i, t, w, Bounds({t}, w, meets), bail, csig, Candidates(csig, w))
         IN  f.entry \in Entries /\ EntryRight(f.entry)
<1> DEFINE all == Candidates(csig, w)
           b == Bounds({t}, w, meets)
           wb == Bounds(csig, w, TRUE)
           mi == Instance(i, csig)
           others == IF all = Nothing THEN {}
                     ELSE {csig \intersect s : s \in ToSet(all.matches) \ {methods[i].sig}}
           narrow == csig = {t} \/ mi \in withOrig \/ all = Nothing \/ (bail /\ others # {})
           f == Entry(i, t, w, b, bail, csig, all)
           one == [sig |-> {t}, guards |-> {}, mi |-> mi, leaf |-> TRUE,
                   min |-> b.min, max |-> b.max]
           wide == [sig |-> csig, guards |-> others, mi |-> mi, leaf |-> FALSE,
                    min |-> wb.min, max |-> wb.max]
<1>1. f.entry = IF narrow THEN one ELSE wide
  BY DEF Entry
<1>2. /\ i \in ActiveIn(w) /\ i \in Ids /\ t \in methods[i].sig
      /\ i \in MethodIds /\ methods[i].sig \in SUBSET Types
  <2>1. i \in ActiveIn(w) /\ t \in methods[i].sig
    BY SelectedIs
  <2> QED
    BY <2>1, TableIs DEF ActiveIn
<1>3. t \in csig /\ csig \in (SUBSET Types) \ {{}} /\ (csig # {t} => csig = methods[i].sig)
  BY <1>2 DEF CompilationSig
<1>4. mi \in Instances /\ mi[1] = i /\ mi[2] = csig
  BY <1>2, <1>3 DEF Instance, Instances
<1>5. w \in Nat /\ counter \in Nat /\ w <= counter /\ Settled \in Nat
  BY TableIs, SettledIs
<1>6. /\ b \in [min : Nat, max : Nat] /\ b.min <= w /\ w <= b.max
      /\ b.max = Forever \/ b.max < Settled
      /\ \A v \in b.min..b.max : \A k \in Met({t}, meets) :
           k \in ActiveIn(v) <=> k \in ActiveIn(w)
  BY BoundsHold
<1>7. /\ wb \in [min : Nat, max : Nat] /\ wb.min <= w /\ w <= wb.max
      /\ wb.max = Forever \/ wb.max < Settled
      /\ \A v \in wb.min..wb.max : \A k \in Met(csig, TRUE) :
           k \in ActiveIn(v) <=> k \in ActiveIn(w)
  BY BoundsHold
<1> HIDE DEF b, wb, all
<1>8. one \in Entries /\ EntryRight(one)
  <2>1. {t} \in SUBSET Types /\ {} \in SUBSET SUBSET Types
    OBVIOUS
  <2>2. one \in Entries
    BY <1>4, <1>6, <2>1 DEF Entries
  <2>3. ASSUME NEW v \in (b.min..Lesser(b.max, counter)) \ rewritten
        PROVE  Selected(t, v) = {i}
    <3>1. v \in b.min..b.max /\ v \in (0..counter) \ rewritten
      BY <1>5, <1>6 DEF Lesser
    <3>2. \A k \in Inserted : t \in methods[k].sig => (k \in ActiveIn(v) <=> k \in ActiveIn(w))
      BY <1>6, <3>1 DEF Met, Disjoint
    <3>3. i \in Selected(t, v)
      BY <3>2, SelectedSame
    <3> QED
      BY <3>1, <3>3, SelectedOne
  <2> HIDE DEF mi
  <2> QED
    BY <1>2, <1>3, <1>4, <1>5, <1>6, <2>2, <2>3 DEF EntryRight, For
<1>9. ASSUME ~ narrow PROVE wide \in Entries /\ EntryRight(wide)
  <2>1. csig = methods[i].sig /\ all # Nothing
    BY <1>3, <1>9
  <2>2. others = {csig \intersect s : s \in ToSet(all.matches) \ {methods[i].sig}}
    BY <2>1
  <2>3. others \in SUBSET SUBSET Types
    BY <1>3, <2>2
  <2> HIDE DEF others
  <2>4. wide \in Entries
    BY <1>3, <1>4, <1>7, <2>3 DEF Entries
  <2>5. ASSUME NEW u \in csig, \A s \in others : u \notin s
        PROVE  i \in Selected(u, w)
    <3> DEFINE S == {methods[k].sig : k \in Applicable(u, w)}
    <3>1. i \in Applicable(u, w) /\ methods[i].sig \in S
      BY <1>2, <2>1 DEF Applicable
    <3>2. ASSUME NEW x \in S, \A y \in S : ~ MoreSpecific(y, x)
          PROVE  x = methods[i].sig
      <4>1. PICK k \in Applicable(u, w) : x = methods[k].sig
        OBVIOUS
      <4>2. \A j \in Applicable(u, w) : ~ MoreSpecific(methods[j].sig, methods[k].sig)
        BY <3>2, <4>1
      <4>3. Candidates(csig, w) # Nothing
        BY <2>1 DEF all
      <4>4. methods[k].sig \in ToSet(Candidates(csig, w).matches)
        BY <1>3, <4>2, <4>3, CandidatesCover
      <4>5. x \in ToSet(all.matches)
        BY <4>1, <4>4 DEF all
      <4>6. u \in x
        BY <4>1 DEF Applicable
      <4> QED
        <5>1. x # methods[i].sig => csig \intersect x \in others
          BY <2>2, <4>5
        <5>2. u \in csig \intersect x
          BY <4>6
        <5> QED
          BY <2>5, <5>1, <5>2
    <3>3. IsFiniteSet(S)
      <4> DEFINE m == [k \in Applicable(u, w) |-> methods[k].sig]
      <4>1. Applicable(u, w) \subseteq Ids
        BY DEF Applicable, ActiveIn
      <4>2. IsFiniteSet(Applicable(u, w))
        BY <4>1, TableFinite
      <4>3. DOMAIN m = Applicable(u, w) /\ S = {m[k] : k \in Applicable(u, w)}
        OBVIOUS
      <4> HIDE DEF m, S
      <4> QED
        BY <4>2, <4>3, ImageFinite
    <3>4. \A x \in S : methods[i].sig \subseteq x
      <4> HIDE DEF S
      <4> QED
        BY <3>1, <3>2, <3>3, OneMinimal
    <3> QED
      BY <3>1, <3>4 DEF Selected
  <2>6. ASSUME NEW v \in (wb.min..Lesser(wb.max, counter)) \ rewritten, NEW u \in csig,
               \A s \in others : u \notin s
        PROVE  Selected(u, v) = {i}
    <3>1. v \in wb.min..wb.max /\ v \in (0..counter) \ rewritten
      BY <1>5, <1>7 DEF Lesser
    <3>2. \A k \in Inserted : u \in methods[k].sig => (k \in ActiveIn(v) <=> k \in ActiveIn(w))
      BY <1>7, <3>1 DEF Met, Disjoint
    <3>3. Selected(u, v) = Selected(u, w)
      BY <3>2, SelectedSame
    <3>4. i \in Selected(u, v)
      BY <2>5, <2>6, <3>3
    <3> QED
      BY <3>1, <3>4, SelectedOne
  <2> HIDE DEF mi
  <2> QED
    BY <1>2, <1>4, <1>5, <1>7, <2>4, <2>6 DEF EntryRight, For
<1> HIDE DEF one, wide, narrow
<1>10. f.entry \in Entries /\ EntryRight(f.entry)
  BY <1>1, <1>8, <1>9
<1> QED
  BY <1>10 DEF b, all

LEMMA CacheMethodRight ==
  ASSUME DispatchRight, TableType, TableInv, CacheType, CacheInv,
         NEW w \in 0..counter, NEW t \in Types, NEW i \in Selected(t, w),
         NEW meets \in BOOLEAN, CacheMethod(i, t, w, Bounds({t}, w, meets)),
         UNCHANGED <<counter, methods, rewritten>>
  PROVE  CacheType' /\ CacheInv'
<1> DEFINE csig == CompilationSig(i, t)
           b == Bounds({t}, w, meets)
<1>1. PICK f \in Filled(i, t, w, b, csig) : cache' = cache \/ cache' = cache \union {f.entry}
  BY DEF CacheMethod
<1>2. PICK bail \in BOOLEAN : f = Entry(i, t, w, b, bail, csig, Candidates(csig, w))
  BY <1>1 DEF Filled
<1>3. f.entry \in Entries /\ EntryRight(f.entry)
  BY <1>2, EntryIsRight
<1> HIDE DEF b, csig
<1>4. CacheType' /\ \A e \in cache' : EntryRight(e)
  BY <1>1, <1>3 DEF CacheType, CacheInv
<1>5. \A e : EntryRight(e) => EntryRight(e)'
  BY DEF EntryRight, Ids, Settled, Pending, Inserted, Selected, Applicable, ActiveIn, Active,
         Within, Lesser, For
<1> QED
  BY <1>4, <1>5 DEF CacheInv

LEMMA CounterBound ==
  ASSUME NEW c \in Nat, NEW n \in Nat, NEW d \in Nat, c = 1 + n + d, n <= MaxMethods, d <= MaxDeletes
  PROVE  c \in 1..Forever - 1
<1>1. Forever \in Nat
  BY DEF Forever
<1> QED
  BY <1>1, BoundsAre

LEMMA CounterNext == ASSUME TableType' PROVE counter' \in 1..Forever - 1
<1>1. /\ counter' \in Nat /\ deletes' \in Nat /\ methods' \in Seq(Method)
      /\ counter' = 1 + Len(methods') + deletes'
      /\ Len(methods') <= MaxMethods /\ deletes' <= MaxDeletes
  BY DEF TableType
<1>2. Len(methods') \in Nat
  BY <1>1
<1> QED
  BY <1>1, <1>2, CounterBound

\* A change keeps the cache right, if what stays in it after the change is.
LEMMA CutRight ==
  ASSUME TableType, TableInv, CacheType, CacheInv, TableType', NEW now, Change(now),
         NEW set, cache' = Cut(set, Settled), set # {} => Settled' = counter',
         \A e \in cache : e \notin set /\ e.max = Forever =>
            \A t \in e.sig : \A w : /\ (\A s \in e.guards : t \notin s) /\ w = counter'
                                /\ Selected(t, counter) = {e.mi[1]}
                                => Selected(t, w)' = {e.mi[1]}
  PROVE  CacheType' /\ CacheInv'
<1>1. /\ Settled \in Nat /\ counter \in Nat /\ Settled <= counter /\ counter < Forever /\ Forever \in Nat
      /\ counter' = Settled + 1 /\ counter <= counter' /\ Settled' \in {Settled, counter'}
      /\ Ids \subseteq Ids' /\ counter' < Forever
      /\ rewritten \subseteq rewritten' /\ counter \notin rewritten
  <2>1. counter' \in 1..Forever - 1
    BY CounterNext
  <2> QED
    BY <2>1, TableIs, SettledIs, PresentIsClean DEF Change
<1>2. ASSUME NEW e \in cache' PROVE e \in Entries /\ EntryRight(e)'
  <2>1. PICK x \in cache :
          e = IF x.max = Forever /\ x \in set THEN [x EXCEPT !.max = Settled] ELSE x
    BY DEF Cut
  <2>2. /\ x \in Entries /\ x.mi[1] \in Ids /\ x.sig \subseteq x.mi[2]
        /\ x.min \in Nat /\ x.max \in Nat /\ x.min <= counter
        /\ x.max = Forever \/ x.max < Settled
        /\ \A w \in (x.min..Lesser(x.max, counter)) \ rewritten : \A t \in x.sig :
             (\A s \in x.guards : t \notin s) => Selected(t, w) = {x.mi[1]}
    BY DEF CacheType, CacheInv, EntryRight, Entries, For
  <2>3. CASE x.max = Forever /\ x \in set
    <3>1. e = [x EXCEPT !.max = Settled]
      BY <2>1, <2>3
    <3>2. /\ e \in Entries /\ e.mi = x.mi /\ e.sig = x.sig /\ e.min = x.min /\ e.guards = x.guards
          /\ e.max = Settled
      BY <1>1, <2>2, <3>1 DEF Entries
    <3>3. Settled < Settled'
      BY <1>1, <2>3
    <3>4. ASSUME NEW w \in (e.min..Lesser(e.max, counter')) \ rewritten', NEW t \in e.sig,
                 \A s \in e.guards : t \notin s
          PROVE  Selected(t, w)' = {e.mi[1]}
      <4>1. w \in (0..Settled) \ rewritten' /\ w \in (x.min..Lesser(x.max, counter)) \ rewritten
        BY <1>1, <2>2, <2>3, <3>2, <3>4 DEF Lesser
      <4>2. Selected(t, w)' = Selected(t, w)
        BY <4>1, SelectedKept
      <4> QED
        BY <2>2, <3>2, <3>4, <4>1, <4>2
    <3>5. e.mi[1] \in Ids' /\ e.min <= counter'
      BY <1>1, <2>2, <3>2
    <3> QED
      BY <2>2, <3>2, <3>3, <3>4, <3>5 DEF EntryRight, For, Lesser
  <2>4. CASE x.max # Forever
    <3>1. e = x /\ x.max < Settled
      BY <2>1, <2>2, <2>4
    <3>2. ASSUME NEW w \in (x.min..Lesser(x.max, counter')) \ rewritten', NEW t \in x.sig,
                 \A s \in x.guards : t \notin s
          PROVE  Selected(t, w)' = {x.mi[1]}
      <4>1. w \in (0..Settled) \ rewritten' /\ w \in (x.min..Lesser(x.max, counter)) \ rewritten
        BY <1>1, <2>2, <3>1, <3>2 DEF Lesser
      <4>2. Selected(t, w)' = Selected(t, w)
        BY <4>1, SelectedKept
      <4> QED
        BY <2>2, <3>2, <4>1, <4>2
    <3>3. x.mi[1] \in Ids' /\ x.min <= counter' /\ x.max < Settled'
      BY <1>1, <2>2, <3>1
    <3> QED
      BY <2>2, <3>1, <3>2, <3>3 DEF EntryRight, For, Lesser
  <2>5. CASE x.max = Forever /\ x \notin set
    <3>1. e = x
      BY <2>1, <2>5
    <3>2. ASSUME NEW w \in (x.min..Lesser(x.max, counter')) \ rewritten', NEW t \in x.sig,
                 \A s \in x.guards : t \notin s
          PROVE  Selected(t, w)' = {x.mi[1]}
      <4>1. CASE w <= Settled
        <5>1. w \in (0..Settled) \ rewritten' /\ w \in (x.min..Lesser(x.max, counter)) \ rewritten
          BY <1>1, <2>2, <2>5, <3>2, <4>1 DEF Lesser
        <5>2. Selected(t, w)' = Selected(t, w)
          BY <5>1, SelectedKept
        <5> QED
          BY <2>2, <3>2, <5>1, <5>2
      <4>2. CASE ~ (w <= Settled)
        <5>1. w = counter' /\ counter \in (x.min..Lesser(x.max, counter)) \ rewritten
          BY <1>1, <2>2, <2>5, <4>2 DEF Lesser
        <5>2. Selected(t, counter) = {x.mi[1]}
          BY <2>2, <3>2, <5>1
        <5> QED
          BY <2>5, <3>2, <5>1, <5>2
      <4> QED
        BY <4>1, <4>2
    <3>3. x.mi[1] \in Ids' /\ x.min <= counter'
      BY <1>1, <2>2
    <3> QED
      BY <2>2, <2>5, <3>1, <3>2, <3>3 DEF EntryRight, For, Lesser
  <2> QED
    BY <2>3, <2>4, <2>5
<1> QED
  BY <1>2 DEF CacheType, CacheInv

-----------------------------------------------------------------------------
(* The code.                                                                *)

LEMMA SitesAre ==
  /\ IsFiniteSet(Callers)
  /\ \A g \in Callers : /\ IsFiniteSet(Callees[g]) /\ Callees[g] \in SUBSET Callers
                        /\ Site[g].kind \in {"call", "invoke"}
                        /\ Site[g].types \in (SUBSET Types) \ {{}} /\ Site[g].sig \in SUBSET Types
                        /\ Site[g].sig # None /\ Site[g].types \subseteq Site[g].sig
  /\ Instances \intersect Callers = {}
<1>1. /\ IsFiniteSet(Callers) /\ Callees \in [Callers -> SUBSET Callers]
      /\ Callers \intersect ((1..MaxMethods) \X SUBSET Types) = {}
  BY MethodsAssumption, Zenon
<1>2. \A g \in Callers :
        /\ Site[g].kind \in {"call", "invoke"}
        /\ Site[g].types \in (SUBSET Types) \ {{}} /\ Site[g].sig \in SUBSET Types
        /\ Site[g].sig # None /\ Site[g].types \subseteq Site[g].sig
  BY MethodsAssumption, Zenon
<1>3. \A g \in Callers : IsFiniteSet(Callees[g]) /\ Callees[g] \in SUBSET Callers
  BY <1>1, FS_Subset
<1>4. Instances \intersect Callers = {}
  BY <1>1 DEF Instances, MethodIds
<1> QED
  BY <1>1, <1>2, <1>3, <1>4

\* What is reached is closed: whoever has an edge to it is in it.
LEMMA ReachedIs ==
  ASSUME CodeType, NEW from, from \subseteq Callers
  PROVE  /\ from \subseteq Reached(from) /\ Reached(from) \subseteq Callers
         /\ \A e \in backedges : e.callee \in Reached(from) => e.caller \in Reached(from)
         /\ Reached({}) = {}
<1> DEFINE R == Reached(from)
<1>1. /\ R \subseteq Callers
      /\ \A g \in Callers : g \in R <=>
           \A set \in SUBSET Callers : from \union CallersOf(set) \subseteq set => g \in set
  BY DEF Reached
<1>2. from \subseteq R
  BY <1>1
<1> HIDE DEF R
<1>3. ASSUME NEW e \in backedges, e.callee \in R PROVE e.caller \in R
  <2>1. e.caller \in Callers /\ e.callee \in Callers
    BY <1>1, <1>3 DEF CodeType, Edges
  <2>2. ASSUME NEW set \in SUBSET Callers, from \union CallersOf(set) \subseteq set
        PROVE  e.caller \in set
    <3>1. e.callee \in set
      BY <1>1, <1>3, <2>1, <2>2
    <3>2. e.caller \in CallersOf(set)
      BY <3>1 DEF CallersOf
    <3> QED
      BY <2>2, <3>2
  <2> QED
    BY <1>1, <2>1, <2>2
<1>4. Reached({}) = {}
  <2>1. CallersOf({}) = {} /\ {} \in SUBSET Callers
    BY DEF CallersOf
  <2> SUFFICES ASSUME NEW g \in Reached({}) PROVE FALSE
    OBVIOUS
  <2>2. {} \union CallersOf({}) \subseteq {} => g \in {}
    BY <2>1 DEF Reached
  <2> QED
    BY <2>1, <2>2
<1> QED
  BY <1>1, <1>2, <1>3, <1>4 DEF R

\* What was taken from a site is there in a world with the same methods.
LEMMA AnswerSame ==
  ASSUME NEW now, Change(now), NEW site, NEW a, a.ids \subseteq Ids,
         NEW v, NEW w, ActiveIn(w)' = ActiveIn(v)
  PROVE  AnswerHolds(site, a, w)' <=> AnswerHolds(site, a, v)
<1>1. /\ ActiveIn(v) \subseteq Ids
      /\ \A i \in Ids : methods'[i].sig = methods[i].sig
  BY DEF ActiveIn, Change
<1>2. \A t : Applicable(t, w)' = Applicable(t, v) /\ Applicable(t, v) \subseteq Ids
  BY <1>1 DEF Applicable
<1>3. \A t : Selected(t, w)' = Selected(t, v)
  BY <1>1, <1>2 DEF Selected
<1>4. FullMatch(site, a)' <=> FullMatch(site, a)
  BY <1>1 DEF FullMatch
<1>5. CASE site.kind = "invoke"
  BY <1>1, <1>5 DEF AnswerHolds
<1>6. CASE site.kind # "invoke"
  BY <1>3, <1>4, <1>6 DEF AnswerHolds
<1> QED
  BY <1>5, <1>6

\* The edges of a call stay what they are.
LEMMA EdgesSame ==
  ASSUME NEW now, Change(now), NEW g, NEW a, a.ids \subseteq Ids
  PROVE  EdgesOf(g, a)' = EdgesOf(g, a) /\ MissingOf(g, a)' = MissingOf(g, a)
<1>1. \A i \in a.ids : methods'[i].sig = methods[i].sig
  BY DEF Change
<1>2. EdgesOf(g, a)' = EdgesOf(g, a)
  BY <1>1 DEF EdgesOf
<1>3. FullMatch(Site[g], a)' <=> FullMatch(Site[g], a)
  BY <1>1 DEF FullMatch
<1>4. MissingOf(g, a)' = MissingOf(g, a)
  BY <1>3 DEF MissingOf
<1> QED
  BY <1>2, <1>4

\* Where the way from a site to g is not touched, none of its edges is.
LEMMA LeadsKept ==
  ASSUME NEW gone, gone \subseteq Callers, NEW edges,
         \A e \in backedges : e.callee \in gone => e.caller \in gone,
         \A e \in edges : e.caller \in gone,
         backedges' = {e \in backedges \ edges : e.callee \notin gone},
         NEW from \in Callers, NEW g, g \notin gone, LeadsTo(from, g, backedges)
  PROVE  from \notin gone /\ LeadsTo(from, g, backedges')
<1>1. from \notin gone
  BY DEF LeadsTo
<1>2. ASSUME NEW set \in SUBSET Callers, from \in set,
             \A e \in backedges' : e.callee \in set => e.caller \in set
      PROVE  g \in set
  <2> DEFINE both == set \cup gone
  <2>1. both \in SUBSET Callers /\ from \in both
    BY <1>2
  <2>2. \A e \in backedges : e.callee \in both => e.caller \in both
    BY <1>2
  <2> HIDE DEF both
  <2>3. g \in both
    BY <2>1, <2>2 DEF LeadsTo
  <2> QED
    BY <2>3 DEF both
<1> QED
  BY <1>1, <1>2 DEF LeadsTo

LEMMA EdgesCaller ==
  ASSUME NEW g, NEW a
  PROVE  /\ \A e \in EdgesOf(g, a) : e.caller = g
         /\ \A m \in MissingOf(g, a) : m.caller = g
<1>1. ASSUME NEW e \in EdgesOf(g, a) PROVE e.caller = g
  <2> DEFINE named(i) == [callee |-> Instance(i, Site[g].types \intersect methods[i].sig),
                          invoke |-> IF Site[g].kind = "invoke" THEN Site[g].sig ELSE None,
                          caller |-> g]
  <2>1. \E i \in a.ids : e = named(i)
    BY DEF EdgesOf
  <2>2. \A i : named(i).caller = g
    OBVIOUS
  <2> HIDE DEF named
  <2> QED
    BY <2>1, <2>2
<1>2. \A m \in MissingOf(g, a) : m.caller = g
  BY DEF MissingOf
<1> QED
  BY <1>1, <1>2

\* The code after a change: what was not reached by the change had no part in
\* it, and holds in the new world too.
LEMMA CodeKept ==
  ASSUME TableType, TableInv, CodeType, CodeInv, TableType', NEW now, Change(now),
         NEW callers, callers \subseteq Callers, NEW edges, NEW found,
         Invalidate(callers, edges, Settled), missing' = missing \ found,
         \A e \in edges : e.caller \in callers, \A m \in found : m.caller \in callers,
         callers # {} => Settled' = counter', resolved => resolved',
         \A p \in Taken : \A w :
           /\ p.answer.ids \subseteq Ids /\ Known(p, backedges, missing)
           /\ p.at \notin callers /\ w = counter'
           => /\ p.answer.ids \subseteq now
              /\ ~ resolved' /\ p.answer # Unknown /\ AnswerHolds(Site[p.at], p.answer, counter)
                   => AnswerHolds(Site[p.at], p.answer, w)'
  PROVE  CodeInv' /\ code' \subseteq [of : Callers, taken : SUBSET Taken, min : Nat, max : Nat]
         /\ backedges' \subseteq Edges /\ missing' \subseteq Missings
<1> DEFINE gone == Reached(callers)
           Codes == [of : Callers, taken : SUBSET Taken, min : Nat, max : Nat]
<1>1. /\ Settled \in Nat /\ counter \in Nat /\ Settled <= counter /\ counter < Forever /\ Forever \in Nat
      /\ counter' = Settled + 1 /\ counter <= counter' /\ Settled' \in {Settled, counter'}
      /\ Ids \subseteq Ids' /\ counter' < Forever
      /\ rewritten \subseteq rewritten' /\ counter \notin rewritten
  BY TableIs, SettledIs, CounterNext, PresentIsClean DEF Change
<1>2. /\ code' = {IF c.of \in gone /\ c.max = Forever THEN [c EXCEPT !.max = Settled] ELSE c : c \in code}
      /\ backedges' = {e \in backedges \ edges : e.callee \notin gone}
  BY DEF Invalidate
<1>3. /\ callers \subseteq gone /\ gone \subseteq Callers
      /\ \A e \in backedges : e.callee \in gone => e.caller \in gone
      /\ callers = {} => gone = {}
  BY ReachedIs
<1> HIDE DEF gone
<1>4. backedges' \subseteq Edges /\ missing' \subseteq Missings
  BY <1>2 DEF CodeType
<1>5. ASSUME NEW d \in code'
      PROVE  /\ d \in Codes
             /\ d.min <= counter'
             /\ d.max = Forever \/ d.max < Settled'
             /\ \A p \in d.taken :
                  /\ p.answer.ids \subseteq Ids'
                  /\ Holds(p, d.min, d.max)'
                  /\ d.max = Forever => /\ Known(p, backedges, missing)'
                                        /\ LeadsTo(p.at, d.of, backedges')
  <2>1. PICK c \in code :
          d = IF c.of \in gone /\ c.max = Forever THEN [c EXCEPT !.max = Settled] ELSE c
    BY <1>2
  <2>2. /\ c \in Codes /\ c.min <= counter /\ (c.max = Forever \/ c.max < Settled)
        /\ c.min \in Nat /\ c.max \in Nat /\ c.of \in Callers /\ c.taken \in SUBSET Taken
    BY DEF CodeType, CodeInv
  <2>3. \A p \in c.taken :
          /\ p \in Taken /\ p.at \in Callers
          /\ p.answer.ids \subseteq Ids
          /\ Holds(p, c.min, c.max)
          /\ c.max = Forever => /\ Known(p, backedges, missing)
                                /\ LeadsTo(p.at, c.of, backedges)
    BY <2>2 DEF CodeInv, Taken
  <2>4. ASSUME NEW p \in c.taken, NEW w \in (0..Settled) \ rewritten',
               w \in (c.min..Lesser(c.max, counter)) \ rewritten,
               ~ resolved', p.answer # Unknown
        PROVE  AnswerHolds(Site[p.at], p.answer, w)'
    <3>1. ~ resolved
      BY <2>4
    <3>2. AnswerHolds(Site[p.at], p.answer, w)
      BY <2>3, <2>4, <3>1 DEF Holds
    <3>3. ActiveIn(w)' = ActiveIn(w)
      BY DEF Change
    <3> QED
      BY <2>3, <3>2, <3>3, AnswerSame
  <2>5. CASE c.of \in gone /\ c.max = Forever
    <3>1. d \in Codes /\ d.min = c.min /\ d.max = Settled /\ d.taken = c.taken
      BY <1>1, <2>1, <2>2, <2>5
    <3>2. Settled < Settled'
      BY <1>1, <1>3, <2>5
    <3>3. ASSUME NEW p \in c.taken PROVE Holds(p, d.min, d.max)'
      <4>1. ASSUME NEW w \in (d.min..Lesser(d.max, counter')) \ rewritten', ~ resolved', p.answer # Unknown
            PROVE  AnswerHolds(Site[p.at], p.answer, w)'
        <5>1. w \in (0..Settled) \ rewritten' /\ w \in (c.min..Lesser(c.max, counter)) \ rewritten
          BY <1>1, <2>2, <2>5, <3>1, <4>1 DEF Lesser
        <5> QED
          BY <2>4, <4>1, <5>1
      <4> QED
        BY <4>1 DEF Holds, Lesser
    <3>4. d.max # Forever /\ d.min <= counter'
      BY <1>1, <2>2, <3>1
    <3> QED
      BY <1>1, <2>3, <3>1, <3>2, <3>3, <3>4
  <2>6. CASE c.max # Forever
    <3>1. d = c /\ c.max < Settled
      BY <2>1, <2>2, <2>6
    <3>2. ASSUME NEW p \in c.taken PROVE Holds(p, c.min, c.max)'
      <4>1. ASSUME NEW w \in (c.min..Lesser(c.max, counter')) \ rewritten', ~ resolved', p.answer # Unknown
            PROVE  AnswerHolds(Site[p.at], p.answer, w)'
        <5>1. w \in (0..Settled) \ rewritten' /\ w \in (c.min..Lesser(c.max, counter)) \ rewritten
          BY <1>1, <2>2, <3>1, <4>1 DEF Lesser
        <5> QED
          BY <2>4, <4>1, <5>1
      <4> QED
        BY <4>1 DEF Holds, Lesser
    <3>3. c.min <= counter' /\ c.max < Settled'
      BY <1>1, <2>2, <3>1
    <3> QED
      BY <1>1, <2>2, <2>3, <2>6, <3>1, <3>2, <3>3
  <2>7. CASE c.max = Forever /\ c.of \notin gone
    <3>1. d = c
      BY <2>1, <2>7
    <3>2. ASSUME NEW p \in c.taken
          PROVE  /\ Holds(p, c.min, c.max)' /\ Known(p, backedges, missing)'
                 /\ LeadsTo(p.at, c.of, backedges')
      <4>1. /\ p \in Taken /\ p.at \in Callers /\ p.answer.ids \subseteq Ids
            /\ Holds(p, c.min, c.max) /\ Known(p, backedges, missing)
            /\ LeadsTo(p.at, c.of, backedges)
        BY <2>3, <2>7
      <4>2. p.at \notin gone /\ LeadsTo(p.at, c.of, backedges')
        <5>1. \A e \in edges : e.caller \in gone
          BY <1>3
        <5> QED
          BY <1>2, <1>3, <2>7, <4>1, <5>1, LeadsKept
      <4>3. p.at \notin callers
        BY <1>3, <4>2
      <4>4. ASSUME NEW w, w = counter'
            PROVE  /\ p.answer.ids \subseteq now
                   /\ ~ resolved' /\ p.answer # Unknown /\ AnswerHolds(Site[p.at], p.answer, counter)
                        => AnswerHolds(Site[p.at], p.answer, w)'
        BY <4>1, <4>3, <4>4
      <4>5. Holds(p, c.min, c.max)'
        <5>1. ASSUME NEW w \in (c.min..Lesser(c.max, counter')) \ rewritten', ~ resolved', p.answer # Unknown
              PROVE  AnswerHolds(Site[p.at], p.answer, w)'
          <6>1. CASE w <= Settled
            <7>1. w \in (0..Settled) \ rewritten' /\ w \in (c.min..Lesser(c.max, counter)) \ rewritten
              BY <1>1, <2>2, <2>7, <5>1, <6>1 DEF Lesser
            <7> QED
              BY <2>4, <5>1, <7>1
          <6>2. CASE ~ (w <= Settled)
            <7>1. w = counter' /\ counter \in (c.min..Lesser(c.max, counter)) \ rewritten
              BY <1>1, <2>2, <2>7, <5>1, <6>2 DEF Lesser
            <7>2. ~ resolved
              BY <5>1
            <7>3. AnswerHolds(Site[p.at], p.answer, counter)
              BY <4>1, <5>1, <7>1, <7>2 DEF Holds
            <7> QED
              BY <4>4, <5>1, <7>1, <7>3
          <6> QED
            BY <6>1, <6>2
        <5> QED
          BY <5>1 DEF Holds, Lesser
      <4>6. Known(p, backedges, missing)'
        <5>1. /\ EdgesOf(p.at, p.answer)' = EdgesOf(p.at, p.answer)
              /\ MissingOf(p.at, p.answer)' = MissingOf(p.at, p.answer)
          BY <4>1, EdgesSame
        <5>2. \A e \in EdgesOf(p.at, p.answer) : e \in backedges /\ e.caller = p.at
          BY <4>1, EdgesCaller DEF Known
        <5>3. \A m \in MissingOf(p.at, p.answer) : m \in missing /\ m.caller = p.at
          BY <4>1, EdgesCaller DEF Known
        <5>4. EdgesOf(p.at, p.answer) \subseteq backedges'
          BY <1>2, <1>3, <4>2, <4>3, <5>2
        <5>5. MissingOf(p.at, p.answer) \subseteq missing'
          BY <4>3, <5>3
        <5>6. p.answer.ids \subseteq ActiveIn(counter)'
          <6>1. \A w : w = counter' => ActiveIn(w)' = now
            BY DEF Change
          <6>2. p.answer.ids \subseteq now
            BY <4>4
          <6>3. ActiveIn(counter)' = now
            BY <6>1 DEF ActiveIn, Active, Within
          <6> QED
            BY <6>2, <6>3
        <5> QED
          BY <5>1, <5>4, <5>5, <5>6 DEF Known
      <4> QED
        BY <4>2, <4>5, <4>6
    <3>3. c.min <= counter'
      BY <1>1, <2>2
    <3> QED
      BY <1>1, <2>2, <2>3, <2>7, <3>1, <3>2, <3>3
  <2> QED
    BY <2>5, <2>6, <2>7
<1> HIDE DEF Codes
<1>6. CodeInv'
  BY <1>5 DEF CodeInv, LeadsTo
<1>7. code' \subseteq Codes
  BY <1>5
<1> QED
  BY <1>4, <1>6, <1>7 DEF Codes

\* An answer in the world after a change, by the methods that are there.
LEMMA AnswerAfter ==
  ASSUME NEW now, Change(now), now \subseteq Ids, NEW site, NEW a, a.ids \subseteq Ids,
         NEW w, w = counter'
  PROVE  AnswerHolds(site, a, w)' <=>
           IF site.kind = "invoke"
             THEN \E i \in a.ids :
                    /\ i \in now /\ site.sig \subseteq methods[i].sig
                    /\ \A j \in now : site.sig \subseteq methods[j].sig
                                      => methods[i].sig \subseteq methods[j].sig
             ELSE \A t \in site.types :
                    IF Selected(t, w)' # {} THEN Selected(t, w)' \subseteq a.ids
                                            ELSE a.ambig \/ ~ FullMatch(site, a)
<1>1. ActiveIn(w)' = now /\ \A i \in Ids : methods'[i].sig = methods[i].sig
  BY DEF Change
<1>2. FullMatch(site, a)' <=> FullMatch(site, a)
  BY <1>1 DEF FullMatch
<1>3. CASE site.kind = "invoke"
  BY <1>1, <1>3 DEF AnswerHolds
<1>4. CASE site.kind # "invoke"
  BY <1>2, <1>4 DEF AnswerHolds
<1> QED
  BY <1>3, <1>4

\* What is taken into account has an edge from the call to it.
LEMMA EdgeKept ==
  ASSUME NEW p \in Taken, NEW edges, NEW sites, Known(p, edges, sites), NEW k \in p.answer.ids
  PROVE  \E e \in edges :
           /\ e.callee = <<k, Site[p.at].types \intersect methods[k].sig>>
           /\ e.invoke = IF Site[p.at].kind = "invoke" THEN Site[p.at].sig ELSE None
           /\ e.caller = p.at
           /\ e.callee[1] = k /\ e.callee[2] = Site[p.at].types \intersect methods[k].sig
           /\ e.callee \notin Callers
<1> DEFINE T == Site[p.at].types \intersect methods[k].sig
           v == IF Site[p.at].kind = "invoke" THEN Site[p.at].sig ELSE None
           e == [callee |-> Instance(k, T), invoke |-> v, caller |-> p.at]
<1>1. e \in EdgesOf(p.at, p.answer)
  BY DEF EdgesOf
<1>2. e \in edges
  BY <1>1 DEF Known
<1>3. p.at \in Callers /\ k \in MethodIds
  BY DEF Taken, SiteAnswers
<1>4. T \in SUBSET Types
  BY <1>3, SitesAre
<1> HIDE DEF T, v
<1>5. e.callee = <<k, T>> /\ e.callee[1] = k /\ e.callee[2] = T /\ e.caller = p.at /\ e.invoke = v
  BY DEF Instance
<1>6. e.callee \in Instances
  BY <1>3, <1>4, <1>5 DEF Instances
<1>7. e.callee \notin Callers
  BY <1>6, SitesAre
<1> HIDE DEF e
<1> QED
  BY <1>2, <1>5, <1>7 DEF T, v

LEMMA ReplaceAnswer ==
  ASSUME TableType, TableInv, NEW i \in Ids, NEW j \in ActiveIn(counter),
         i \notin ActiveIn(counter), methods[j].sig = methods[i].sig,
         Change((ActiveIn(counter) \ {j}) \cup {i}),
         NEW site, NEW a, a.ids \subseteq ActiveIn(counter) \ {j},
         NEW w, w = counter', AnswerHolds(site, a, counter)
  PROVE  AnswerHolds(site, a, w)'
<1> DEFINE A == ActiveIn(counter)
           now == (A \ {j}) \cup {i}
<1>1. A \subseteq Ids /\ now \subseteq Ids /\ a.ids \subseteq Ids
  BY DEF ActiveIn
<1>2. CASE site.kind = "invoke"
  <2>1. PICK x \in a.ids : /\ x \in A /\ site.sig \subseteq methods[x].sig
                           /\ \A y \in A : site.sig \subseteq methods[y].sig
                                           => methods[x].sig \subseteq methods[y].sig
    BY <1>2 DEF AnswerHolds
  <2>2. x \in now
    BY <2>1
  <2>3. \A y \in now : site.sig \subseteq methods[y].sig => methods[x].sig \subseteq methods[y].sig
    BY <2>1
  <2> HIDE DEF now
  <2>4. Change(now)
    BY DEF now
  <2> HIDE DEF A
  <2> QED
    BY <1>1, <1>2, <2>1, <2>2, <2>3, <2>4, AnswerAfter
<1>3. CASE site.kind # "invoke"
  <2>1. ASSUME NEW t \in site.types
        PROVE  IF Selected(t, w)' # {} THEN Selected(t, w)' \subseteq a.ids
                                       ELSE a.ambig \/ ~ FullMatch(site, a)
    <3>1. IF Selected(t, counter) # {} THEN Selected(t, counter) \subseteq a.ids
                                       ELSE a.ambig \/ ~ FullMatch(site, a)
      BY <1>3 DEF AnswerHolds
    <3>2. /\ \A k : Selected(t, counter) = {k} /\ k # j => Selected(t, w)' = {k}
          /\ Selected(t, counter) = {} => Selected(t, w)' = {}
      BY ReplaceSelected
    <3>3. CASE Selected(t, counter) = {}
      BY <3>1, <3>2, <3>3
    <3>4. CASE Selected(t, counter) # {}
      <4>1. PICK k : k \in Selected(t, counter)
        BY <3>4
      <4>3. Selected(t, counter) = {k}
        BY <4>1, PresentIsClean, SelectedOne
      <4>4. k \in a.ids /\ k # j
        BY <3>1, <4>3
      <4>5. Selected(t, w)' = {k}
        BY <3>2, <4>3, <4>4
      <4> QED
        BY <4>4, <4>5
    <3> QED
      BY <3>3, <3>4
  <2> HIDE DEF now
  <2>2. Change(now)
    BY DEF now
  <2> QED
    BY <1>1, <1>3, <2>1, <2>2, AnswerAfter
<1> QED
  BY <1>2, <1>3

LEMMA DeleteAnswer ==
  ASSUME TableType, TableInv, NEW i \in ActiveIn(counter), Change(ActiveIn(counter) \ {i}),
         \A j \in ActiveIn(counter) \ {i} :
            ~ Disjoint(methods[j].sig, methods[i].sig) => ~ Unordered(methods[i].sig, methods[j].sig),
         NEW site, NEW a, a.ids \subseteq ActiveIn(counter) \ {i},
         NEW w, w = counter', AnswerHolds(site, a, counter)
  PROVE  AnswerHolds(site, a, w)'
<1> DEFINE A == ActiveIn(counter)
           now == A \ {i}
<1>1. A \subseteq Ids /\ now \subseteq Ids /\ a.ids \subseteq Ids
  BY DEF ActiveIn
<1>2. CASE site.kind = "invoke"
  <2>1. PICK x \in a.ids : /\ x \in A /\ site.sig \subseteq methods[x].sig
                           /\ \A y \in A : site.sig \subseteq methods[y].sig
                                           => methods[x].sig \subseteq methods[y].sig
    BY <1>2 DEF AnswerHolds
  <2>2. x \in now
    BY <2>1
  <2>3. \A y \in now : site.sig \subseteq methods[y].sig => methods[x].sig \subseteq methods[y].sig
    BY <2>1
  <2> HIDE DEF now
  <2>4. Change(now)
    BY DEF now
  <2> HIDE DEF A
  <2> QED
    BY <1>1, <1>2, <2>1, <2>2, <2>3, <2>4, AnswerAfter
<1>3. CASE site.kind # "invoke"
  <2>1. ASSUME NEW t \in site.types
        PROVE  IF Selected(t, w)' # {} THEN Selected(t, w)' \subseteq a.ids
                                       ELSE a.ambig \/ ~ FullMatch(site, a)
    <3>1. IF Selected(t, counter) # {} THEN Selected(t, counter) \subseteq a.ids
                                       ELSE a.ambig \/ ~ FullMatch(site, a)
      BY <1>3 DEF AnswerHolds
    <3>2. /\ \A k : Selected(t, counter) = {k} /\ k # i => Selected(t, w)' = {k}
          /\ Selected(t, counter) = {} /\ Selected(t, w)' # {} =>
              \E j \in A \ {i} :
                 t \in methods[i].sig /\ t \in methods[j].sig /\ Unordered(methods[i].sig, methods[j].sig)
      BY DeleteSelected
    <3>3. CASE Selected(t, counter) = {}
      <4>1. Selected(t, w)' = {}
        <5> SUFFICES ASSUME Selected(t, w)' # {} PROVE FALSE
          OBVIOUS
        <5>1. PICK j \in A \ {i} :
                 t \in methods[i].sig /\ t \in methods[j].sig /\ Unordered(methods[i].sig, methods[j].sig)
          BY <3>2, <3>3
        <5>2. ~ Disjoint(methods[j].sig, methods[i].sig)
          BY <5>1 DEF Disjoint
        <5> QED
          BY <5>1, <5>2
      <4> QED
        BY <3>1, <3>3, <4>1
    <3>4. CASE Selected(t, counter) # {}
      <4>1. PICK k : k \in Selected(t, counter)
        BY <3>4
      <4>3. Selected(t, counter) = {k}
        BY <4>1, PresentIsClean, SelectedOne
      <4>4. k \in a.ids /\ k # i
        BY <3>1, <4>3
      <4>5. Selected(t, w)' = {k}
        BY <3>2, <4>3, <4>4
      <4> QED
        BY <4>4, <4>5
    <3> QED
      BY <3>3, <3>4
  <2> HIDE DEF now
  <2>2. Change(now)
    BY DEF now
  <2> QED
    BY <1>1, <1>3, <2>1, <2>2, AnswerAfter
<1> QED
  BY <1>2, <1>3

\* An instance that the new method meets, and whose method is not better, is found.
LEMMA ShadowedIs ==
  ASSUME TableType, TableInv, NEW sig, NEW e \in backedges, e.callee \notin Callers,
         NEW k \in ActiveIn(counter), e.callee[1] = k, NEW t \in sig, t \in e.callee[2],
         e.callee[2] \subseteq methods[k].sig, ~ MoreSpecific(methods[k].sig, sig)
  PROVE  e.callee \in Shadowed(sig, Settled)
<1>1. k \in Before(sig, Settled)
  BY ActiveNow DEF Before, Disjoint
<1>2. ~ Disjoint(e.callee[2], sig)
  BY DEF Disjoint
<1>3. e.callee \in {x.mi : x \in cache} \union {d.callee : d \in {e2 \in backedges : e2.callee \notin Callers}}
  OBVIOUS
<1> QED
  BY <1>1, <1>2, <1>3 DEF Shadowed

LEMMA NewAnswer ==
  ASSUME TableType, TableInv, NEW i \in Ids, i \notin ActiveIn(counter),
         \A k \in ActiveIn(counter) : methods[k].sig # methods[i].sig,
         Change(ActiveIn(counter) \cup {i}),
         NEW p \in Taken, Known(p, backedges, missing), p.answer # Unknown,
         \A m \in missing : m.caller = p.at => ~ NowCovered(m.types, methods[i].sig, Settled),
         \A e \in backedges : e.caller = p.at /\ e.callee \in Shadowed(methods[i].sig, Settled)
                              => ~ ReplacedEdge(e, methods[i].sig, Settled),
         NEW w, w = counter', AnswerHolds(Site[p.at], p.answer, counter)
  PROVE  AnswerHolds(Site[p.at], p.answer, w)'
<1> DEFINE A == ActiveIn(counter)
           now == A \cup {i}
           site == Site[p.at]
           a == p.answer
           T == site.types
           sig == methods[i].sig
<1>1. A \subseteq Ids /\ now \subseteq Ids /\ a.ids \subseteq A /\ a.ids \subseteq Ids
  BY DEF ActiveIn, Known
<1>2. /\ p.at \in Callers /\ T # {} /\ site.sig # None /\ T \subseteq site.sig
      /\ site.kind \in {"call", "invoke"}
  BY SitesAre DEF Taken
<1>3. \A j : j \in Before(sig, Settled) <=> j \in A /\ ~ Disjoint(methods[j].sig, sig)
  BY ActiveNow DEF Before
<1>4. \A j, k \in A : methods[j].sig = methods[k].sig => j = k
  <2>1. counter \in (0..counter) \ rewritten
    BY PresentIsClean
  <2> QED
    BY <2>1 DEF TableInv
<1>5. \A k \in A : methods[k].sig # sig
  OBVIOUS
<1>6. CASE site.kind = "invoke"
  <2> DEFINE S == site.sig
  <2>1. PICK x \in a.ids : /\ x \in A /\ S \subseteq methods[x].sig
                           /\ \A y \in A : S \subseteq methods[y].sig
                                           => methods[x].sig \subseteq methods[y].sig
    BY <1>6 DEF AnswerHolds
  <2>2. ASSUME S \subseteq sig PROVE methods[x].sig \subseteq sig
    <3> SUFFICES ASSUME ~ MoreSpecific(methods[x].sig, sig) PROVE FALSE
      BY DEF MoreSpecific
    <3>1. PICK e \in backedges :
            /\ e.invoke = S /\ e.caller = p.at
            /\ e.callee[1] = x /\ e.callee[2] = T \intersect methods[x].sig
            /\ e.callee \notin Callers
      BY <1>6, EdgeKept
    <3>2. PICK t : t \in T
      BY <1>2
    <3>3. t \in sig /\ t \in methods[x].sig
      BY <1>2, <2>1, <2>2, <3>2
    <3>4. e.callee \in Shadowed(sig, Settled)
      <4>1. t \in e.callee[2] /\ e.callee[2] \subseteq methods[x].sig
        BY <3>1, <3>2, <3>3
      <4> HIDE DEF sig
      <4> QED
        BY <2>1, <3>1, <3>3, <4>1, ShadowedIs
    <3>5. IsReplacing(sig, x, S, Settled)
      <4> SUFFICES ASSUME NEW k \in Before(sig, Settled) \ {x}, S \subseteq methods[k].sig
                   PROVE  /\ ~ MoreSpecific(methods[k].sig, sig)
                          /\ MoreSpecific(sig, methods[x].sig) \/ MoreSpecific(methods[x].sig, methods[k].sig)
        BY DEF IsReplacing
      <4>1. k \in A /\ methods[x].sig \subseteq methods[k].sig
        BY <1>3, <2>1
      <4>2. methods[x].sig # methods[k].sig
        BY <1>4, <2>1, <4>1
      <4>3. MoreSpecific(methods[x].sig, methods[k].sig)
        BY <4>1, <4>2 DEF MoreSpecific
      <4>4. ~ MoreSpecific(methods[k].sig, sig)
        <5> SUFFICES ASSUME MoreSpecific(methods[k].sig, sig) PROVE FALSE
          OBVIOUS
        <5>1. methods[x].sig \subseteq sig
          BY <4>1 DEF MoreSpecific
        <5>2. methods[x].sig # sig
          BY <2>1
        <5> QED
          BY <5>1, <5>2 DEF MoreSpecific
      <4> QED
        BY <4>3, <4>4
    <3>6. ReplacedEdge(e, sig, Settled)
      BY <1>2, <2>2, <3>1, <3>5 DEF ReplacedEdge
    <3> QED
      BY <3>1, <3>4, <3>6
  <2>3. x \in now
    BY <2>1
  <2>4. \A y \in now : S \subseteq methods[y].sig => methods[x].sig \subseteq methods[y].sig
    BY <2>1, <2>2
  <2> HIDE DEF now
  <2>5. Change(now)
    BY DEF now
  <2> HIDE DEF A, site, a
  <2>6. AnswerHolds(site, a, w)'
    BY <1>1, <1>6, <2>1, <2>3, <2>4, <2>5, AnswerAfter
  <2> QED
    BY <2>6 DEF site, a
<1>7. CASE site.kind # "invoke"
  <2>1. ASSUME NEW t \in T
        PROVE  IF Selected(t, w)' # {} THEN Selected(t, w)' \subseteq a.ids
                                       ELSE a.ambig \/ ~ FullMatch(site, a)
    <3>1. IF Selected(t, counter) # {} THEN Selected(t, counter) \subseteq a.ids
                                       ELSE a.ambig \/ ~ FullMatch(site, a)
      BY <1>7 DEF AnswerHolds
    <3>2. /\ \A k : /\ Selected(t, counter) = {k}
                    /\ t \notin sig \/ MoreSpecific(methods[k].sig, sig)
                    => Selected(t, w)' = {k}
          /\ Selected(t, counter) = {} /\ Selected(t, w)' # {} =>
               /\ Selected(t, w)' = {i} /\ t \in sig
               /\ \A j \in A : t \in methods[j].sig => MoreSpecific(sig, methods[j].sig)
      BY NewSelected
    <3>3. CASE Selected(t, counter) = {}
      <4>1. Selected(t, w)' = {}
        <5> SUFFICES ASSUME Selected(t, w)' # {} PROVE FALSE
          OBVIOUS
        <5>1. /\ t \in sig
              /\ \A j \in A : t \in methods[j].sig => MoreSpecific(sig, methods[j].sig)
          BY <3>2, <3>3
        <5>2. CASE FullMatch(site, a)
          <6>1. PICK k \in a.ids : T \subseteq methods[k].sig
            BY <5>2 DEF FullMatch
          <6>2. k \in A /\ t \in methods[k].sig /\ MoreSpecific(sig, methods[k].sig)
            BY <1>1, <5>1, <6>1
          <6>3. PICK e \in backedges :
                  /\ e.invoke = None /\ e.caller = p.at
                  /\ e.callee[1] = k /\ e.callee[2] = T \intersect methods[k].sig
                  /\ e.callee \notin Callers
            BY <1>7, EdgeKept
          <6>4. e.callee \in Shadowed(sig, Settled)
            <7>1. t \in e.callee[2] /\ e.callee[2] \subseteq methods[k].sig
              BY <6>2, <6>3
            <7>2. ~ MoreSpecific(methods[k].sig, sig)
              BY <6>2 DEF MoreSpecific
            <7> HIDE DEF sig
            <7> QED
              BY <5>1, <6>2, <6>3, <7>1, <7>2, ShadowedIs
          <6>5. IsReplacing(sig, k, e.callee[2] \intersect sig, Settled)
            <7> SUFFICES ASSUME NEW m \in Before(sig, Settled) \ {k},
                                e.callee[2] \intersect sig \subseteq methods[m].sig
                         PROVE  /\ ~ MoreSpecific(methods[m].sig, sig)
                                /\ MoreSpecific(sig, methods[k].sig) \/ MoreSpecific(methods[k].sig, methods[m].sig)
              BY DEF IsReplacing
            <7>1. t \in methods[m].sig /\ m \in A
              BY <1>3, <5>1, <6>2, <6>3
            <7>2. MoreSpecific(sig, methods[m].sig)
              BY <5>1, <7>1
            <7> QED
              BY <6>2, <7>2 DEF MoreSpecific
          <6>6. ReplacedEdge(e, sig, Settled)
            BY <6>3, <6>5 DEF ReplacedEdge
          <6> QED
            BY <6>3, <6>4, <6>6
        <5>3. CASE ~ FullMatch(site, a)
          <6>1. [types |-> T, caller |-> p.at] \in missing
            BY <1>7, <5>3 DEF Known, MissingOf
          <6>2. NowCovered(T, sig, Settled)
            <7>1. T \intersect sig # {}
              BY <5>1
            <7>2. ASSUME NEW j \in Before(sig, Settled), T \intersect sig \subseteq methods[j].sig
                  PROVE  MoreSpecific(sig, methods[j].sig)
              BY <1>3, <5>1, <7>2
            <7> QED
              BY <7>1, <7>2 DEF NowCovered
          <6> QED
            BY <6>1, <6>2
        <5> QED
          BY <5>2, <5>3
      <4> QED
        BY <3>1, <3>3, <4>1
    <3>4. CASE Selected(t, counter) # {}
      <4>1. PICK k : k \in Selected(t, counter)
        BY <3>4
      <4>3. Selected(t, counter) = {k}
        BY <4>1, PresentIsClean, SelectedOne
      <4>4. /\ k \in a.ids /\ k \in A /\ t \in methods[k].sig
            /\ \A j \in A : t \in methods[j].sig => methods[k].sig \subseteq methods[j].sig
        BY <3>1, <4>1, <4>3, SelectedIs
      <4>5. t \notin sig \/ MoreSpecific(methods[k].sig, sig)
        <5> SUFFICES ASSUME t \in sig, ~ MoreSpecific(methods[k].sig, sig) PROVE FALSE
          OBVIOUS
        <5>1. PICK e \in backedges :
                /\ e.invoke = None /\ e.caller = p.at
                /\ e.callee[1] = k /\ e.callee[2] = T \intersect methods[k].sig
                /\ e.callee \notin Callers
          BY <1>7, <4>4, EdgeKept
        <5>2. e.callee \in Shadowed(sig, Settled)
          <6>1. t \in e.callee[2] /\ e.callee[2] \subseteq methods[k].sig
            BY <4>4, <5>1
          <6> HIDE DEF sig
          <6> QED
            BY <4>4, <5>1, <6>1, ShadowedIs
        <5>3. IsReplacing(sig, k, e.callee[2] \intersect sig, Settled)
          <6> SUFFICES ASSUME NEW m \in Before(sig, Settled) \ {k},
                              e.callee[2] \intersect sig \subseteq methods[m].sig
                       PROVE  /\ ~ MoreSpecific(methods[m].sig, sig)
                              /\ MoreSpecific(sig, methods[k].sig) \/ MoreSpecific(methods[k].sig, methods[m].sig)
            BY DEF IsReplacing
          <6>1. t \in methods[m].sig /\ m \in A
            BY <1>3, <4>4, <5>1
          <6>2. methods[k].sig \subseteq methods[m].sig
            BY <4>4, <6>1
          <6>3. methods[k].sig # methods[m].sig
            BY <1>4, <4>4, <6>1
          <6>4. MoreSpecific(methods[k].sig, methods[m].sig)
            BY <6>2, <6>3 DEF MoreSpecific
          <6>5. ~ MoreSpecific(methods[m].sig, sig)
            <7> SUFFICES ASSUME MoreSpecific(methods[m].sig, sig) PROVE FALSE
              OBVIOUS
            <7>1. methods[k].sig \subseteq sig /\ methods[k].sig # sig
              BY <4>4, <6>2 DEF MoreSpecific
            <7> QED
              BY <7>1 DEF MoreSpecific
          <6> QED
            BY <6>4, <6>5
        <5>4. ReplacedEdge(e, sig, Settled)
          BY <5>1, <5>3 DEF ReplacedEdge
        <5> QED
          BY <5>1, <5>2, <5>4
      <4>6. Selected(t, w)' = {k}
        BY <3>2, <4>3, <4>5
      <4> QED
        BY <4>4, <4>6
    <3> QED
      BY <3>3, <3>4
  <2> HIDE DEF now
  <2>2. Change(now)
    BY DEF now
  <2> HIDE DEF site, a
  <2>3. AnswerHolds(site, a, w)'
    BY <1>1, <1>7, <2>1, <2>2, AnswerAfter
  <2> QED
    BY <2>3 DEF site, a
<1> QED
  BY <1>6, <1>7

-----------------------------------------------------------------------------
(* The steps that change the table: inference waits for them.               *)

\* Where the methods stay, so does what is selected, and what was taken holds.
LEMMA MethodsStay ==
  ASSUME Change(ActiveIn(counter)), NEW w, w = counter'
  PROVE  /\ \A t : Selected(t, w)' = Selected(t, counter)
         /\ \A p \in Taken : p.answer.ids \subseteq Ids =>
              (AnswerHolds(Site[p.at], p.answer, w)' <=> AnswerHolds(Site[p.at], p.answer, counter))
<1> DEFINE A == ActiveIn(counter)
<1>1. A \subseteq Ids /\ Change(A) /\ ActiveIn(w)' = A
  BY DEF ActiveIn, Change
<1>2. ASSUME NEW t PROVE Selected(t, w)' = Selected(t, counter)
  <2>1. Selected(t, counter) = {i \in A : /\ t \in methods[i].sig
                                          /\ \A j \in A : t \in methods[j].sig
                                                => methods[i].sig \subseteq methods[j].sig}
    BY SelectedIs
  <2> HIDE DEF A
  <2>2. Selected(t, w)' = {i \in A : /\ t \in methods[i].sig
                                    /\ \A j \in A : t \in methods[j].sig
                                          => methods[i].sig \subseteq methods[j].sig}
    BY <1>1, SelectedAfter
  <2> QED
    BY <2>1, <2>2
<1>3. ASSUME NEW p \in Taken, p.answer.ids \subseteq Ids
      PROVE  AnswerHolds(Site[p.at], p.answer, w)' <=> AnswerHolds(Site[p.at], p.answer, counter)
  BY <1>1, <1>3, AnswerSame
<1> QED
  BY <1>2, <1>3

LEMMA InferringNothing ==
  ASSUME infer = None, infer' = None
  PROVE  FillInv' /\ InferInv' /\ infer' = None
BY DEF FillInv, InferInv

LEMMA DefineStep ==
  ASSUME WorldsInv, ~ Overlap, NEW sig \in Signatures, StartDefine(sig)
  PROVE  WorldsInv'
<1>1. /\ TableType /\ TableInv /\ CacheType /\ CacheInv /\ CodeType /\ CodeInv
      /\ infer = None /\ infer' = None
      /\ cache' = cache /\ code' = code /\ backedges' = backedges /\ missing' = missing
      /\ resolved' = resolved
  BY DEF WorldsInv, StartDefine, Undisturbed, Alone, caching, inferring, past
<1>2. TableType' /\ TableInv' /\ Change(ActiveIn(counter)) /\ Settled' = Settled
  BY <1>1, DefineChange
<1>4. CacheType' /\ CacheInv'
  <2>1. cache' = Cut({}, Settled)
    BY <1>1 DEF Cut
  <2>2. ASSUME NEW t, NEW w, w = counter' PROVE Selected(t, w)' = Selected(t, counter)
    BY <1>2, <2>2, MethodsStay
  <2>3. \A e \in cache : e \notin {} /\ e.max = Forever =>
            \A t \in e.sig : \A w : /\ (\A s \in e.guards : t \notin s) /\ w = counter'
                                /\ Selected(t, counter) = {e.mi[1]}
                                => Selected(t, w)' = {e.mi[1]}
    BY <2>2
  <2> QED
    BY <1>1, <1>2, <2>1, <2>3, CutRight
<1>5. CodeType' /\ CodeInv'
  <2>1. Reached({}) = {} /\ {} \subseteq Callers
    BY <1>1, ReachedIs
  <2>2. Invalidate({}, {}, Settled) /\ missing' = missing \ {}
    BY <1>1, <2>1 DEF Invalidate
  <2>3. ASSUME NEW p \in Taken, NEW w, p.answer.ids \subseteq Ids, Known(p, backedges, missing), w = counter'
        PROVE  /\ p.answer.ids \subseteq ActiveIn(counter)
               /\ AnswerHolds(Site[p.at], p.answer, counter) => AnswerHolds(Site[p.at], p.answer, w)'
    BY <1>2, <2>3, MethodsStay DEF Known
  <2>4. CodeInv' /\ code' \subseteq [of : Callers, taken : SUBSET Taken, min : Nat, max : Nat]
        /\ backedges' \subseteq Edges /\ missing' \subseteq Missings
    <3> DEFINE none == {}
    <3>1. /\ none \subseteq Callers /\ Invalidate(none, none, Settled) /\ missing' = missing \ none
          /\ (\A e \in none : e.caller \in none) /\ (none # {} => Settled' = counter')
      BY <2>1, <2>2
    <3>2. resolved => resolved'
      BY <1>1
    <3> HIDE DEF none
    <3> QED
      BY <1>1, <1>2, <2>3, <3>1, <3>2, CodeKept
  <2> QED
    BY <1>1, <2>4 DEF CodeType
<1>6. FillInv' /\ InferInv'
  BY <1>1, InferringNothing
<1> QED
  BY <1>2, <1>4, <1>5, <1>6 DEF WorldsInv

LEMMA ReplaceStep ==
  ASSUME WorldsInv, infer = None, infer' = None, resolved' = resolved,
         NEW i \in Pending, NEW j \in ActiveIn(counter), methods[j].sig = methods[i].sig,
         PutFor(i, j), InvalidateMethod(j, Settled), missing' = missing
  PROVE  WorldsInv'
<1> DEFINE now == (ActiveIn(counter) \ {j}) \cup {i}
           edges == {e \in backedges : e.callee \notin Callers /\ e.callee[1] = j}
           callers == {e.caller : e \in edges}
           set == {e \in cache : e.leaf \/ e.mi[1] = j}
<1>1. TableType /\ TableInv /\ CacheType /\ CacheInv /\ CodeType /\ CodeInv
  BY DEF WorldsInv
<1>2. /\ TableType' /\ TableInv' /\ Settled' = counter' /\ Change(now)
      /\ i \notin ActiveIn(counter) /\ i \in Ids /\ j \in Ids
  BY <1>1, ReplaceChange DEF Pending, ActiveIn
<1>3. Invalidate(callers, edges, Settled) /\ cache' = Cut(set, Settled)
  BY DEF InvalidateMethod
<1>4. callers \subseteq Callers
  BY <1>1 DEF CodeType, Edges
<1>5. CacheType' /\ CacheInv'
  <2>1. ASSUME NEW e \in cache, e \notin set, NEW t, NEW w, w = counter', Selected(t, counter) = {e.mi[1]}
        PROVE  Selected(t, w)' = {e.mi[1]}
    <3>1. e.mi[1] # j
      BY <2>1
    <3> QED
      BY <1>1, <1>2, <2>1, <3>1, ReplaceSelected
  <2>2. \A e \in cache : e \notin set /\ e.max = Forever =>
            \A t \in e.sig : \A w : /\ (\A s \in e.guards : t \notin s) /\ w = counter'
                                /\ Selected(t, counter) = {e.mi[1]}
                                => Selected(t, w)' = {e.mi[1]}
    BY <2>1
  <2> HIDE DEF set, now
  <2> QED
    BY <1>1, <1>2, <1>3, <2>2, CutRight
<1>6. ASSUME NEW p \in Taken, NEW w, p.answer.ids \subseteq Ids, Known(p, backedges, missing),
             p.at \notin callers, w = counter'
      PROVE  /\ p.answer.ids \subseteq now
             /\ AnswerHolds(Site[p.at], p.answer, counter) => AnswerHolds(Site[p.at], p.answer, w)'
  <2>1. j \notin p.answer.ids
    <3> SUFFICES ASSUME j \in p.answer.ids PROVE FALSE
      OBVIOUS
    <3>1. PICK e \in backedges : e.caller = p.at /\ e.callee[1] = j /\ e.callee \notin Callers
      BY <1>6, EdgeKept
    <3> QED
      BY <1>6, <3>1
  <2>2. p.answer.ids \subseteq ActiveIn(counter) \ {j}
    BY <1>6, <2>1 DEF Known
  <2> QED
    BY <1>1, <1>2, <1>6, <2>2, ReplaceAnswer
<1>7. CodeInv' /\ CodeType'
  <2> DEFINE found == {}
  <2>1. /\ \A e \in edges : e.caller \in callers
        /\ \A m \in found : m.caller \in callers
        /\ missing' = missing \ found /\ (resolved => resolved')
        /\ (callers # {} => Settled' = counter')
    BY <1>2
  <2> HIDE DEF now, edges, callers, found
  <2>3.    \A p \in Taken : \A w :
           /\ p.answer.ids \subseteq Ids /\ Known(p, backedges, missing)
           /\ p.at \notin callers /\ w = counter'
           => /\ p.answer.ids \subseteq now
              /\ ~ resolved' /\ p.answer # Unknown /\ AnswerHolds(Site[p.at], p.answer, counter)
                   => AnswerHolds(Site[p.at], p.answer, w)'
    BY <1>6
  <2>2. CodeInv' /\ code' \subseteq [of : Callers, taken : SUBSET Taken, min : Nat, max : Nat]
        /\ backedges' \subseteq Edges /\ missing' \subseteq Missings
    BY <1>1, <1>2, <1>3, <1>4, <2>1, <2>3, CodeKept
  <2> QED
    BY <2>2 DEF CodeType
<1>8. FillInv' /\ InferInv'
  BY InferringNothing
<1> QED
  BY <1>2, <1>5, <1>7, <1>8 DEF WorldsInv

\* A method that has not ended is deleted.
LEMMA DeleteStep ==
  ASSUME WorldsInv, ~ Overlap, NEW i \in Ids, Delete(i), methods[i].max = Forever
  PROVE  WorldsInv'
<1> DEFINE now == ActiveIn(counter) \ {i}
           edges == {e \in backedges : e.callee \notin Callers /\ e.callee[1] = i}
           callers == {e.caller : e \in edges}
           set == {e \in cache : e.leaf \/ e.mi[1] = i}
<1>1. /\ TableType /\ TableInv /\ CacheType /\ CacheInv /\ CodeType /\ CodeInv
      /\ infer = None /\ infer' = None /\ missing' = missing
      /\ InvalidateMethod(i, counter) /\ Pending = {}
      /\ resolved' = (resolved \/ \E j \in Before(methods[i].sig, counter) \ {i} :
                                    /\ i \in ActiveIn(counter)
                                    /\ Unordered(methods[i].sig, methods[j].sig))
  BY DEF WorldsInv, Delete, Undisturbed, Alone
<1>2. /\ TableType' /\ TableInv' /\ Settled' = counter' /\ Change(now)
      /\ i \in ActiveIn(counter) /\ Settled = counter
  BY <1>1, DeleteChange, SettledIs
<1>3. Invalidate(callers, edges, Settled) /\ cache' = Cut(set, Settled)
  BY <1>1, <1>2 DEF InvalidateMethod
<1>4. callers \subseteq Callers
  BY <1>1 DEF CodeType, Edges
<1>5. CacheType' /\ CacheInv'
  <2>1. ASSUME NEW e \in cache, e \notin set, NEW t, NEW w, w = counter', Selected(t, counter) = {e.mi[1]}
        PROVE  Selected(t, w)' = {e.mi[1]}
    <3> DEFINE k == e.mi[1]
    <3>1. k # i /\ Selected(t, counter) = {k}
      BY <2>1
    <3>2. Change(ActiveIn(counter) \ {i})
      BY <1>2
    <3> HIDE DEF k
    <3>3. \A m : Selected(t, counter) = {m} /\ m # i => Selected(t, w)' = {m}
      BY <1>1, <1>2, <2>1, <3>2, DeleteSelected
    <3>4. Selected(t, w)' = {k}
      BY <3>1, <3>3
    <3> QED
      BY <3>4 DEF k
  <2>2. \A e \in cache : e \notin set /\ e.max = Forever =>
            \A t \in e.sig : \A w : /\ (\A s \in e.guards : t \notin s) /\ w = counter'
                                /\ Selected(t, counter) = {e.mi[1]}
                                => Selected(t, w)' = {e.mi[1]}
    BY <2>1
  <2> HIDE DEF set, now
  <2> QED
    BY <1>1, <1>2, <1>3, <2>2, CutRight
<1>6. ASSUME NEW p \in Taken, NEW w, p.answer.ids \subseteq Ids, Known(p, backedges, missing),
             p.at \notin callers, w = counter'
      PROVE  /\ p.answer.ids \subseteq now
             /\ ~ resolved' /\ AnswerHolds(Site[p.at], p.answer, counter)
                  => AnswerHolds(Site[p.at], p.answer, w)'
  <2>1. i \notin p.answer.ids
    <3> SUFFICES ASSUME i \in p.answer.ids PROVE FALSE
      OBVIOUS
    <3>1. PICK e \in backedges : e.caller = p.at /\ e.callee[1] = i /\ e.callee \notin Callers
      BY <1>6, EdgeKept
    <3> QED
      BY <1>6, <3>1
  <2>2. p.answer.ids \subseteq ActiveIn(counter) \ {i}
    BY <1>6, <2>1 DEF Known
  <2>3. ~ resolved' => \A j \in ActiveIn(counter) \ {i} :
            ~ Disjoint(methods[j].sig, methods[i].sig) => ~ Unordered(methods[i].sig, methods[j].sig)
    BY <1>1, <1>2 DEF Before
  <2> QED
    BY <1>1, <1>2, <1>6, <2>2, <2>3, DeleteAnswer
<1>7. CodeInv' /\ CodeType'
  <2> DEFINE found == {}
  <2>1. /\ \A e \in edges : e.caller \in callers
        /\ \A m \in found : m.caller \in callers
        /\ missing' = missing \ found /\ (callers # {} => Settled' = counter')
    BY <1>1, <1>2
  <2>2. resolved => resolved'
    BY <1>1
  <2> HIDE DEF now, edges, callers, found
  <2>4.    \A p \in Taken : \A w :
           /\ p.answer.ids \subseteq Ids /\ Known(p, backedges, missing)
           /\ p.at \notin callers /\ w = counter'
           => /\ p.answer.ids \subseteq now
              /\ ~ resolved' /\ p.answer # Unknown /\ AnswerHolds(Site[p.at], p.answer, counter)
                   => AnswerHolds(Site[p.at], p.answer, w)'
    BY <1>6
  <2>3. CodeInv' /\ code' \subseteq [of : Callers, taken : SUBSET Taken, min : Nat, max : Nat]
        /\ backedges' \subseteq Edges /\ missing' \subseteq Missings
    BY <1>1, <1>2, <1>3, <1>4, <2>1, <2>2, <2>4, CodeKept
  <2> QED
    BY <1>1, <2>3 DEF CodeType
<1>8. FillInv' /\ InferInv'
  BY <1>1, InferringNothing
<1> QED
  BY <1>2, <1>5, <1>7, <1>8 DEF WorldsInv

\* A method that had ended is deleted again: what is in the table now stays.
LEMMA RepeatStep ==
  ASSUME WorldsInv, ~ Overlap, NEW i \in Ids, Delete(i), methods[i].max # Forever
  PROVE  WorldsInv'
<1> DEFINE now == ActiveIn(counter)
           edges == {e \in backedges : e.callee \notin Callers /\ e.callee[1] = i}
           callers == {e.caller : e \in edges}
           set == {e \in cache : e.leaf \/ e.mi[1] = i}
<1>1. /\ TableType /\ TableInv /\ CacheType /\ CacheInv /\ CodeType /\ CodeInv
      /\ infer = None /\ infer' = None /\ missing' = missing
      /\ InvalidateMethod(i, counter) /\ Pending = {}
      /\ resolved => resolved'
  BY DEF WorldsInv, Delete, Undisturbed, Alone
<1>2. /\ TableType' /\ TableInv' /\ Settled' = counter' /\ Change(now) /\ Settled = counter
  BY <1>1, RepeatChange, SettledIs
<1>3. Invalidate(callers, edges, Settled) /\ cache' = Cut(set, Settled)
  BY <1>1, <1>2 DEF InvalidateMethod
<1>4. callers \subseteq Callers
  BY <1>1 DEF CodeType, Edges
<1>5. CacheType' /\ CacheInv'
  <2>1. ASSUME NEW t, NEW w, w = counter' PROVE Selected(t, w)' = Selected(t, counter)
    BY <1>2, <2>1, MethodsStay
  <2>2. \A e \in cache : e \notin set /\ e.max = Forever =>
            \A t \in e.sig : \A w : /\ (\A s \in e.guards : t \notin s) /\ w = counter'
                                /\ Selected(t, counter) = {e.mi[1]}
                                => Selected(t, w)' = {e.mi[1]}
    BY <2>1
  <2> HIDE DEF set, now
  <2> QED
    BY <1>1, <1>2, <1>3, <2>2, CutRight
<1>6. ASSUME NEW p \in Taken, NEW w, p.answer.ids \subseteq Ids, Known(p, backedges, missing), w = counter'
      PROVE  /\ p.answer.ids \subseteq now
             /\ AnswerHolds(Site[p.at], p.answer, counter) => AnswerHolds(Site[p.at], p.answer, w)'
  BY <1>2, <1>6, MethodsStay DEF Known
<1>7. CodeInv' /\ CodeType'
  <2> DEFINE found == {}
  <2>1. /\ \A e \in edges : e.caller \in callers
        /\ \A m \in found : m.caller \in callers
        /\ missing' = missing \ found /\ (callers # {} => Settled' = counter')
    BY <1>1, <1>2
  <2> HIDE DEF now, edges, callers, found
  <2>2. \A p \in Taken : \A w :
           /\ p.answer.ids \subseteq Ids /\ Known(p, backedges, missing)
           /\ p.at \notin callers /\ w = counter'
           => /\ p.answer.ids \subseteq now
              /\ ~ resolved' /\ p.answer # Unknown /\ AnswerHolds(Site[p.at], p.answer, counter)
                   => AnswerHolds(Site[p.at], p.answer, w)'
    BY <1>6
  <2>3. CodeInv' /\ code' \subseteq [of : Callers, taken : SUBSET Taken, min : Nat, max : Nat]
        /\ backedges' \subseteq Edges /\ missing' \subseteq Missings
    BY <1>1, <1>2, <1>3, <1>4, <2>1, <2>2, CodeKept
  <2> QED
    BY <1>1, <2>3 DEF CodeType
<1>8. FillInv' /\ InferInv'
  BY <1>1, InferringNothing
<1> QED
  BY <1>2, <1>5, <1>7, <1>8 DEF WorldsInv

LEMMA NewStep ==
  ASSUME WorldsInv, infer = None, infer' = None, resolved' = resolved,
         NEW i \in Pending, \A j \in Before(methods[i].sig, Settled) : methods[j].sig # methods[i].sig,
         InsertNew(i, Settled), counter' = counter, deletes' = deletes, rewritten' = rewritten
  PROVE  WorldsInv'
<1> DEFINE now == ActiveIn(counter) \cup {i}
           sig == methods[i].sig
           found == {m \in missing : NowCovered(m.types, sig, Settled)}
           edges == {e \in backedges : /\ e.callee \in Shadowed(sig, Settled)
                                       /\ ReplacedEdge(e, sig, Settled)}
           callers == {m.caller : m \in found} \union {e.caller : e \in edges}
           set == {e \in cache : Dropped(e, sig, Settled)}
<1>1. TableType /\ TableInv /\ CacheType /\ CacheInv /\ CodeType /\ CodeInv
  BY DEF WorldsInv
<1>2. \A k \in ActiveIn(counter) : methods[k].sig # sig
  <2> SUFFICES ASSUME NEW k \in ActiveIn(counter), methods[k].sig = sig PROVE FALSE
    OBVIOUS
  <2>1. k \in Ids
    BY DEF ActiveIn
  <2>2. sig # {}
    BY <1>1, <2>1, TableIs
  <2>3. k \in Before(sig, Settled)
    BY <1>1, <2>2, ActiveNow DEF Before, Disjoint
  <2> QED
    BY <2>3
<1>3. Put(i)
  BY DEF Put, InsertNew
<1>4. /\ TableType' /\ TableInv' /\ Settled' = counter' /\ Change(now)
      /\ i \notin ActiveIn(counter) /\ i \in Ids
  BY <1>1, <1>2, <1>3, NewChange DEF Pending
<1>5. /\ Invalidate(callers, edges, Settled) /\ cache' = Cut(set, Settled)
      /\ missing' = missing \ found
  BY DEF InsertNew
<1>6. callers \subseteq Callers
  BY <1>1 DEF CodeType, Edges, Missings
<1>7. CacheType' /\ CacheInv'
  <2>1. ASSUME NEW e \in cache, e \notin set, NEW t \in e.sig, NEW w, w = counter',
               \A s \in e.guards : t \notin s, Selected(t, counter) = {e.mi[1]}
        PROVE  Selected(t, w)' = {e.mi[1]}
    <3> DEFINE k == e.mi[1]
    <3>1. t \notin sig \/ MoreSpecific(methods[k].sig, sig)
      <4> SUFFICES ASSUME t \in sig, ~ MoreSpecific(methods[k].sig, sig) PROVE FALSE
        OBVIOUS
      <4>1. k \in ActiveIn(counter) /\ t \in methods[k].sig
        BY <2>1, SelectedIs
      <4>2. k \in Before(sig, Settled)
        BY <1>1, <4>1, ActiveNow DEF Before, Disjoint
      <4>3. t \in e.mi[2]
        BY <1>1 DEF CacheInv, EntryRight
      <4>4. e.mi \in Shadowed(sig, Settled)
        <5>1. ~ Disjoint(e.mi[2], sig) /\ e.mi \in {x.mi : x \in cache}
          BY <4>3 DEF Disjoint
        <5> QED
          BY <4>2, <5>1 DEF Shadowed
      <4>5. ~ Disjoint(e.sig, sig)
        BY DEF Disjoint
      <4>6. \A s \in e.guards : ~ sig \subseteq s
        BY <2>1
      <4>7. Dropped(e, sig, Settled)
        BY <4>4, <4>5, <4>6 DEF Dropped
      <4> QED
        BY <2>1, <4>7
    <3> QED
      BY <1>1, <1>2, <1>4, <2>1, <3>1, NewSelected
  <2>2. \A e \in cache : e \notin set /\ e.max = Forever =>
            \A t \in e.sig : \A w : /\ (\A s \in e.guards : t \notin s) /\ w = counter'
                                /\ Selected(t, counter) = {e.mi[1]}
                                => Selected(t, w)' = {e.mi[1]}
    BY <2>1
  <2> HIDE DEF set, now, sig
  <2> QED
    BY <1>1, <1>4, <1>5, <2>2, CutRight
<1>8. ASSUME NEW p \in Taken, NEW w, p.answer.ids \subseteq Ids, Known(p, backedges, missing),
             p.at \notin callers, w = counter'
      PROVE  /\ p.answer.ids \subseteq now
             /\ p.answer # Unknown /\ AnswerHolds(Site[p.at], p.answer, counter)
                  => AnswerHolds(Site[p.at], p.answer, w)'
  <2>1. p.answer.ids \subseteq now
    BY <1>8 DEF Known
  <2>2. \A m \in missing : m.caller = p.at => ~ NowCovered(m.types, sig, Settled)
    BY <1>8
  <2>3. \A e \in backedges : e.caller = p.at /\ e.callee \in Shadowed(sig, Settled)
                              => ~ ReplacedEdge(e, sig, Settled)
    BY <1>8
  <2> QED
    BY <1>1, <1>2, <1>4, <1>8, <2>1, <2>2, <2>3, NewAnswer
<1>9. CodeInv' /\ CodeType'
  <2>1. /\ \A e \in edges : e.caller \in callers
        /\ \A m \in found : m.caller \in callers
        /\ (callers # {} => Settled' = counter')
        /\ (resolved => resolved')
    BY <1>4
  <2> HIDE DEF now, edges, callers, found
  <2>2. CodeInv' /\ code' \subseteq [of : Callers, taken : SUBSET Taken, min : Nat, max : Nat]
        /\ backedges' \subseteq Edges /\ missing' \subseteq Missings
    BY <1>1, <1>4, <1>5, <1>6, <1>8, <2>1, CodeKept
  <2> QED
    BY <2>2 DEF CodeType
<1>10. FillInv' /\ InferInv'
  BY InferringNothing
<1> QED
  BY <1>4, <1>7, <1>9, <1>10 DEF WorldsInv

LEMMA InsertStep ==
  ASSUME WorldsInv, ~ Overlap, NEW i \in Ids, Insert(i)
  PROVE  WorldsInv'
<1> DEFINE w == methods[i].min - 1
           same == {j \in Before(methods[i].sig, w) : methods[j].sig = methods[i].sig}
<1>1. /\ i \in Pending /\ infer = None /\ infer' = None /\ resolved' = resolved
      /\ counter' = counter /\ deletes' = deletes /\ rewritten' = rewritten
      /\ IF same # {} THEN \E j \in same : InsertReplacing(i, j, w) ELSE InsertNew(i, w)
  BY DEF Insert, Alone, past
<1>2. TableType /\ TableInv
  BY DEF WorldsInv
<1>3. w = Settled
  BY <1>1, <1>2 DEF TableInv, Settled
<1>4. CASE same # {}
  <2>1. PICK j \in same : InsertReplacing(i, j, w)
    BY <1>1, <1>4
  <2>2. j \in ActiveIn(counter) /\ methods[j].sig = methods[i].sig
    BY <1>2, <1>3, ActiveNow DEF Before
  <2>3. PutFor(i, j) /\ InvalidateMethod(j, Settled) /\ missing' = missing
    BY <1>1, <1>3, <2>1 DEF InsertReplacing, PutFor
  <2> QED
    BY <1>1, <2>2, <2>3, ReplaceStep
<1>5. CASE same = {}
  <2>1. \A j \in Before(methods[i].sig, Settled) : methods[j].sig # methods[i].sig
    BY <1>3, <1>5
  <2>2. InsertNew(i, Settled)
    BY <1>1, <1>3, <1>5
  <2> QED
    BY <1>1, <2>1, <2>2, NewStep
<1> QED
  BY <1>4, <1>5

-----------------------------------------------------------------------------
(* The steps that leave the table as it is.                                 *)

\* Then nothing means anything else than before.
SameTable == UNCHANGED <<counter, methods, deletes, resolved, rewritten>>

LEMMA TableStays ==
  ASSUME SameTable
  PROVE  /\ TableType => TableType'
         /\ TableInv => TableInv'
         /\ Settled' = Settled /\ Ids' = Ids
BY DEF SameTable, TableType, TableInv, Settled, Pending, Inserted, Ids, ActiveIn, Active, Within

LEMMA MeaningStays ==
  ASSUME SameTable
  PROVE  /\ \A w : ActiveIn(w)' = ActiveIn(w)
         /\ \A e : EntryRight(e) => EntryRight(e)'
         /\ \A p, low, high : Holds(p, low, high) => Holds(p, low, high)'
         /\ \A query, w, meets : Bounds(query, w, meets)' = Bounds(query, w, meets)
         /\ \A t, w : Selected(t, w)' = Selected(t, w)
         /\ \A g, a : EdgesOf(g, a)' = EdgesOf(g, a) /\ MissingOf(g, a)' = MissingOf(g, a)
<1>1. /\ counter' = counter /\ methods' = methods /\ (resolved' <=> resolved)
      /\ rewritten' = rewritten
      /\ Settled' = Settled /\ Ids' = Ids
  BY TableStays DEF SameTable
<1>2. \A w : ActiveIn(w)' = ActiveIn(w)
  BY <1>1 DEF ActiveIn, Active, Within
<1>3. \A t, w : Selected(t, w)' = Selected(t, w)
  BY <1>1, <1>2 DEF Selected, Applicable
<1>4. \A e : EntryRight(e) => EntryRight(e)'
  BY <1>1, <1>3 DEF EntryRight, For, Lesser
<1>5. \A site, a : FullMatch(site, a)' <=> FullMatch(site, a)
  BY <1>1 DEF FullMatch
<1>6. \A site, a, w : AnswerHolds(site, a, w) => AnswerHolds(site, a, w)'
  BY <1>1, <1>2, <1>3, <1>5 DEF AnswerHolds
<1>7. \A p, low, high : Holds(p, low, high) => Holds(p, low, high)'
  BY <1>1, <1>6 DEF Holds, Lesser
<1>8. \A query, w, meets : Bounds(query, w, meets)' = Bounds(query, w, meets)
  <2> SUFFICES ASSUME NEW query, NEW w, NEW meets
               PROVE  Bounds(query, w, meets)' = Bounds(query, w, meets)
    OBVIOUS
  <2> DEFINE met == Met(query, meets)
             before == {methods[i].max + 1 : i \in {j \in met : methods[j].max < w}}
                         \union {methods[i].min : i \in met \intersect ActiveIn(w)}
             after == {methods[i].min - 1 : i \in {j \in met : w < methods[j].min}}
                        \union {methods[i].max : i \in met \intersect ActiveIn(w)}
  <2>1. met' = met
    BY <1>1 DEF Met, Inserted
  <2> HIDE DEF met
  <2>2. before' = before
    BY <1>1, <1>2, <2>1
  <2>3. after' = after
    BY <1>1, <1>2, <2>1
  <2>4. Bounds(query, w, meets) = [min |-> Max(before \union {0}), max |-> Min(after \union {Forever})]
    BY DEF Bounds, met
  <2>5. Bounds(query, w, meets)' = [min |-> Max(before' \union {0}), max |-> Min(after' \union {Forever})]
    BY DEF Bounds, met
  <2> QED
    BY <2>2, <2>3, <2>4, <2>5
<1>9. \A g, a : EdgesOf(g, a)' = EdgesOf(g, a)
  BY <1>1 DEF EdgesOf
<1>10. \A g, a : MissingOf(g, a)' = MissingOf(g, a)
  BY <1>5 DEF MissingOf
<1> QED
  BY <1>2, <1>3, <1>4, <1>7, <1>8, <1>9, <1>10

LEMMA CacheStays ==
  ASSUME SameTable, CacheType, CacheInv, cache' = cache
  PROVE  CacheType' /\ CacheInv'
<1>1. \A e : EntryRight(e) => EntryRight(e)'
  BY MeaningStays
<1> QED
  BY <1>1 DEF CacheType, CacheInv

\* More edges are no harm.
LEMMA CodeStays ==
  ASSUME SameTable, CodeInv, code' = code, backedges \subseteq backedges', missing \subseteq missing'
  PROVE  CodeInv'
<1>1. counter' = counter /\ Settled' = Settled /\ Ids' = Ids
  BY TableStays DEF SameTable
<1>2. /\ \A w : ActiveIn(w)' = ActiveIn(w)
      /\ \A p, low, high : Holds(p, low, high) => Holds(p, low, high)'
      /\ \A g, a : EdgesOf(g, a)' = EdgesOf(g, a) /\ MissingOf(g, a)' = MissingOf(g, a)
  BY MeaningStays
<1>3. \A p : Known(p, backedges, missing) => Known(p, backedges, missing)'
  <2>1. ActiveIn(counter)' = ActiveIn(counter)
    BY <1>1 DEF SameTable, ActiveIn, Active, Within, Ids
  <2> QED
    BY <1>2, <2>1 DEF Known
<1>4. \A from, g : LeadsTo(from, g, backedges) => LeadsTo(from, g, backedges)'
  BY DEF LeadsTo
<1> QED
  BY <1>1, <1>2, <1>3, <1>4 DEF CodeInv

LEMMA InferenceStays ==
  ASSUME SameTable, FillInv, InferInv,
         infer' = infer, backedges' = backedges, missing' = missing
  PROVE  FillInv' /\ InferInv'
<1>1. counter' = counter /\ Settled' = Settled /\ Ids' = Ids
  BY TableStays DEF SameTable
<1>2. /\ \A w : ActiveIn(w)' = ActiveIn(w)
      /\ \A p, low, high : Holds(p, low, high) => Holds(p, low, high)'
      /\ \A query, w, meets : Bounds(query, w, meets)' = Bounds(query, w, meets)
      /\ \A t, w : Selected(t, w)' = Selected(t, w)
      /\ \A g, a : EdgesOf(g, a)' = EdgesOf(g, a) /\ MissingOf(g, a)' = MissingOf(g, a)
  BY MeaningStays
<1>3. FillInv'
  <2> SUFFICES ASSUME infer' # None, NEW f \in infer'.fill
               PROVE  /\ f.world \in 0..counter'
                      /\ f.id \in Selected(f.t, f.world)'
                      /\ f.bounds = Bounds({f.t}, f.world, TRUE)'
    BY DEF FillInv
  <2> QED
    BY <1>1, <1>2 DEF FillInv
<1>4. ActiveIn(counter)' = ActiveIn(counter)
  BY <1>1 DEF SameTable, ActiveIn, Active, Within, Ids
<1>5. \A p : Known(p, backedges \cup infer.edges, missing \cup infer.missing)
             => Known(p, backedges \cup infer.edges, missing \cup infer.missing)'
  BY <1>2, <1>4 DEF Known
<1>6. \A p : LeadsTo(p.at, infer.of, backedges \cup infer.edges)
             => LeadsTo(p.at, infer.of, backedges \cup infer.edges)'
  BY DEF LeadsTo
<1>7. \A p : Holds(p, infer.min, infer.max) => Holds(p, infer.min, infer.max)'
  BY <1>2 DEF Holds, SameTable, Lesser
<1>8. InferInv'
  BY <1>1, <1>5, <1>6, <1>7 DEF InferInv
<1> QED
  BY <1>3, <1>8

LEMMA SameStep ==
  ASSUME WorldsInv, UNCHANGED vars
  PROVE  WorldsInv'
<1>1. /\ SameTable /\ cache' = cache /\ code' = code /\ backedges' = backedges
      /\ missing' = missing /\ infer' = infer
  BY DEF vars, SameTable
<1>2. CodeType'
  BY <1>1 DEF WorldsInv, CodeType
<1> QED
  BY <1>1, <1>2, TableStays, CacheStays, CodeStays, InferenceStays DEF WorldsInv

\* The steps of an inference after its first: what it has taken stays, and no
\* edge is lost on the way to the table.
LEMMA InferKept ==
  ASSUME TableType, SameTable, InferInv, infer # None,
         infer'.of = infer.of, infer'.taken = infer.taken, infer'.min = infer.min,
         infer'.max = infer.max, infer'.step = "checked" <=> infer.step = "checked",
         backedges' \cup infer'.edges = backedges \cup infer.edges,
         missing' \cup infer'.missing = missing \cup infer.missing,
         infer'.step \in {"stored", "checked"} /\ infer'.max >= counter => infer'.edges = {} /\ infer'.missing = {}
  PROVE  InferInv'
<1>1. counter' = counter /\ Settled' = Settled /\ Ids' = Ids
  BY TableStays DEF SameTable
<1>2. /\ \A w : ActiveIn(w)' = ActiveIn(w)
      /\ \A p, low, high : Holds(p, low, high) => Holds(p, low, high)'
      /\ \A g, a : EdgesOf(g, a)' = EdgesOf(g, a) /\ MissingOf(g, a)' = MissingOf(g, a)
  BY MeaningStays
<1>3. ActiveIn(counter)' = ActiveIn(counter)
  BY <1>1 DEF SameTable, ActiveIn, Active, Within, Ids
<1>4. \A p : Known(p, backedges \cup infer.edges, missing \cup infer.missing)
             => Known(p, backedges \cup infer.edges, missing \cup infer.missing)'
  BY <1>2, <1>3 DEF Known
<1>5. \A p : LeadsTo(p.at, infer.of, backedges \cup infer.edges)
             => LeadsTo(p.at, infer.of, backedges \cup infer.edges)'
  BY DEF LeadsTo
<1>6. \A p : Holds(p, infer.min, infer.max) => Holds(p, infer.min, infer.max)'
  BY <1>2 DEF Holds, SameTable, Lesser
<1> QED
  BY <1>1, <1>4, <1>5, <1>6 DEF InferInv

LEMMA FillKept ==
  ASSUME SameTable, FillInv, infer # None, infer'.fill = infer.fill
  PROVE  FillInv'
<1>1. counter' = counter
  BY DEF SameTable
<1>2. /\ \A query, w, meets : Bounds(query, w, meets)' = Bounds(query, w, meets)
      /\ \A t, w : Selected(t, w)' = Selected(t, w)
  BY MeaningStays
<1> SUFFICES ASSUME infer' # None, NEW f \in infer'.fill
             PROVE  /\ f.world \in 0..counter'
                    /\ f.id \in Selected(f.t, f.world)'
                    /\ f.bounds = Bounds({f.t}, f.world, TRUE)'
  BY DEF FillInv
<1> QED
  BY <1>1, <1>2 DEF FillInv

\* A world that a task may be in.
LEMMA PresentIs ==
  ASSUME TableType, NEW w \in Present
  PROVE  w \in 0..counter /\ w \in Nat
<1>1. counter \in Nat /\ counter >= 1 /\ Lag \in Nat
  BY TableIs, BoundsAre
<1> QED
  BY <1>1 DEF Present, Greater

\* A method that is found for one argument as a whole signature is selected.
LEMMA LookupSelects ==
  ASSUME DispatchRight, TableType, TableInv, NEW t \in Types, NEW w \in 0..counter,
         Supremum({t}, w) # Nothing, Len(Supremum({t}, w).matches) = 1
  PROVE  MethodOf(Supremum({t}, w).matches[1], w) \in Selected(t, w)
<1> DEFINE i == MethodOf(Supremum({t}, w).matches[1], w)
<1>1. {t} \in (SUBSET Types) \ {{}}
  OBVIOUS
<1>2. /\ i \in ActiveIn(w) /\ {t} \subseteq methods[i].sig
      /\ \A j \in ActiveIn(w) : {t} \subseteq methods[j].sig => methods[i].sig \subseteq methods[j].sig
  BY <1>1, SupremumSelects
<1> HIDE DEF i
<1>3. i \in Selected(t, w)
  BY <1>2, SelectedIs
<1> QED
  BY <1>3 DEF i

LEMMA LookupStep ==
  ASSUME DispatchRight, WorldsInv, NEW t \in Types, NEW w \in Present, Lookup(t, w)
  PROVE  WorldsInv'
<1> DEFINE i == MethodOf(Supremum({t}, w).matches[1], w)
<1>1. /\ TableType /\ TableInv /\ CacheType /\ CacheInv /\ CodeType /\ CodeInv /\ FillInv /\ InferInv
  BY DEF WorldsInv
<1>2. /\ SameTable /\ code' = code /\ backedges' = backedges /\ missing' = missing /\ infer' = infer
  BY DEF Lookup, inferring, SameTable, past
<1>3. /\ Supremum({t}, w) # Nothing /\ Len(Supremum({t}, w).matches) = 1
      /\ CacheMethod(i, t, w, Bounds({t}, w, FALSE))
  <2> DEFINE found == Supremum({t}, w)
  <2> HIDE DEF found
  <2>1. /\ found # Nothing /\ Len(found.matches) = 1
        /\ CacheMethod(MethodOf(found.matches[1], w), t, w, Bounds({t}, w, FALSE))
    BY DEF Lookup, found
  <2> QED
    BY <2>1 DEF found
<1>4. w \in 0..counter
  BY <1>1, PresentIs
<1>5. i \in Selected(t, w)
  BY <1>1, <1>3, <1>4, LookupSelects
<1> HIDE DEF i
<1>6. CacheType' /\ CacheInv'
  <2>1. UNCHANGED <<counter, methods, rewritten>>
    BY <1>2 DEF SameTable
  <2> QED
    BY <1>1, <1>3, <1>4, <1>5, <2>1, CacheMethodRight
<1>7. CodeType'
  BY <1>1, <1>2 DEF CodeType
<1> QED
  BY <1>1, <1>2, <1>6, <1>7, TableStays, CodeStays, InferenceStays DEF WorldsInv

LEMMA FillCacheStep ==
  ASSUME DispatchRight, WorldsInv, FillCache
  PROVE  WorldsInv'
<1>1. /\ TableType /\ TableInv /\ CacheType /\ CacheInv /\ CodeType /\ CodeInv /\ FillInv /\ InferInv
  BY DEF WorldsInv
<1>2. /\ SameTable /\ code' = code /\ backedges' = backedges /\ missing' = missing
      /\ infer # None /\ infer' = [infer EXCEPT !.fill = {}]
  BY DEF FillCache, SameTable, past
<1>3. PICK f \in infer.fill : CacheMethod(f.id, f.t, f.world, f.bounds)
  BY DEF FillCache
<1>4. infer \in Inferences
  BY <1>1, <1>2 DEF CodeType
<1>5. CacheType' /\ CacheInv'
  <2>1. f \in Fills
    BY <1>4 DEF Inferences
  <2>2. f.t \in Types /\ f.world \in 0..counter /\ f.id \in Selected(f.t, f.world)
        /\ CacheMethod(f.id, f.t, f.world, Bounds({f.t}, f.world, TRUE))
    BY <1>1, <1>2, <1>3, <2>1 DEF FillInv, Fills
  <2>3. UNCHANGED <<counter, methods, rewritten>>
    BY <1>2 DEF SameTable
  <2> QED
    BY <1>1, <2>2, <2>3, CacheMethodRight
<1>6. /\ infer' \in Inferences /\ infer'.fill = {}
      /\ infer'.of = infer.of /\ infer'.step = infer.step /\ infer'.taken = infer.taken
      /\ infer'.min = infer.min /\ infer'.max = infer.max
      /\ infer'.edges = infer.edges /\ infer'.missing = infer.missing
  BY <1>2, <1>4 DEF Inferences
<1>7. CodeType' /\ FillInv'
  BY <1>1, <1>2, <1>6 DEF CodeType, FillInv
<1>8. infer.step \in {"stored", "checked"} /\ infer.max >= counter => infer.edges = {} /\ infer.missing = {}
  BY <1>1, <1>2 DEF InferInv
<1>9. InferInv'
  BY <1>1, <1>2, <1>6, <1>8, InferKept
<1> QED
  BY <1>1, <1>2, <1>5, <1>7, <1>9, TableStays, CodeStays DEF WorldsInv

LEMMA StartStoringStep ==
  ASSUME WorldsInv, StartStoring
  PROVE  WorldsInv'
<1> DEFINE step == IF infer.max >= counter THEN "storing" ELSE "stored"
<1>1. /\ TableType /\ TableInv /\ CacheType /\ CacheInv /\ CodeType /\ CodeInv /\ FillInv /\ InferInv
  BY DEF WorldsInv
<1>2. /\ SameTable /\ code' = code /\ backedges' = backedges /\ missing' = missing /\ cache' = cache
      /\ infer # None /\ infer.step = "matched" /\ infer.fill = {}
      /\ infer' = [infer EXCEPT !.step = step]
  BY DEF StartStoring, SameTable, past, caching
<1>3. infer \in Inferences
  BY <1>1, <1>2 DEF CodeType
<1>4. step \in {"storing", "stored"} /\ (step = "stored" => ~ (infer.max >= counter))
  OBVIOUS
<1> HIDE DEF step
<1>5. /\ infer' \in Inferences /\ infer'.fill = {}
      /\ infer'.of = infer.of /\ infer'.step = step /\ infer'.taken = infer.taken
      /\ infer'.min = infer.min /\ infer'.max = infer.max
      /\ infer'.edges = infer.edges /\ infer'.missing = infer.missing
  BY <1>2, <1>3, <1>4 DEF Inferences
<1>6. CodeType' /\ FillInv'
  BY <1>1, <1>2, <1>5 DEF CodeType, FillInv
<1>7. InferInv'
  BY <1>1, <1>2, <1>4, <1>5, InferKept
<1> QED
  BY <1>1, <1>2, <1>6, <1>7, TableStays, CacheStays, CodeStays DEF WorldsInv

LEMMA StoreEdgeStep ==
  ASSUME WorldsInv, StoreEdge
  PROVE  WorldsInv'
<1>1. /\ TableType /\ TableInv /\ CacheType /\ CacheInv /\ CodeType /\ CodeInv /\ FillInv /\ InferInv
  BY DEF WorldsInv
<1>2. /\ SameTable /\ code' = code /\ cache' = cache /\ infer # None /\ infer.step = "storing"
  BY DEF StoreEdge, SameTable, past, caching
<1>3. infer \in Inferences
  BY <1>1, <1>2 DEF CodeType
<1>4. ASSUME NEW e \in infer.edges, backedges' = backedges \union {e},
             infer' = [infer EXCEPT !.edges = @ \ {e}], missing' = missing
      PROVE  CodeType' /\ FillInv' /\ InferInv'
  <2>1. /\ infer' \in Inferences /\ infer'.fill = infer.fill
        /\ infer'.of = infer.of /\ infer'.step = infer.step /\ infer'.taken = infer.taken
        /\ infer'.min = infer.min /\ infer'.max = infer.max
        /\ infer'.edges = infer.edges \ {e} /\ infer'.missing = infer.missing
    BY <1>3, <1>4 DEF Inferences
  <2>2. e \in Edges
    BY <1>3 DEF Inferences
  <2>3. CodeType'
    BY <1>1, <1>2, <1>4, <2>1, <2>2 DEF CodeType
  <2>4. FillInv'
    BY <1>1, <1>2, <2>1, FillKept
  <2>5. InferInv'
    BY <1>1, <1>2, <1>4, <2>1, InferKept
  <2> QED
    BY <2>3, <2>4, <2>5
<1>5. ASSUME infer.edges = {}, missing' = missing \union infer.missing,
             infer' = [infer EXCEPT !.missing = {}, !.step = "stored"], backedges' = backedges
      PROVE  CodeType' /\ FillInv' /\ InferInv'
  <2>1. /\ infer' \in Inferences /\ infer'.fill = infer.fill
        /\ infer'.of = infer.of /\ infer'.step = "stored" /\ infer'.taken = infer.taken
        /\ infer'.min = infer.min /\ infer'.max = infer.max
        /\ infer'.edges = {} /\ infer'.missing = {}
    BY <1>3, <1>5 DEF Inferences
  <2>2. infer.missing \subseteq Missings
    BY <1>3 DEF Inferences
  <2>3. CodeType'
    BY <1>1, <1>2, <1>5, <2>1, <2>2 DEF CodeType
  <2>4. FillInv'
    BY <1>1, <1>2, <2>1, FillKept
  <2>5. InferInv'
    BY <1>1, <1>2, <1>5, <2>1, InferKept
  <2> QED
    BY <2>3, <2>4, <2>5
<1>6. CodeType' /\ FillInv' /\ InferInv' /\ backedges \subseteq backedges' /\ missing \subseteq missing'
  BY <1>4, <1>5 DEF StoreEdge
<1> QED
  BY <1>1, <1>2, <1>6, TableStays, CacheStays, CodeStays DEF WorldsInv

LEMMA CheckWorldStep ==
  ASSUME WorldsInv, CheckWorld
  PROVE  WorldsInv'
<1> DEFINE max == IF infer.max = counter THEN Forever ELSE infer.max
<1>1. /\ TableType /\ TableInv /\ CacheType /\ CacheInv /\ CodeType /\ CodeInv /\ FillInv /\ InferInv
  BY DEF WorldsInv
<1>2. /\ SameTable /\ code' = code /\ backedges' = backedges /\ missing' = missing /\ cache' = cache
      /\ infer # None /\ infer.step = "stored"
      /\ infer' = [infer EXCEPT !.step = "checked", !.max = max]
  BY DEF CheckWorld, SameTable, past, caching
<1>3. infer \in Inferences
  BY <1>1, <1>2 DEF CodeType
<1>4. counter \in Nat /\ counter < Forever /\ Forever \in Nat /\ Settled \in Nat /\ Settled <= counter
  BY <1>1, TableIs, SettledIs
<1>5. /\ infer.min <= counter /\ (infer.max = counter \/ infer.max < Settled)
      /\ infer.max >= counter => infer.edges = {} /\ infer.missing = {}
      /\ \A p \in infer.taken :
           /\ p.answer.ids \subseteq Ids
           /\ Holds(p, infer.min, infer.max)
           /\ infer.max >= counter =>
                /\ Known(p, backedges \cup infer.edges, missing \cup infer.missing)
                /\ LeadsTo(p.at, infer.of, backedges \cup infer.edges)
  BY <1>1, <1>2 DEF InferInv
<1>6. /\ max \in Nat /\ (max = Forever \/ max < Settled) /\ (max >= counter => infer.max >= counter)
      /\ Lesser(max, counter) = Lesser(infer.max, counter)
  <2>1. infer.max \in Nat
    BY <1>3 DEF Inferences
  <2> QED
    BY <1>4, <1>5, <2>1 DEF Lesser
<1> HIDE DEF max
<1>7. /\ infer' \in Inferences /\ infer'.fill = infer.fill
      /\ infer'.of = infer.of /\ infer'.step = "checked" /\ infer'.taken = infer.taken
      /\ infer'.min = infer.min /\ infer'.max = max
      /\ infer'.edges = infer.edges /\ infer'.missing = infer.missing
  BY <1>2, <1>3, <1>6 DEF Inferences
<1>8. CodeType' /\ FillInv'
  BY <1>1, <1>2, <1>7, FillKept DEF CodeType
<1>9. InferInv'
  <2>1. counter' = counter /\ Settled' = Settled /\ Ids' = Ids
    BY <1>2, TableStays DEF SameTable
  <2>2. /\ \A w : ActiveIn(w)' = ActiveIn(w)
        /\ \A p, low, high : Holds(p, low, high) => Holds(p, low, high)'
        /\ \A g, a : EdgesOf(g, a)' = EdgesOf(g, a) /\ MissingOf(g, a)' = MissingOf(g, a)
    BY <1>2, MeaningStays
  <2>3. ActiveIn(counter)' = ActiveIn(counter)
    BY <1>2, <2>1 DEF SameTable, ActiveIn, Active, Within, Ids
  <2>4. \A p : Known(p, backedges \cup infer.edges, missing \cup infer.missing)
               => Known(p, backedges \cup infer.edges, missing \cup infer.missing)'
    BY <1>2, <1>7, <2>2, <2>3 DEF Known
  <2>5. \A p : LeadsTo(p.at, infer.of, backedges \cup infer.edges)
               => LeadsTo(p.at, infer.of, backedges \cup infer.edges)'
    BY <1>2, <1>7 DEF LeadsTo
  <2>6. \A p : Holds(p, infer.min, infer.max) => Holds(p, infer.min, infer.max)'
    <3>1. ASSUME NEW p, NEW low, NEW high, low = infer.min, high = max, Holds(p, infer.min, infer.max)
          PROVE  Holds(p, infer.min, infer.max)'
      <4>1. Holds(p, low, high)
        BY <1>6, <3>1 DEF Holds
      <4>2. Holds(p, low, high)'
        BY <2>2, <4>1
      <4> QED
        BY <1>7, <3>1, <4>2 DEF Holds
    <3> QED
      BY <3>1
  <2> QED
    BY <1>5, <1>6, <1>7, <2>1, <2>4, <2>5, <2>6 DEF InferInv
<1> QED
  BY <1>1, <1>2, <1>8, <1>9, TableStays, CacheStays, CodeStays DEF WorldsInv

LEMMA CacheResultStep ==
  ASSUME WorldsInv, CacheResult
  PROVE  WorldsInv'
<1> DEFINE new == [of |-> infer.of, taken |-> infer.taken, min |-> infer.min, max |-> infer.max]
           Codes == [of : Callers, taken : SUBSET Taken, min : Nat, max : Nat]
<1>1. /\ TableType /\ TableInv /\ CacheType /\ CacheInv /\ CodeType /\ CodeInv /\ FillInv /\ InferInv
  BY DEF WorldsInv
<1>2. /\ SameTable /\ backedges' = backedges /\ missing' = missing /\ cache' = cache
      /\ infer # None /\ infer.step = "checked" /\ infer' = None
      /\ code' = code \/ code' = code \union {new}
  BY DEF CacheResult, SameTable, past, caching
<1>3. infer \in Inferences
  BY <1>1, <1>2 DEF CodeType
<1>4. new \in Codes /\ new.of = infer.of /\ new.taken = infer.taken
      /\ new.min = infer.min /\ new.max = infer.max /\ infer.max \in Nat
  BY <1>3 DEF Inferences
<1> HIDE DEF new, Codes
<1>5. counter \in Nat /\ counter < Forever /\ Forever \in Nat /\ Settled \in Nat /\ Settled <= counter
  BY <1>1, TableIs, SettledIs
<1>6. /\ new.min <= counter
      /\ new.max = Forever \/ new.max < Settled
      /\ \A p \in new.taken :
           /\ p.answer.ids \subseteq Ids
           /\ Holds(p, new.min, new.max)
           /\ new.max = Forever => Known(p, backedges, missing) /\ LeadsTo(p.at, new.of, backedges)
  <2>1. new.max = Forever =>
          backedges \cup infer.edges = backedges /\ missing \cup infer.missing = missing
          /\ infer.max >= counter
    BY <1>1, <1>2, <1>4, <1>5 DEF InferInv
  <2>2. /\ infer.min <= counter /\ (infer.max = Forever \/ infer.max < Settled)
        /\ \A p \in infer.taken :
             /\ p.answer.ids \subseteq Ids
             /\ Holds(p, infer.min, infer.max)
             /\ infer.max >= counter =>
                  /\ Known(p, backedges \cup infer.edges, missing \cup infer.missing)
                  /\ LeadsTo(p.at, infer.of, backedges \cup infer.edges)
    BY <1>1, <1>2 DEF InferInv
  <2> QED
    BY <1>4, <2>1, <2>2
<1>7. CodeInv'
  <2>1. counter' = counter /\ Settled' = Settled /\ Ids' = Ids
    BY <1>2, TableStays DEF SameTable
  <2>2. /\ \A w : ActiveIn(w)' = ActiveIn(w)
        /\ \A p, low, high : Holds(p, low, high) => Holds(p, low, high)'
        /\ \A g, a : EdgesOf(g, a)' = EdgesOf(g, a) /\ MissingOf(g, a)' = MissingOf(g, a)
    BY <1>2, MeaningStays
  <2>3. \A p : Known(p, backedges, missing) => Known(p, backedges, missing)'
    <3>1. ActiveIn(counter)' = ActiveIn(counter)
      BY <1>2, <2>1 DEF SameTable, ActiveIn, Active, Within, Ids
    <3> QED
      BY <1>2, <2>2, <3>1 DEF Known
  <2>4. \A from, g : LeadsTo(from, g, backedges) => LeadsTo(from, g, backedges)'
    BY <1>2 DEF LeadsTo
  <2>5. \A c \in code' : c \in code \/ c = new
    BY <1>2
  <2>6. \A c \in code' :
          /\ c.min <= counter
          /\ c.max = Forever \/ c.max < Settled
          /\ \A p \in c.taken :
               /\ p.answer.ids \subseteq Ids
               /\ Holds(p, c.min, c.max)
               /\ c.max = Forever => Known(p, backedges, missing) /\ LeadsTo(p.at, c.of, backedges)
    BY <1>1, <1>6, <2>5 DEF CodeInv
  <2> QED
    BY <2>1, <2>2, <2>3, <2>4, <2>6 DEF CodeInv
<1>8. CodeType'
  BY <1>1, <1>2, <1>4 DEF CodeType, Codes
<1>9. FillInv' /\ InferInv'
  BY <1>2 DEF FillInv, InferInv
<1> QED
  BY <1>1, <1>2, <1>7, <1>8, <1>9, TableStays, CacheStays DEF WorldsInv

-----------------------------------------------------------------------------
(* The first step of an inference: what it takes from the table or a cache.  *)

\* What an inference may be told of the site of g in world w: it holds in the
\* worlds it is given with, and it names all that there is to call.
AnswerRight(g, w, a) ==
  /\ a \in SiteAnswers /\ a.ids \subseteq Ids
  /\ a.min <= counter
  /\ a.max = Forever \/ a.max < Settled
  /\ a # Unknown => \A v \in (a.min..Lesser(a.max, counter)) \ rewritten : AnswerHolds(Site[g], a, v)
  /\ a.max = Forever => a.ids \subseteq ActiveIn(counter)
  /\ Site[g].kind = "call" /\ ~ a.ambig =>
       \A t : Site[g].types = {t} /\ Hits(t, w) = {} => \A i \in a.ids : i \in Selected(t, w)

LEMMA UnknownRight ==
  ASSUME TableType, NEW g \in Callers, NEW w
  PROVE  AnswerRight(g, w, Unknown)
<1>1. counter \in Nat /\ Forever \in Nat
  BY TableIs
<1>2. /\ Unknown.ids = {} /\ Unknown.ambig /\ Unknown.min = 0 /\ Unknown.max = Forever
      /\ Unknown \in SiteAnswers
  BY <1>1 DEF Unknown, SiteAnswers
<1> QED
  BY <1>1, <1>2 DEF AnswerRight

\* From an entry of a cache, with its worlds.
LEMMA HitRight ==
  ASSUME TableType, TableInv, CacheType, CacheInv, NEW g \in Callers, Site[g].kind = "call",
         NEW w \in 0..counter, NEW t, Site[g].types = {t}, NEW e \in Hits(t, w), NEW a,
         a = [ids |-> {e.mi[1]}, ambig |-> FALSE, min |-> e.min, max |-> e.max]
  PROVE  AnswerRight(g, w, a)
<1>1. /\ e \in cache /\ e.min <= w /\ w <= e.max /\ t \in e.sig
      /\ \A s \in e.guards : t \notin s
  BY DEF Hits, Within
<1>2. EntryRight(e) /\ e \in Entries
  BY <1>1 DEF CacheInv, CacheType
<1>3. e.min \in Nat /\ e.max \in Nat /\ counter \in Nat /\ Ids \subseteq MethodIds
      /\ counter < Forever /\ Forever \in Nat
  BY <1>2, TableIs DEF Entries
<1>4. a.ids = {e.mi[1]} /\ ~ a.ambig /\ a.min = e.min /\ a.max = e.max
  OBVIOUS
<1>5. e.mi[1] \in Ids /\ e.min <= counter /\ (e.max = Forever \/ e.max < Settled)
      /\ \A v \in (e.min..Lesser(e.max, counter)) \ rewritten : Selected(t, v) = {e.mi[1]}
  BY <1>1, <1>2 DEF EntryRight, For
<1>6. a \in SiteAnswers
  BY <1>3, <1>5 DEF SiteAnswers
<1> DEFINE i == e.mi[1]
<1> HIDE DEF i
<1>7. ASSUME NEW v \in (a.min..Lesser(a.max, counter)) \ rewritten PROVE AnswerHolds(Site[g], a, v)
  <2>1. Selected(t, v) = a.ids
    BY <1>4, <1>5, <1>7
  <2> QED
    BY <2>1 DEF AnswerHolds
<1>8. ASSUME a.max = Forever PROVE a.ids \subseteq ActiveIn(counter)
  <2>1. counter \in (e.min..Lesser(e.max, counter)) \ rewritten
    BY <1>3, <1>4, <1>5, <1>8, PresentIsClean DEF Lesser
  <2>2. Selected(t, counter) = a.ids
    BY <1>4, <1>5, <2>1
  <2> QED
    BY <2>2, SelectedIs
<1>9. Hits(t, w) # {}
  OBVIOUS
<1>10. \A u : Site[g].types = {u} => u = t
  OBVIOUS
<1> QED
  BY <1>4, <1>5, <1>6, <1>7, <1>8, <1>9, <1>10 DEF AnswerRight

\* From the table, with the worlds that were found on the way.
LEMMA FoundRight ==
  ASSUME DispatchRight, TableType, TableInv, NEW g \in Callers, Site[g].kind = "call",
         NEW w \in 0..counter, NEW query \in {Site[g].types}, SomeMatches(query, w) # Nothing
  PROVE  AnswerRight(g, w,
           [ids |-> {MethodOf(sig, w) : sig \in ToSet(SomeMatches(query, w).matches)},
            ambig |-> SomeMatches(query, w).ambig,
            min |-> Bounds(query, w, TRUE).min, max |-> Bounds(query, w, TRUE).max])
<1> DEFINE found == SomeMatches(query, w)
           ids == {MethodOf(sig, w) : sig \in ToSet(found.matches)}
           b == Bounds(query, w, TRUE)
           a == [ids |-> ids, ambig |-> found.ambig, min |-> b.min, max |-> b.max]
<1>1. query \in (SUBSET Types) \ {{}}
  BY SitesAre
<1>2. /\ ids \subseteq ActiveIn(w) /\ found.ambig \in BOOLEAN
      /\ \A i \in ids : ~ Disjoint(query, methods[i].sig)
      /\ \A t \in query : /\ Selected(t, w) # {} => \E i \in ids : i \in Selected(t, w)
                          /\ Selected(t, w) = {} /\ Applicable(t, w) # {} => found.ambig
      /\ Cardinality(query) = 1 => \A i, j \in ids : i = j
  BY <1>1, MatchesSelect
<1>3. /\ b \in [min : Nat, max : Nat]
      /\ b.min <= w /\ w <= b.max
      /\ b.max = Forever \/ b.max < Settled
      /\ \A v \in b.min..b.max : \A i \in Met(query, TRUE) : i \in ActiveIn(v) <=> i \in ActiveIn(w)
  <2>1. TRUE \in BOOLEAN
    OBVIOUS
  <2> QED
    BY <2>1, BoundsHold
<1> HIDE DEF found, b, ids
<1>4. a = [ids |-> ids, ambig |-> found.ambig, min |-> b.min, max |-> b.max]
  OBVIOUS
<1> HIDE DEF a
<1>5. a.ids = ids /\ a.min = b.min /\ a.max = b.max /\ b.min \in Nat /\ b.max \in Nat
  <2>1. a.ids = ids /\ a.min = b.min /\ a.max = b.max
    BY <1>4, Zenon
  <2>2. b.min \in Nat /\ b.max \in Nat
    BY <1>3
  <2> QED
    BY <2>1, <2>2
<1>6. a.ambig <=> found.ambig
  BY <1>4
<1>7. /\ counter \in Nat /\ counter < Forever /\ Forever \in Nat /\ Ids \subseteq MethodIds
      /\ ActiveIn(w) \subseteq Inserted /\ Inserted \subseteq Ids
  BY TableIs, TableFinite
<1>8. a \in SiteAnswers
  <2>1. ids \in SUBSET MethodIds
    BY <1>2, <1>7
  <2> QED
    BY <1>2, <1>3, <1>4, <1>5, <2>1 DEF SiteAnswers
<1>9. \A i : i \in Met(query, TRUE) <=> i \in Inserted /\ ~ Disjoint(query, methods[i].sig)
  BY DEF Met
<1>10. ASSUME NEW v \in b.min..b.max
       PROVE  \A t \in query : Selected(t, v) = Selected(t, w)
  <2> SUFFICES ASSUME NEW t \in query PROVE Selected(t, v) = Selected(t, w)
    OBVIOUS
  <2>1. ASSUME NEW i \in Inserted, t \in methods[i].sig
        PROVE  i \in ActiveIn(v) <=> i \in ActiveIn(w)
    <3>1. i \in Met(query, TRUE)
      BY <1>9, <2>1 DEF Disjoint
    <3> QED
      BY <1>3, <1>10, <3>1
  <2> QED
    BY <2>1, SelectedSame
<1>11. ASSUME NEW t \in query, Selected(t, w) = {}, ~ found.ambig
       PROVE  Applicable(t, w) = {}
  BY <1>2, <1>11
<1>12. ASSUME NEW v \in b.min..b.max, v \in (0..counter) \ rewritten PROVE AnswerHolds(Site[g], a, v)
  <2>1. ASSUME NEW t \in query
        PROVE  IF Selected(t, v) # {} THEN Selected(t, v) \subseteq a.ids
                                      ELSE a.ambig \/ ~ FullMatch(Site[g], a)
    <3>1. Selected(t, v) = Selected(t, w)
      BY <1>10, <1>12
    <3>2. Selected(t, v) # {} => Selected(t, v) \subseteq ids
      BY <1>2, <1>12, <3>1, SelectedOne
    <3>3. ASSUME Selected(t, w) = {}, ~ a.ambig, FullMatch(Site[g], a) PROVE FALSE
      <4>1. Applicable(t, w) = {}
        BY <1>6, <1>11, <3>3
      <4>2. PICK i \in ids : query \subseteq methods[i].sig
        BY <1>5, <3>3 DEF FullMatch
      <4>3. i \in Applicable(t, w)
        BY <1>2, <4>2 DEF Applicable
      <4> QED
        BY <4>1, <4>3
    <3> QED
      BY <1>5, <3>1, <3>2, <3>3
  <2> QED
    BY <2>1 DEF AnswerHolds
<1>13. \A v \in a.min..Lesser(a.max, counter) : v \in b.min..b.max /\ v \in 0..counter
  BY <1>3, <1>5, <1>7 DEF Lesser
<1>14. ASSUME a.max = Forever PROVE a.ids \subseteq ActiveIn(counter)
  <2> SUFFICES ASSUME NEW i \in ids PROVE i \in ActiveIn(counter)
    BY <1>5
  <2>1. i \in Met(query, TRUE)
    BY <1>2, <1>7, <1>9
  <2>2. counter \in b.min..b.max
    BY <1>3, <1>5, <1>7, <1>14
  <2> QED
    BY <1>2, <1>3, <2>1, <2>2
<1>15. ASSUME ~ a.ambig, NEW t, query = {t}, NEW i \in ids PROVE i \in Selected(t, w)
  <2>1. t \in query /\ Cardinality(query) = 1
    BY <1>15, FS_Singleton
  <2>2. i \in Applicable(t, w)
    BY <1>2, <1>15 DEF Applicable, Disjoint
  <2>3. Selected(t, w) # {}
    BY <1>2, <1>6, <1>15, <2>1, <2>2
  <2>4. PICK j \in ids : j \in Selected(t, w)
    BY <1>2, <2>1, <2>3
  <2>5. j = i
    BY <1>2, <2>1
  <2> QED
    BY <2>4, <2>5
<1>16. a.ids \subseteq Ids /\ a.min <= counter /\ (a.max = Forever \/ a.max < Settled)
  BY <1>2, <1>3, <1>5, <1>7
<1> QED
  BY <1>5, <1>8, <1>12, <1>13, <1>14, <1>15, <1>16 DEF AnswerRight, a, b, ids, found

\* For invoke: the method of the whole signature it names.
LEMMA InvokeRight ==
  ASSUME DispatchRight, TableType, TableInv, NEW g \in Callers, Site[g].kind = "invoke",
         NEW w \in 0..counter, NEW query \in {Site[g].sig}, Supremum(query, w) # Nothing,
         Len(Supremum(query, w).matches) = 1
  PROVE  AnswerRight(g, w,
           [ids |-> {MethodOf(Supremum(query, w).matches[1], w)}, ambig |-> FALSE,
            min |-> Bounds(query, w, FALSE).min, max |-> Bounds(query, w, FALSE).max])
<1> DEFINE i == MethodOf(Supremum(query, w).matches[1], w)
           b == Bounds(query, w, FALSE)
           a == [ids |-> {i}, ambig |-> FALSE, min |-> b.min, max |-> b.max]
<1>1. query \in (SUBSET Types) \ {{}}
  BY SitesAre
<1>2. /\ i \in ActiveIn(w) /\ query \subseteq methods[i].sig
      /\ \A j \in ActiveIn(w) : query \subseteq methods[j].sig => methods[i].sig \subseteq methods[j].sig
  BY <1>1, SupremumSelects
<1>3. /\ b \in [min : Nat, max : Nat]
      /\ b.min <= w /\ w <= b.max
      /\ b.max = Forever \/ b.max < Settled
      /\ \A v \in b.min..b.max : \A j \in Met(query, FALSE) : j \in ActiveIn(v) <=> j \in ActiveIn(w)
  <2>1. FALSE \in BOOLEAN
    OBVIOUS
  <2> QED
    BY <2>1, BoundsHold
<1> HIDE DEF i, b
<1>4. a = [ids |-> {i}, ambig |-> FALSE, min |-> b.min, max |-> b.max]
  OBVIOUS
<1> HIDE DEF a
<1>5. a.ids = {i} /\ a.min = b.min /\ a.max = b.max /\ b.min \in Nat /\ b.max \in Nat
  <2>1. a.ids = {i} /\ a.min = b.min /\ a.max = b.max
    BY <1>4, Zenon
  <2>2. b.min \in Nat /\ b.max \in Nat
    BY <1>3
  <2> QED
    BY <2>1, <2>2
<1>6. /\ counter \in Nat /\ counter < Forever /\ Forever \in Nat /\ Ids \subseteq MethodIds
      /\ Inserted \subseteq Ids /\ \A v : ActiveIn(v) \subseteq Inserted
  BY TableIs, TableFinite
<1>7. a \in SiteAnswers
  <2>1. {i} \in SUBSET MethodIds
    BY <1>2, <1>6
  <2> QED
    BY <1>4, <1>5, <2>1 DEF SiteAnswers
<1>8. \A j : j \in Met(query, FALSE) <=> j \in Inserted /\ query \subseteq methods[j].sig
  BY DEF Met
<1>9. ASSUME NEW v \in b.min..b.max PROVE AnswerHolds(Site[g], a, v) /\ i \in ActiveIn(v)
  <2>1. i \in ActiveIn(v)
    BY <1>2, <1>3, <1>6, <1>8
  <2>2. \A j \in ActiveIn(v) : query \subseteq methods[j].sig => methods[i].sig \subseteq methods[j].sig
    BY <1>2, <1>3, <1>6, <1>8
  <2>3. \E k \in a.ids :
           /\ k \in ActiveIn(v) /\ query \subseteq methods[k].sig
           /\ \A j \in ActiveIn(v) : query \subseteq methods[j].sig
                                     => methods[k].sig \subseteq methods[j].sig
    BY <1>2, <1>5, <2>1, <2>2
  <2> QED
    BY <2>1, <2>3 DEF AnswerHolds
<1>10. \A v \in a.min..Lesser(a.max, counter) : v \in b.min..b.max
  BY <1>3, <1>5, <1>6 DEF Lesser
<1>11. ASSUME a.max = Forever PROVE a.ids \subseteq ActiveIn(counter)
  <2>1. counter \in b.min..b.max
    BY <1>3, <1>5, <1>6, <1>11
  <2> QED
    BY <1>5, <1>9, <2>1
<1>12. a.ids \subseteq Ids /\ a.min <= counter /\ (a.max = Forever \/ a.max < Settled)
  BY <1>2, <1>3, <1>5, <1>6
<1> QED
  BY <1>7, <1>9, <1>10, <1>11, <1>12 DEF AnswerRight, a, b, i

LEMMA AnswersRight ==
  ASSUME DispatchRight, TableType, TableInv, CacheType, CacheInv, NEW g \in Callers,
         NEW w \in 0..counter, NEW a \in Answers(Site[g], w)
  PROVE  AnswerRight(g, w, a)
<1> DEFINE site == Site[g]
           found == IF site.kind = "invoke" THEN InvokeAnswer(site.sig, w) ELSE SiteAnswer(site.types, w)
<1>1. a \in found \/ a = Unknown
  BY DEF Answers, OrUnknown
<1>2. CASE a = Unknown
  BY <1>2, UnknownRight
<1>3. CASE a \in InvokeAnswer(site.sig, w) /\ site.kind = "invoke"
  <2> DEFINE best == Supremum(site.sig, w)
             is == [ids |-> {MethodOf(best.matches[1], w)}, ambig |-> FALSE,
                    min |-> Bounds(site.sig, w, FALSE).min, max |-> Bounds(site.sig, w, FALSE).max]
  <2> HIDE DEF best, is
  <2>1. best # Nothing /\ Len(best.matches) = 1 /\ a = is
    BY <1>3 DEF InvokeAnswer, best, is
  <2> QED
    BY <1>3, <2>1, InvokeRight DEF best, is
<1>4. CASE a \in SiteAnswer(site.types, w) /\ site.kind # "invoke"
  <2>1. site.kind = "call" /\ IsFiniteSet(site.types)
    <3>1. site.types \in SUBSET Types
      BY SitesAre
    <3>2. IsFiniteSet(site.types)
      BY <3>1, SignaturesAre, FS_Subset
    <3> QED
      BY <1>4, <3>2, SitesAre
  <2> DEFINE hits == IF Cardinality(site.types) = 1 THEN UNION {Hits(t, w) : t \in site.types} ELSE {}
             all == SomeMatches(site.types, w)
             is == [ids |-> {MethodOf(sig, w) : sig \in ToSet(all.matches)}, ambig |-> all.ambig,
                    min |-> Bounds(site.types, w, TRUE).min, max |-> Bounds(site.types, w, TRUE).max]
             hit(e) == [ids |-> {e.mi[1]}, ambig |-> FALSE, min |-> e.min, max |-> e.max]
  <2>2. \/ \E e \in hits : a = hit(e)
        \/ all # Nothing /\ a = is
    BY <1>4 DEF SiteAnswer
  <2>3. ASSUME NEW e \in hits, a = hit(e) PROVE AnswerRight(g, w, a)
    <3>1. PICK t \in site.types : Cardinality(site.types) = 1 /\ e \in Hits(t, w)
      BY <2>3
    <3>2. site.types = {t}
      BY <2>1, <3>1, FS_Singleton
    <3> QED
      BY <2>1, <2>3, <3>1, <3>2, HitRight
  <2>4. CASE all # Nothing /\ a = is
    BY <2>1, <2>4, FoundRight
  <2> HIDE DEF hits, all, is, hit
  <2> QED
    BY <2>2, <2>3, <2>4
<1> QED
  BY <1>1, <1>2, <1>3, <1>4

\* The bounds of a result, over what g calls.
LEMMA HighestOf ==
  ASSUME NEW S, IsFiniteSet(S), NEW f \in [S -> Nat], NEW x \in Nat
  PROVE  LET m == Max({x} \union {f[h] : h \in S})
         IN  m \in Nat /\ x <= m /\ (\A h \in S : f[h] <= m) /\ (m = x \/ \E h \in S : m = f[h])
<1> DEFINE all == {f[h] : h \in S}
           set == {x} \union all
<1>1. IsFiniteSet(all)
  BY ImageFinite
<1>2. IsFiniteSet(set)
  <2> HIDE DEF all
  <2>1. IsFiniteSet({x})
    BY FS_Singleton
  <2> QED
    BY <1>1, <2>1, FS_Union
<1>3. set # {} /\ set \subseteq Nat /\ Nat \subseteq Int
  OBVIOUS
<1>4. Max(set) \in set /\ \A y \in set : y <= Max(set)
  <2> HIDE DEF set
  <2>1. set \subseteq Int
    BY <1>3
  <2> QED
    BY <1>2, <1>3, <2>1, MaxIs
<1> DEFINE m == Max(set)
<1> HIDE DEF m
<1>5. m \in set /\ \A y \in set : y <= m
  BY <1>4 DEF m
<1>6. m \in Nat /\ x <= m /\ (\A h \in S : f[h] <= m) /\ (m = x \/ \E h \in S : m = f[h])
  BY <1>5
<1> QED
  BY <1>6 DEF m

LEMMA LowestOf ==
  ASSUME NEW S, IsFiniteSet(S), NEW f \in [S -> Nat], NEW x \in Nat, NEW z \in Nat, NEW set,
         \A y : y \in set <=> y = x \/ y = z \/ \E h \in S : y = f[h]
  PROVE  set \subseteq Nat /\ Min(set) \in set /\ \A y \in set : Min(set) <= y
<1> DEFINE all == {f[h] : h \in S}
<1>1. IsFiniteSet(all)
  BY ImageFinite
<1>2. IsFiniteSet(set)
  <2>1. IsFiniteSet({x}) /\ IsFiniteSet({z})
    BY FS_Singleton
  <2>2. IsFiniteSet({x} \union {z})
    BY <2>1, FS_Union
  <2>3. set = ({x} \union {z}) \union all
    OBVIOUS
  <2> HIDE DEF all
  <2> QED
    BY <1>1, <2>2, <2>3, FS_Union
<1>3. set # {} /\ set \subseteq Nat /\ Nat \subseteq Int
  OBVIOUS
<1>4. Min(set) \in set /\ \A y \in set : Min(set) <= y
  <2>1. set \subseteq Int
    BY <1>3
  <2> QED
    BY <1>2, <1>3, <2>1, MinIs
<1> QED
  BY <1>3, <1>4

\* The edges of an inference: to what it takes from its call, and to what it calls.
LEMMA AllEdgesAre ==
  ASSUME NEW g, NEW used, NEW called
  PROVE  /\ \A e : e \in AllEdges(g, used, called) <=>
                    e \in CallEdges(g, called) \/ \E x \in used : e \in EdgesOf(g, x)
         /\ \A m : m \in AllMissing(g, used) <=> \E x \in used : m \in MissingOf(g, x)
<1>1. ASSUME NEW e
      PROVE  e \in AllEdges(g, used, called) <=>
               e \in CallEdges(g, called) \/ \E x \in used : e \in EdgesOf(g, x)
  <2>1. e \in SiteEdges(g, used) <=> \E x \in used : e \in EdgesOf(g, x)
    BY Zenon DEF SiteEdges
  <2> QED
    BY <2>1 DEF AllEdges
<1>2. ASSUME NEW m
      PROVE  m \in AllMissing(g, used) <=> \E x \in used : m \in MissingOf(g, x)
  BY Zenon DEF AllMissing
<1> QED
  BY <1>1, <1>2

\* What is stored for a call is an edge.
LEMMA EdgesType ==
  ASSUME TableType, NEW g \in Callers, NEW a, a.ids \subseteq Ids
  PROVE  /\ EdgesOf(g, a) \subseteq Edges /\ MissingOf(g, a) \subseteq Missings
         /\ \A called \in SUBSET Callees[g] : CallEdges(g, called) \subseteq Edges
<1>1. /\ Ids \subseteq MethodIds /\ Site[g].types \in SUBSET Types /\ Site[g].sig \in SUBSET Types
      /\ Callees[g] \subseteq Callers
  BY TableIs, SitesAre
<1>2. \A i \in a.ids : Instance(i, Site[g].types \intersect methods[i].sig) \in Instances
  BY <1>1 DEF Instance, Instances
<1>3. (IF Site[g].kind = "invoke" THEN Site[g].sig ELSE None) \in (SUBSET Types) \cup {None}
  BY <1>1
<1>4. ASSUME NEW e \in EdgesOf(g, a) PROVE e \in Edges
  <2> DEFINE v == IF Site[g].kind = "invoke" THEN Site[g].sig ELSE None
             named(i) == [callee |-> Instance(i, Site[g].types \intersect methods[i].sig),
                          invoke |-> v, caller |-> g]
  <2>1. \E i \in a.ids : e = named(i)
    BY DEF EdgesOf
  <2>2. v \in (SUBSET Types) \cup {None}
    BY <1>3
  <2> HIDE DEF v
  <2>3. \A i \in a.ids : named(i) \in Edges
    BY <1>2, <2>2 DEF Edges
  <2> HIDE DEF named
  <2> QED
    BY <2>1, <2>3
<1>5. MissingOf(g, a) \subseteq Missings
  BY <1>1 DEF MissingOf, Missings
<1>6. ASSUME NEW called \in SUBSET Callees[g] PROVE CallEdges(g, called) \subseteq Edges
  BY <1>1 DEF CallEdges, Edges
<1> QED
  BY <1>4, <1>5, <1>6

\* The worlds of a result: those in which all of it is valid, and no later one
\* than the present.
LEMMA StartLimits ==
  ASSUME TableType, CodeType, CodeInv, NEW g \in Callers, NEW w, NEW a, AnswerRight(g, w, a),
         NEW from \in [Callees[g] -> code], NEW used, NEW called
  PROVE  LET s == Inferred(g, w, a, from, used, called)
         IN  /\ s.min \in Nat /\ s.max \in Nat
             /\ s.min <= counter /\ s.max <= counter
             /\ a.min <= s.min /\ s.max <= a.max
             /\ \A h \in Callees[g] : from[h].min <= s.min /\ s.max <= from[h].max
             /\ s.max = counter \/ s.max < Settled
<1> DEFINE C == Callees[g]
           lows == [h \in C |-> from[h].min]
           highs == [h \in C |-> from[h].max]
           low == Max({a.min} \union {from[h].min : h \in C})
           high == Min({a.max, counter} \union {from[h].max : h \in C})
<1>1. IsFiniteSet(C)
  BY SitesAre
<1>2. \A h \in C : /\ from[h] \in code
                   /\ from[h].min \in Nat /\ from[h].max \in Nat
                   /\ from[h].min <= counter /\ (from[h].max = Forever \/ from[h].max < Settled)
  BY DEF CodeType, CodeInv
<1>3. /\ a.min \in Nat /\ a.max \in Nat
      /\ a.min <= counter /\ (a.max = Forever \/ a.max < Settled)
  BY DEF AnswerRight, SiteAnswers
<1>4. counter \in Nat /\ counter < Forever /\ Forever \in Nat
  BY TableIs
<1>5. lows \in [C -> Nat] /\ highs \in [C -> Nat]
  BY <1>2
<1>6. {lows[h] : h \in C} = {from[h].min : h \in C} /\ {highs[h] : h \in C} = {from[h].max : h \in C}
  OBVIOUS
<1>7. /\ \A h \in C : lows[h] = from[h].min /\ highs[h] = from[h].max
      /\ low = Max({a.min} \union {lows[h] : h \in C})
      /\ high = Min({a.max, counter} \union {highs[h] : h \in C})
  BY <1>6
<1>8. /\ Inferred(g, w, a, from, used, called).min = low
      /\ Inferred(g, w, a, from, used, called).max = high
  BY DEF Inferred
<1> HIDE DEF C, lows, highs, low, high
<1>9. low \in Nat /\ a.min <= low /\ (\A h \in C : lows[h] <= low) /\ (low = a.min \/ \E h \in C : low = lows[h])
  <2> DEFINE m == Max({a.min} \union {lows[h] : h \in C})
  <2>1. m \in Nat /\ a.min <= m /\ (\A h \in C : lows[h] <= m) /\ (m = a.min \/ \E h \in C : m = lows[h])
    BY <1>1, <1>3, <1>5, HighestOf
  <2>2. low = m
    BY <1>7
  <2> HIDE DEF m
  <2> QED
    BY <2>1, <2>2
<1>10. /\ high \in Nat /\ high <= a.max /\ high <= counter /\ \A h \in C : high <= highs[h]
       /\ high = a.max \/ high = counter \/ \E h \in C : high = highs[h]
  <2> DEFINE set == {a.max, counter} \union {highs[h] : h \in C}
             m == Min(set)
  <2>3. \A y : y \in set <=> y = a.max \/ y = counter \/ \E h \in C : y = highs[h]
    OBVIOUS
  <2>4. high = m
    BY <1>7
  <2> HIDE DEF set
  <2>1. /\ m \in Nat /\ m <= a.max /\ m <= counter /\ \A h \in C : m <= highs[h]
        /\ m = a.max \/ m = counter \/ \E h \in C : m = highs[h]
    <3>1. a.max \in Nat /\ counter \in Nat
      BY <1>3, <1>4
    <3>2. set \subseteq Nat /\ Min(set) \in set /\ \A y \in set : Min(set) <= y
      BY <1>1, <1>5, <2>3, <3>1, LowestOf
    <3> HIDE DEF m
    <3>3. m \in set /\ m \in Nat /\ \A y \in set : m <= y
      BY <3>2 DEF m
    <3> QED
      BY <2>3, <3>3
  <2> HIDE DEF m
  <2> QED
    BY <2>1, <2>4
<1>11. low <= counter
  BY <1>2, <1>3, <1>7, <1>9
<1>12. high = counter \/ high < Settled
  BY <1>2, <1>3, <1>4, <1>7, <1>10
<1>13. \A h \in C : from[h].min <= low /\ high <= from[h].max
  BY <1>7, <1>9, <1>10
<1> QED
  BY <1>8, <1>9, <1>10, <1>11, <1>12, <1>13 DEF C

\* What was taken: from the site of g, or by the code of what g calls.
LEMMA StartTaken ==
  ASSUME TableType, CodeType, CodeInv, NEW g \in Callers, NEW w, NEW a, AnswerRight(g, w, a),
         NEW from \in [Callees[g] -> code], \A h \in Callees[g] : from[h].of = h,
         NEW used \in SUBSET {a}, NEW called \in SUBSET Callees[g],
         NEW s, s = Inferred(g, w, a, from, used, called), NEW p \in s.taken
  PROVE  /\ p \in Taken /\ p.answer.ids \subseteq Ids
         /\ Holds(p, s.min, s.max)
         /\ s.max >= counter => /\ Known(p, backedges \cup s.edges, missing \cup s.missing)
                                /\ LeadsTo(p.at, g, backedges \cup s.edges)
<1>1. /\ s.min \in Nat /\ s.max \in Nat
      /\ s.min <= counter /\ s.max <= counter
      /\ a.min <= s.min /\ s.max <= a.max
      /\ \A h \in Callees[g] : from[h].min <= s.min /\ s.max <= from[h].max
  BY StartLimits
<1>2. /\ s.edges = AllEdges(g, used, called) /\ s.missing = AllMissing(g, used)
      /\ s.taken = {[at |-> g, answer |-> x] : x \in used} \union UNION {from[h].taken : h \in called}
  BY DEF Inferred
<1>3. /\ counter \in Nat /\ counter < Forever /\ Forever \in Nat /\ Settled \in Nat /\ Settled <= counter
  BY TableIs, SettledIs
<1>6. /\ a \in used => EdgesOf(g, a) \subseteq s.edges /\ MissingOf(g, a) \subseteq s.missing
      /\ CallEdges(g, called) \subseteq s.edges
  BY <1>2, AllEdgesAre
<1>4. CASE a \in used /\ p = [at |-> g, answer |-> a]
  <2>1. p.at = g /\ p.answer = a /\ p \in Taken
    BY <1>4 DEF AnswerRight, Taken
  <2>2. a.min \in Nat /\ a.max \in Nat /\ (a.max = Forever \/ a.max < Settled)
        /\ a.ids \subseteq Ids
    BY DEF AnswerRight, SiteAnswers
  <2>3. Holds(p, s.min, s.max)
    <3>1. \A v \in s.min..Lesser(s.max, counter) : v \in a.min..Lesser(a.max, counter)
      BY <1>1, <1>3, <2>2 DEF Lesser
    <3> QED
      BY <2>1, <3>1 DEF Holds, AnswerRight
  <2>4. ASSUME s.max >= counter PROVE Known(p, backedges \cup s.edges, missing \cup s.missing)
    <3>1. a.max = Forever
      BY <1>1, <1>3, <2>2, <2>4
    <3>2. a.ids \subseteq ActiveIn(counter)
      BY <3>1 DEF AnswerRight
    <3> QED
      BY <1>4, <1>6, <2>1, <3>2 DEF Known
  <2>5. LeadsTo(p.at, g, backedges \cup s.edges)
    BY <2>1 DEF LeadsTo
  <2> QED
    BY <2>1, <2>2, <2>3, <2>4, <2>5
<1>5. CASE \E h \in called : p \in from[h].taken
  <2>1. PICK h \in called : p \in from[h].taken /\ h \in Callees[g]
    BY <1>5
  <2> DEFINE c == from[h]
  <2>2. c \in code /\ p \in c.taken /\ c.of = h
    BY <2>1
  <2>3. c.min <= s.min /\ s.max <= c.max
    BY <1>1
  <2> HIDE DEF c
  <2>4. /\ c.min \in Nat /\ c.max \in Nat /\ (c.max = Forever \/ c.max < Settled)
        /\ p \in Taken /\ p.answer.ids \subseteq Ids /\ Holds(p, c.min, c.max)
        /\ c.max = Forever => Known(p, backedges, missing) /\ LeadsTo(p.at, c.of, backedges)
    BY <2>2 DEF CodeType, CodeInv
  <2>5. Holds(p, s.min, s.max)
    <3>1. \A v \in s.min..Lesser(s.max, counter) : v \in c.min..Lesser(c.max, counter)
      BY <1>1, <1>3, <2>3, <2>4 DEF Lesser
    <3> QED
      BY <2>4, <3>1 DEF Holds
  <2>6. ASSUME s.max >= counter
        PROVE  /\ Known(p, backedges \cup s.edges, missing \cup s.missing)
               /\ LeadsTo(p.at, g, backedges \cup s.edges)
    <3>1. c.max = Forever
      BY <1>1, <1>3, <2>3, <2>4, <2>6
    <3>2. Known(p, backedges, missing) /\ LeadsTo(p.at, h, backedges)
      BY <2>2, <2>4, <3>1
    <3>3. \E e \in s.edges : e.callee = h /\ e.caller = g
      <4> DEFINE e == [callee |-> h, invoke |-> None, caller |-> g]
      <4>1. e \in CallEdges(g, called) /\ e.callee = h /\ e.caller = g
        BY <2>1 DEF CallEdges
      <4> HIDE DEF e
      <4> QED
        BY <1>6, <4>1
    <3>4. LeadsTo(p.at, g, backedges \cup s.edges)
      BY <3>2, <3>3 DEF LeadsTo
    <3>5. Known(p, backedges \cup s.edges, missing \cup s.missing)
      BY <3>2 DEF Known
    <3> QED
      BY <3>4, <3>5
  <2> QED
    BY <2>4, <2>5, <2>6
<1> QED
  BY <1>2, <1>4, <1>5

LEMMA StartInferStep ==
  ASSUME DispatchRight, WorldsInv, NEW g \in Callers, NEW w \in Present, StartInfer(g, w)
  PROVE  WorldsInv'
<1>1. /\ TableType /\ TableInv /\ CacheType /\ CacheInv /\ CodeType /\ CodeInv /\ FillInv /\ InferInv
  BY DEF WorldsInv
<1>2. /\ SameTable /\ code' = code /\ backedges' = backedges /\ missing' = missing /\ cache' = cache
      /\ infer = None
  BY DEF StartInfer, SameTable, past, caching
<1>3. PICK a \in Answers(Site[g], w), from \in [Callees[g] -> code] :
        /\ \A h \in Callees[g] : from[h] \in CodeIn(h, w)
        /\ \E used \in SUBSET {a}, called \in SUBSET Callees[g] :
             infer' = Inferred(g, w, a, from, used, called)
  BY DEF StartInfer
<1>4. w \in 0..counter /\ w \in Nat
  BY <1>1, PresentIs
<1>5. AnswerRight(g, w, a)
  BY <1>1, <1>4, AnswersRight
<1>6. \A h \in Callees[g] : from[h].of = h
  BY <1>3 DEF CodeIn
<1>6a. PICK used \in SUBSET {a}, called \in SUBSET Callees[g] :
         infer' = Inferred(g, w, a, from, used, called)
  BY <1>3
<1> DEFINE s == Inferred(g, w, a, from, used, called)
<1>7. /\ s.min \in Nat /\ s.max \in Nat /\ s.min <= counter
      /\ s.max = counter \/ s.max < Settled
  BY <1>1, <1>5, StartLimits
<1>8. /\ s.of = g /\ s.step = "matched"
      /\ s.edges = AllEdges(g, used, called) /\ s.missing = AllMissing(g, used)
      /\ s.fill = IF Site[g].kind = "call" /\ Cardinality(Site[g].types) = 1 /\ ~ a.ambig
                    THEN {[id |-> i, t |-> t, world |-> w, bounds |-> Bounds({t}, w, TRUE)] :
                            i \in a.ids, t \in {u \in Site[g].types : Hits(u, w) = {}}}
                    ELSE {}
      /\ s = [of |-> s.of, step |-> s.step, taken |-> s.taken, min |-> s.min, max |-> s.max,
              edges |-> s.edges, missing |-> s.missing, fill |-> s.fill]
  BY DEF Inferred
<1>9. \A p \in s.taken :
         /\ p \in Taken /\ p.answer.ids \subseteq Ids
         /\ Holds(p, s.min, s.max)
         /\ s.max >= counter => /\ Known(p, backedges \cup s.edges, missing \cup s.missing)
                                /\ LeadsTo(p.at, g, backedges \cup s.edges)
  BY <1>1, <1>5, <1>6, StartTaken
<1> HIDE DEF s
<1>10. ASSUME NEW f \in s.fill
       PROVE  /\ f \in Fills /\ f.world \in 0..counter
              /\ f.id \in Selected(f.t, f.world)
              /\ f.bounds = Bounds({f.t}, f.world, TRUE)
  <2> DEFINE one == Site[g].kind = "call" /\ Cardinality(Site[g].types) = 1 /\ ~ a.ambig
             fill(i, t) == [id |-> i, t |-> t, world |-> w, bounds |-> Bounds({t}, w, TRUE)]
             new == {u \in Site[g].types : Hits(u, w) = {}}
             fills == {fill(i, t) : i \in a.ids, t \in new}
  <2>0. s.fill = IF one THEN fills ELSE {}
    BY <1>8
  <2> HIDE DEF one, fills
  <2>9. one /\ f \in fills
    BY <1>10, <2>0
  <2>1. Site[g].kind = "call" /\ Cardinality(Site[g].types) = 1 /\ ~ a.ambig
    BY <2>9 DEF one
  <2> HIDE DEF fill, new
  <2>11. PICK i \in a.ids, t \in new : f = fill(i, t)
    BY <2>9 DEF fills
  <2>10. t \in Site[g].types /\ Hits(t, w) = {} /\ f = fill(i, t)
    BY <2>11 DEF new
  <2>2. f = [id |-> i, t |-> t, world |-> w, bounds |-> Bounds({t}, w, TRUE)]
    BY <2>10 DEF fill
  <2>3. Site[g].types = {t} /\ t \in Types
    <3>1. Site[g].types \in SUBSET Types /\ IsFiniteSet(Types)
      BY SitesAre, SignaturesAre
    <3>2. IsFiniteSet(Site[g].types)
      BY <3>1, FS_Subset
    <3> QED
      BY <2>1, <2>10, <3>1, <3>2, FS_Singleton
  <2>4. i \in Selected(t, w) /\ i \in MethodIds
    BY <1>5, <2>1, <2>3, <2>10 DEF AnswerRight, SiteAnswers
  <2> DEFINE b == Bounds({t}, w, TRUE)
  <2>5. b \in [min : Nat, max : Nat]
    <3>1. TRUE \in BOOLEAN
      OBVIOUS
    <3> QED
      BY <1>1, <1>4, <3>1, BoundsHold
  <2>6. f.id = i /\ f.t = t /\ f.world = w /\ f.bounds = b
    BY <2>2
  <2> HIDE DEF b
  <2>7. f = [id |-> i, t |-> t, world |-> w, bounds |-> b]
    BY <2>2 DEF b
  <2>8. f \in Fills
    BY <1>4, <2>3, <2>4, <2>5, <2>7 DEF Fills
  <2> QED
    BY <1>4, <2>4, <2>6, <2>8 DEF b
<1>11. s \in Inferences
  <2>1. a.ids \subseteq Ids
    BY <1>5 DEF AnswerRight
  <2>2. s.edges \subseteq Edges /\ s.missing \subseteq Missings
    <3>1. /\ EdgesOf(g, a) \subseteq Edges /\ MissingOf(g, a) \subseteq Missings
          /\ CallEdges(g, called) \subseteq Edges
      BY <1>1, <2>1, EdgesType
    <3>2. \A x \in used : EdgesOf(g, x) \subseteq Edges /\ MissingOf(g, x) \subseteq Missings
      BY <3>1, Zenon
    <3> QED
      BY <1>8, <3>1, <3>2, AllEdgesAre
  <2>3. s.taken \subseteq Taken /\ s.fill \subseteq Fills
    BY <1>9, <1>10
  <2>4. s.of \in Callers /\ s.step \in {"matched", "storing", "stored", "checked"}
    BY <1>8
  <2>5. s = [of |-> s.of, step |-> s.step, taken |-> s.taken, min |-> s.min, max |-> s.max,
             edges |-> s.edges, missing |-> s.missing, fill |-> s.fill]
    BY <1>8
  <2> QED
    BY <1>7, <2>2, <2>3, <2>4, <2>5 DEF Inferences
<1>12. infer' = s
  BY <1>6a DEF s
<1>13. CodeType'
  BY <1>1, <1>2, <1>11, <1>12 DEF CodeType
<1>14. counter' = counter /\ Settled' = Settled /\ Ids' = Ids
  BY <1>2, TableStays DEF SameTable
<1>15. /\ \A v : ActiveIn(v)' = ActiveIn(v)
       /\ \A p, low, high : Holds(p, low, high) => Holds(p, low, high)'
       /\ \A query, v, meets : Bounds(query, v, meets)' = Bounds(query, v, meets)
       /\ \A t, v : Selected(t, v)' = Selected(t, v)
       /\ \A h, x : EdgesOf(h, x)' = EdgesOf(h, x) /\ MissingOf(h, x)' = MissingOf(h, x)
  BY <1>2, MeaningStays
<1>16. FillInv'
  <2> SUFFICES ASSUME NEW f \in infer'.fill
               PROVE  /\ f.world \in 0..counter'
                      /\ f.id \in Selected(f.t, f.world)'
                      /\ f.bounds = Bounds({f.t}, f.world, TRUE)'
    BY DEF FillInv
  <2> QED
    BY <1>10, <1>12, <1>14, <1>15
<1>17. InferInv'
  <2>1. ActiveIn(counter)' = ActiveIn(counter)
    BY <1>2, <1>14 DEF SameTable, ActiveIn, Active, Within, Ids
  <2>2. \A p : Known(p, backedges \cup s.edges, missing \cup s.missing)
               => Known(p, backedges \cup infer.edges, missing \cup infer.missing)'
    BY <1>2, <1>12, <1>15, <2>1 DEF Known
  <2>3. \A p : LeadsTo(p.at, g, backedges \cup s.edges)
               => LeadsTo(p.at, infer.of, backedges \cup infer.edges)'
    BY <1>2, <1>8, <1>12 DEF LeadsTo
  <2>4. \A p : Holds(p, s.min, s.max) => Holds(p, infer.min, infer.max)'
    <3>1. ASSUME NEW p, NEW low, NEW high, low = s.min, high = s.max, Holds(p, s.min, s.max)
          PROVE  Holds(p, infer.min, infer.max)'
      <4>1. Holds(p, low, high)
        BY <3>1
      <4>2. Holds(p, low, high)'
        BY <1>15, <4>1
      <4> QED
        BY <1>12, <3>1, <4>2 DEF Holds
    <3> QED
      BY <3>1
  <2>5. infer'.step = "matched" /\ infer'.min = s.min /\ infer'.max = s.max /\ infer'.taken = s.taken
    BY <1>8, <1>12
  <2> QED
    BY <1>7, <1>9, <1>14, <2>2, <2>3, <2>4, <2>5 DEF InferInv
<1> QED
  BY <1>1, <1>2, <1>13, <1>16, <1>17, TableStays, CacheStays, CodeStays DEF WorldsInv

-----------------------------------------------------------------------------
(* The specification.                                                       *)

\* The invariant holds of an empty table, and every step keeps it.
LEMMA WorldsInit ==
  ASSUME Init
  PROVE  WorldsInv
<1>1. /\ counter = 1 /\ deletes = 0 /\ methods = <<>> /\ cache = {} /\ code = {}
      /\ backedges = {} /\ missing = {} /\ infer = None /\ rewritten = {}
  BY DEF Init
<1>2. Ids = {} /\ Len(methods) = 0 /\ methods \in Seq(Method)
  BY <1>1 DEF Ids
<1>3. TableType
  BY <1>1, <1>2, BoundsAre DEF TableType
<1>4. TableInv
  BY <1>1, <1>2 DEF TableInv, Inserted, Pending, ActiveIn
<1>5. CacheType /\ CacheInv /\ CodeType /\ CodeInv /\ FillInv /\ InferInv
  BY <1>1 DEF CacheType, CacheInv, CodeType, CodeInv, FillInv, InferInv
<1> QED
  BY <1>3, <1>4, <1>5 DEF WorldsInv

LEMMA WorldsNext ==
  ASSUME DispatchRight, ~ Overlap, WorldsInv, [Next]_vars
  PROVE  WorldsInv'
<1>1. CASE \E sig \in Signatures : StartDefine(sig)
  BY <1>1, DefineStep
<1>2. CASE \E i \in Ids : Insert(i) \/ Delete(i)
  BY <1>2, InsertStep, DeleteStep, RepeatStep
<1>3. CASE \E t \in Types, w \in Present : Lookup(t, w)
  BY <1>3, LookupStep
<1>4. CASE \E g \in Callers, w \in Present : StartInfer(g, w)
  BY <1>4, StartInferStep
<1>5. CASE FillCache
  BY <1>5, FillCacheStep
<1>6. CASE StartStoring
  BY <1>6, StartStoringStep
<1>7. CASE StoreEdge
  BY <1>7, StoreEdgeStep
<1>8. CASE CheckWorld
  BY <1>8, CheckWorldStep
<1>9. CASE CacheResult
  BY <1>9, CacheResultStep
<1>10. CASE UNCHANGED vars
  BY <1>10, SameStep
<1> QED
  BY <1>1, <1>2, <1>3, <1>4, <1>5, <1>6, <1>7, <1>8, <1>9, <1>10 DEF Next

LEMMA WorldsAgree ==
  ASSUME WorldsInv
  PROVE  CachesAgree /\ CodeIsCurrent
<1>1. CachesAgree
  BY DEF WorldsInv, CacheInv, EntryRight, CachesAgree
<1>2. CodeIsCurrent
  BY DEF WorldsInv, CodeInv, Holds, CodeIsCurrent, For
<1> QED
  BY <1>1, <1>2

\* Where ml_matches answers right, and a definition is not made between the
\* steps of an inference: every entry of the method caches (cache_method,
\* jl_method_table_insert, jl_method_table_invalidate in gf.c) gives, in every
\* world it is for and for every argument it answers, the one method that the
\* table selects in that world; but for worlds that a method was put back into by
\* a deletion after it had ended (jl_method_table_disable).
THEOREM CachesAgreeInvariant ==
  ASSUME DispatchRight, ~ Overlap
  PROVE  Spec => []CachesAgree
<1>1. Init => WorldsInv
  BY WorldsInit
<1>2. WorldsInv /\ [Next]_vars => WorldsInv'
  BY WorldsNext
<1>3. WorldsInv => CachesAgree
  BY WorldsAgree
<1> QED
  BY <1>1, <1>2, <1>3, PTL DEF Spec

\* Under the same conditions, in every world that inferred code claims to be
\* valid in, a call in it reaches only a method that inference took into account
\* (invalidate_backedges and the edges of store_backedges, gf.c and typeinfer.jl),
\* unless a deletion has resolved an ambiguity, or has put back a method into
\* that world that had ended.
THEOREM CodeIsCurrentInvariant ==
  ASSUME DispatchRight, ~ Overlap
  PROVE  Spec => []CodeIsCurrent
<1>1. Init => WorldsInv
  BY WorldsInit
<1>2. WorldsInv /\ [Next]_vars => WorldsInv'
  BY WorldsNext
<1>3. WorldsInv => CodeIsCurrent
  BY WorldsAgree
<1> QED
  BY <1>1, <1>2, <1>3, PTL DEF Spec
====
