-------------------------- MODULE MethodWorlds --------------------------
(* World ages: a method table that is changed while code runs in older worlds,   *)
(* the caches in front of it and the code that was inferred from it              *)
(* (src/julia-1.10.5/src/gf.c, base/compiler/typeinfer.jl).                      *)
(*                                                                               *)
(* One generic function.  methods is its table, in the order of insertion, with  *)
(* the method whose world is taken but that is not in the table yet; cache holds *)
(* the entries of mt->cache and mt->leafcache; code the code instances of the    *)
(* callers, each with what inference took from its call site; backedges and      *)
(* missing (mt->backedges) the reverse edges that find them again.  A method     *)
(* instance of the function is a pair <<method, types>>; one without an edge or  *)
(* an entry changes nothing and is not kept.  The code of the function's own     *)
(* methods calls nothing.                                                        *)
EXTENDS MethodOrder

CONSTANTS
  Signatures,     \* what may be defined: sets of concrete argument types
  Wide,           \* the signatures that are compiled as they are declared
  Callers,        \* the callers, one instance each
  Site,           \* Site[g]: [kind, types, sig] of the call to the function in g
  Callees,        \* Callees[g]: the callers that g calls itself
  Vague,          \* the callers of whose code, or of whose call site, anything may come
  MaxMethods,     \* bound: definitions
  MaxDeletes,     \* bound: deletions
  MaxEntries,     \* bound: entries of the caches
  MaxCode,        \* bound: code instances
  Lag,            \* bound: how many worlds behind a task may be
  Overlap,        \* may a definition come between the steps of an inference, or another one?
  None,
  ml_matches(_, _, _, _, _, _)    \* the answer of a table: see MethodMatching

Forever == 100                  \* ~(size_t)0
MaxMatches == 3                 \* max_methods of inference
MaxConflicts == 32              \* MAX_UNSPECIALIZED_CONFLICTS

Types == UNION Signatures

(* What is taken of ml_matches, in the ways it is asked here: it answers right.  *)
Tables == {order \in UNION {[1..n -> Signatures] : n \in 0..MaxMethods} : IsInjective(order)}
DispatchRight ==
  \A order \in Tables : \A query \in (SUBSET Types) \ {{}} :
    /\ LET answer == ml_matches(order, query, MaxMatches, FALSE, TRUE, TRUE)
       IN  answer = Nothing \/ RightMatches(order, query, FALSE, answer)
    /\ LET answer == ml_matches(order, query, MaxConflicts, TRUE, TRUE, FALSE)
       IN  answer = Nothing \/ RightMatches(order, query, TRUE, answer)
    /\ RightSupremum(order, query, ml_matches(order, query, 1, FALSE, FALSE, FALSE))

(* A task calls with types that its table knows, invoke with less than it names; *)
(* the counter does not come to its end.                                         *)
ASSUME MethodsAssumption ==
  /\ IsFiniteSet(Types) /\ {} \notin Signatures
  /\ IsFiniteSet(Callers) /\ Callees \in [Callers -> SUBSET Callers]
  /\ \A g \in Callers :
       /\ Site[g].kind \in {"call", "invoke"}
       /\ Site[g].types \in (SUBSET Types) \ {{}} /\ Site[g].sig \in SUBSET Types
       /\ Site[g].sig # None /\ Site[g].types \subseteq Site[g].sig
  /\ Callers \intersect ((1..MaxMethods) \X SUBSET Types) = {}
  /\ MaxMethods \in Nat /\ MaxDeletes \in Nat /\ Lag \in Nat
  /\ 1 + MaxMethods + MaxDeletes < Forever

VARIABLES counter, methods, deletes, cache, withOrig, code, backedges, missing, infer,
          resolved,    \* history: a deletion has taken an ambiguity from the table
          rewritten    \* history: the worlds a method was put back into after it had ended
vars == <<counter, methods, deletes, cache, withOrig, code, backedges, missing, infer,
          resolved, rewritten>>
past == <<resolved, rewritten>>
caching == <<cache, withOrig>>
inferring == <<code, backedges, missing, infer>>

Lesser(x, y) == IF x < y THEN x ELSE y
Greater(x, y) == IF x > y THEN x ELSE y
Within(r, w) == r.min <= w /\ w <= r.max
\* ------------------------------------------------ the table, seen from a world
Ids == DOMAIN methods
Active(i, w) == methods[i].inserted /\ Within(methods[i], w)
Inserted == {i \in Ids : methods[i].inserted}
Pending == Ids \ Inserted
ActiveIn(w) == {i \in Ids : Active(i, w)}
Order(w) == SetToSeq({methods[i].sig : i \in ActiveIn(w)})
MethodOf(sig, w) == CHOOSE i \in ActiveIn(w) : methods[i].sig = sig

(* The three questions to it: for the method of a whole signature, for all that  *)
(* may be called, ambiguous ones too, and for as many as inference follows.      *)
Supremum(query, w) == ml_matches(Order(w), query, 1, FALSE, FALSE, FALSE)
Candidates(query, w) == ml_matches(Order(w), query, MaxConflicts, TRUE, TRUE, FALSE)
SomeMatches(query, w) == ml_matches(Order(w), query, MaxMatches, FALSE, TRUE, TRUE)

(* What a call with a concrete argument reaches in world w: the reference.       *)
Applicable(t, w) == {i \in ActiveIn(w) : t \in methods[i].sig}
Selected(t, w) ==
  LET taking == Applicable(t, w)
  IN  {i \in taking : \A j \in taking : methods[i].sig \subseteq methods[j].sig}

(* ml_matches_visitor: the worlds in which the answer for w stays what it is.    *)
Met(query, intersections) ==
  {i \in Inserted : IF intersections THEN ~ Disjoint(query, methods[i].sig)
                    ELSE query \subseteq methods[i].sig}
Bounds(query, w, intersections) ==
  LET met == Met(query, intersections)
      before == {methods[i].max + 1 : i \in {j \in met : methods[j].max < w}}
                  \union {methods[i].min : i \in met \intersect ActiveIn(w)}
      after == {methods[i].min - 1 : i \in {j \in met : w < methods[j].min}}
                 \union {methods[i].max : i \in met \intersect ActiveIn(w)}
  IN  [min |-> Max(before \union {0}), max |-> Min(after \union {Forever})]

\* -------------------------------------------------------------- the caches
Hits(t, w) == {e \in cache : /\ Within(e, w) /\ t \in e.sig
                             /\ \A s \in e.guards : t \notin s}
Instance(i, types) == <<i, types>>

(* jl_compilation_sig: the signature an instance is compiled for.                *)
CompilationSig(i, t) == IF methods[i].sig \in Wide THEN methods[i].sig ELSE {t}

(* cache_method: the entry for method i, found for t in world w with the bounds  *)
(* b.  Where the instance is compiled for more than t, the entry is for that     *)
(* too, with a guard for each other method in there, unless the guards cannot be *)
(* expressed (bail): then the instance is marked to be cached with t only.       *)
Entry(i, t, w, b, bail, csig, all) ==
  LET mi == Instance(i, csig)
      others == IF all = Nothing THEN {}
                ELSE {csig \intersect s : s \in ToSet(all.matches) \ {methods[i].sig}}
      narrow == csig = {t} \/ mi \in withOrig \/ all = Nothing \/ (bail /\ others # {})
      wb == Bounds(csig, w, TRUE)
  IN  IF narrow
        THEN [entry |-> [sig |-> {t}, guards |-> {}, mi |-> mi, leaf |-> TRUE,
                         min |-> b.min, max |-> b.max],
              orig |-> IF csig = {t} THEN {} ELSE {mi}]
        ELSE [entry |-> [sig |-> csig, guards |-> others, mi |-> mi, leaf |-> FALSE,
                         min |-> wb.min, max |-> wb.max],
              orig |-> {}]
Filled(i, t, w, b, csig) ==
  {Entry(i, t, w, b, bail, csig, Candidates(csig, w)) :
     bail \in BOOLEAN}

CacheMethod(i, t, w, b) ==
  \E f \in Filled(i, t, w, b, CompilationSig(i, t)) :
    LET known == Hits(t, w) # {} \/ \E e \in cache :
                    Within(e, w) /\ e.sig = f.entry.sig /\ e.guards = f.entry.guards
    IN  /\ cache' = IF known THEN cache ELSE cache \union {f.entry}
        /\ withOrig' = IF Hits(t, w) # {} THEN withOrig ELSE withOrig \union f.orig

Alone == Overlap \/ infer = None

(* jl_lookup_generic_ / jl_mt_assoc_by_type: a call with t in world w that no    *)
(* cache answers looks in the table and fills the cache, under the table's lock. *)
Lookup(t, w) ==
  /\ Alone
  /\ Cardinality(cache) < MaxEntries
  /\ Hits(t, w) = {}
  /\ \E found \in {Supremum({t}, w)} \ {Nothing} :
       /\ Len(found.matches) = 1
       /\ CacheMethod(MethodOf(found.matches[1], w), t, w, Bounds({t}, w, FALSE))
  /\ UNCHANGED <<counter, methods, deletes, past>>
  /\ UNCHANGED inferring

\* ------------------------------------------------------------ invalidation
(* invalidate_method_instance: the instances in from, and whoever has an edge to *)
(* one of them, end with world w, and their reverse edges are given up.          *)
CallersOf(set) == {e.caller : e \in {e2 \in backedges : e2.callee \in set}}
ReachedDirect(from) == from   \* no recursion
Reached(from) ==
  {g \in Callers : \A set \in SUBSET Callers : from \union CallersOf(set) \subseteq set => g \in set}

Cut(set, w) == {IF x.max = Forever /\ x \in set THEN [x EXCEPT !.max = w] ELSE x : x \in cache}

(* All that a change does to code: edges go, and what they lead to ends.         *)
Invalidate(callers, edges, w) ==
  LET gone == Reached(callers)
  IN  /\ code' = {IF c.of \in gone /\ c.max = Forever THEN [c EXCEPT !.max = w] ELSE c : c \in code}
      /\ backedges' = {e \in backedges \ edges : e.callee \notin gone}

(* jl_method_table_invalidate: method i ends with world w.  Its entries end, all *)
(* of the leaf cache ends, and whoever has an edge to an instance of it.         *)
InvalidateMethod(i, w) ==
  LET edges == {e \in backedges : e.callee \notin Callers /\ e.callee[1] = i}
  IN  /\ Invalidate({e.caller : e \in edges}, edges, w)
      /\ cache' = Cut({e \in cache : e.leaf \/ e.mi[1] = i}, w)

\* --------------------------------------------------- what a new method changes
(* The methods that meet the new signature in the world before it.               *)
Before(sig, w) == {j \in ActiveIn(w) : ~ Disjoint(methods[j].sig, sig)}

(* A call site some of whose arguments had no method: does it have one now?      *)
NowCovered(types, sig, w) ==
  LET isect == types \intersect sig
  IN  /\ isect # {}
      /\ \A j \in Before(sig, w) :
           isect \subseteq methods[j].sig => MoreSpecific(sig, methods[j].sig)

(* is_replacing: does sig take over types, or make them ambiguous, from j, which *)
(* may have been the choice for them?                                            *)
IsReplacing(sig, j, types, w) ==
  \A k \in Before(sig, w) \ {j} :
    types \subseteq methods[k].sig =>
      /\ ~ MoreSpecific(methods[k].sig, sig)
      /\ MoreSpecific(sig, methods[j].sig) \/ MoreSpecific(methods[j].sig, methods[k].sig)

(* The instances of older methods that the new signature meets and that are not  *)
(* better than it.                                                               *)
Shadowed(sig, w) ==
  {mi \in {e.mi : e \in cache} \union {e.callee : e \in {e2 \in backedges : e2.callee \notin Callers}} :
     /\ mi[1] \in Before(sig, w)
     /\ ~ Disjoint(mi[2], sig)
     /\ ~ MoreSpecific(methods[mi[1]].sig, sig)}

(* An edge from a call follows dispatch; one from invoke names a signature, and  *)
(* only a method for all of it can matter.                                       *)
ReplacedEdge(e, sig, w) ==
  IF e.invoke = None
    THEN IsReplacing(sig, e.callee[1], e.callee[2] \intersect sig, w)
    ELSE e.invoke \subseteq sig /\ IsReplacing(sig, e.callee[1], e.invoke, w)

DroppedInside(e, sig, w) ==   \* an entry is only lost if the new signature lies within it
  /\ e.mi \in Shadowed(sig, w)
  /\ sig \subseteq e.sig
  /\ \A s \in e.guards : ~ sig \subseteq s

(* invalidate_mt_cache: an entry stays if it does not meet the new signature, or *)
(* if a guard keeps all of the new method's calls away from it.                  *)
Dropped(e, sig, w) ==
  /\ e.mi \in Shadowed(sig, w)
  /\ ~ Disjoint(e.sig, sig)
  /\ \A s \in e.guards : ~ sig \subseteq s

\* -------------------------------------------------------------- definitions
Undisturbed == Alone /\ (Overlap \/ Pending = {})

(* jl_method_table_insert takes the method's world before it has the lock.       *)
StartDefine(sig) ==
  /\ Undisturbed
  /\ Len(methods) < MaxMethods
  /\ methods' = Append(methods, [sig |-> sig, min |-> counter + 1, max |-> Forever,
                                 inserted |-> FALSE])
  /\ counter' = counter + 1
  /\ UNCHANGED <<deletes, past>>
  /\ UNCHANGED caching /\ UNCHANGED inferring

(* jl_method_table_insert, with the lock: the entry, and either the method with  *)
(* the same signature is replaced, or all that the new method changes is found.  *)
InsertReplacing(i, j, w) ==
  /\ methods' = [methods EXCEPT ![i].inserted = TRUE, ![j].max = w]
  /\ InvalidateMethod(j, w)
  /\ UNCHANGED missing

InsertNew(i, w) ==
  LET sig == methods[i].sig
      found == {m \in missing : NowCovered(m.types, sig, w)}
      edges == {e \in backedges : /\ e.callee \in Shadowed(sig, w)
                                  /\ ReplacedEdge(e, sig, w)}
  IN  /\ methods' = [methods EXCEPT ![i].inserted = TRUE]
      /\ missing' = missing \ found
      /\ Invalidate({m.caller : m \in found} \union {e.caller : e \in edges}, edges, w)
      /\ cache' = Cut({e \in cache : Dropped(e, sig, w)}, w)

Insert(i) ==
  LET w == methods[i].min - 1
      same == {j \in Before(methods[i].sig, w) : methods[j].sig = methods[i].sig}
  IN  /\ i \in Pending
      /\ Alone
      /\ IF same # {} THEN \E j \in same : InsertReplacing(i, j, w) ELSE InsertNew(i, w)
      /\ UNCHANGED <<counter, deletes, withOrig, infer, past>>

(* jl_method_table_disable, of a method that was replaced or deleted before too:  *)
(* that ends now, and so is back in the worlds since it had ended.  resolved     *)
(* notes what the comment there leaves open: a deletion that ends an ambiguity,  *)
(* for which no edge is kept.                                                    *)
Since(i) == methods[i].max + 1..counter
Delete(i) ==
  /\ Undisturbed
  /\ deletes < MaxDeletes
  /\ methods[i].inserted
  /\ methods' = [methods EXCEPT ![i].max = counter]
  /\ InvalidateMethod(i, counter)
  /\ counter' = counter + 1
  /\ deletes' = deletes + 1
  /\ rewritten' = rewritten \union Since(i)
  /\ resolved' = (resolved \/ \E j \in Before(methods[i].sig, counter) \ {i} :
                                 i \in ActiveIn(counter) /\ Unordered(methods[i].sig, methods[j].sig))
  /\ UNCHANGED <<withOrig, missing, infer>>

\* --------------------------------------------------------------- inference
(* The answer of the table for a call site: a concrete one may come from a cache *)
(* entry, with the entry's worlds.                                               *)
SiteAnswer(types, w) ==
  LET hits == IF Cardinality(types) = 1 THEN UNION {Hits(t, w) : t \in types} ELSE {}
      bounds == Bounds(types, w, TRUE)
  IN  IF hits # {}
        THEN {[ids |-> {e.mi[1]}, ambig |-> FALSE, min |-> e.min, max |-> e.max] : e \in hits}
        ELSE {[ids |-> {MethodOf(sig, w) : sig \in ToSet(found.matches)},
               ambig |-> found.ambig, min |-> bounds.min, max |-> bounds.max] :
                found \in {SomeMatches(types, w)} \ {Nothing}}

(* findsup, for invoke: the method that a signature as a whole selects.          *)
InvokeAnswer(sig, w) ==
  LET bounds == Bounds(sig, w, FALSE)
  IN  UNION {IF Len(found.matches) # 1 THEN {}
             ELSE {[ids |-> {MethodOf(found.matches[1], w)}, ambig |-> FALSE,
                    min |-> bounds.min, max |-> bounds.max]} :
               found \in {Supremum(sig, w)} \ {Nothing}}

Unknown == [ids |-> {}, ambig |-> TRUE, min |-> 0, max |-> Forever]
OrUnknown(found) == IF found = {} THEN {Unknown} ELSE found
Answers(site, w) ==
  OrUnknown(IF site.kind = "invoke" THEN InvokeAnswer(site.sig, w) ELSE SiteAnswer(site.types, w))

(* The edges of a call (add_call_backedges!, add_invoke_backedge!): to the       *)
(* instance of each match, and to the table if some arguments may have no method.*)
(* A call that anything may come of (Any, and all effects) is given none.        *)
FullMatch(site, a) == \E i \in a.ids : site.types \subseteq methods[i].sig
EdgesOf(g, a) ==
  {[callee |-> Instance(i, Site[g].types \intersect methods[i].sig),
    invoke |-> IF Site[g].kind = "invoke" THEN Site[g].sig ELSE None, caller |-> g] : i \in a.ids}
CallEdges(g, called) == {[callee |-> h, invoke |-> None, caller |-> g] : h \in called}
MissingOf(g, a) ==
  IF a = Unknown \/ Site[g].kind = "invoke" \/ FullMatch(Site[g], a) THEN {}
  ELSE {[types |-> Site[g].types, caller |-> g]}
SiteEdges(g, used) == UNION {EdgesOf(g, a) : a \in used}
AllEdges(g, used, called) == SiteEdges(g, used) \union CallEdges(g, called)
AllMissing(g, used) == UNION {MissingOf(g, a) : a \in used}

(* typeinf: what g calls is looked up in world w; what g calls itself has code   *)
(* for w already.  The result is valid for the worlds in which all of it is, and *)
(* no later than the world there was when inference began.  What may be anything *)
(* is of no use: used is empty then, or called without that callee.              *)
CodeIn(g, w) == {c \in code : c.of = g /\ Within(c, w)}
Inferred(g, w, a, from, used, called) ==
  [of |-> g, step |-> "matched",
   taken |-> {[at |-> g, answer |-> x] : x \in used} \union UNION {from[h].taken : h \in called},
   min |-> Max({a.min} \union {from[h].min : h \in Callees[g]}),
   max |-> Min({a.max, counter} \union {from[h].max : h \in Callees[g]}),
   edges |-> AllEdges(g, used, called), missing |-> AllMissing(g, used),
   fill |-> IF Site[g].kind = "call" /\ Cardinality(Site[g].types) = 1 /\ ~ a.ambig
              THEN {[id |-> i, t |-> t, world |-> w, bounds |-> Bounds({t}, w, TRUE)] :
                      i \in a.ids, t \in {u \in Site[g].types : Hits(u, w) = {}}}
              ELSE {}]
StartInfer(g, w) ==
  /\ infer = None
  /\ Cardinality(code) < MaxCode
  /\ CodeIn(g, w) = {}
  /\ \E a \in Answers(Site[g], w) : \E from \in [Callees[g] -> code] :
       /\ \A h \in Callees[g] : from[h] \in CodeIn(h, w)
       /\ \E used \in SUBSET {a}, called \in SUBSET Callees[g] :
            /\ used = {} => g \in Vague /\ Site[g].kind = "call"
            /\ Callees[g] \ called \subseteq Vague
            /\ infer' = Inferred(g, w, a, from, used, called)
  /\ UNCHANGED <<counter, methods, deletes, code, backedges, missing, past>>
  /\ UNCHANGED caching

(* The end of ml_matches: the one match of a concrete call is cached, under the  *)
(* lock, with the worlds that were found without it.                             *)
FillCache ==
  /\ infer # None /\ infer.fill # {}
  /\ \E f \in infer.fill : CacheMethod(f.id, f.t, f.world, f.bounds)
  /\ infer' = [infer EXCEPT !.fill = {}]
  /\ UNCHANGED <<counter, methods, deletes, code, backedges, missing, past>>

(* store_backedges, if the result is valid up to the present: one call, and one  *)
(* lock, for each edge.                                                          *)
StartStoring ==
  /\ infer # None /\ infer.step = "matched" /\ infer.fill = {}
  /\ infer' = [infer EXCEPT !.step = IF infer.max >= counter THEN "storing" ELSE "stored"]
  /\ UNCHANGED <<counter, methods, deletes, code, backedges, missing, past>>
  /\ UNCHANGED caching

StoreEdge ==
  /\ infer # None /\ infer.step = "storing"
  /\ \/ /\ \E e \in infer.edges :
             /\ backedges' = backedges \union {e}
             /\ infer' = [infer EXCEPT !.edges = @ \ {e}]
        /\ UNCHANGED missing
     \/ /\ infer.edges = {}
        /\ missing' = missing \union infer.missing
        /\ infer' = [infer EXCEPT !.missing = {}, !.step = "stored"]
        /\ UNCHANGED backedges
  /\ UNCHANGED <<counter, methods, deletes, code, past>>
  /\ UNCHANGED caching

(* cache_result!: a result that is valid up to the present is taken to be valid  *)
(* until its edges say otherwise.                                                *)
CheckWorld ==
  /\ infer # None /\ infer.step = "stored"
  /\ infer' = [infer EXCEPT !.step = "checked",
                            !.max = IF @ = counter THEN Forever ELSE @]
  /\ UNCHANGED <<counter, methods, deletes, code, backedges, missing, past>>
  /\ UNCHANGED caching

CacheResult ==
  /\ infer # None /\ infer.step = "checked"
  /\ LET new == [of |-> infer.of, taken |-> infer.taken, min |-> infer.min, max |-> infer.max]
         known == \E c \in code : c.of = new.of /\ c.min <= new.min /\ new.max <= c.max
     IN  code' = IF known THEN code ELSE code \union {new}
  /\ infer' = None
  /\ UNCHANGED <<counter, methods, deletes, backedges, missing, past>>
  /\ UNCHANGED caching

\* ---------------------------------------------------------- specification
Init ==
  /\ counter = 1
  /\ methods = <<>>
  /\ deletes = 0
  /\ cache = {} /\ withOrig = {} /\ code = {} /\ backedges = {} /\ missing = {}
  /\ infer = None
  /\ resolved = FALSE /\ rewritten = {}

Present == Greater(1, counter - Lag)..counter

Next ==
  \/ \E sig \in Signatures : StartDefine(sig)
  \/ \E i \in Ids : Insert(i) \/ Delete(i)
  \/ \E t \in Types, w \in Present : Lookup(t, w)
  \/ \E g \in Callers, w \in Present : StartInfer(g, w)
  \/ FillCache \/ StartStoring \/ StoreEdge \/ CheckWorld \/ CacheResult

Spec == Init /\ [][Next]_vars

\* ------------------------------------------------------------- properties
(* The worlds r is for so far, those aside that a repeated deletion has changed: *)
(* no task looks back at what it had found for them.                             *)
For(r) == (r.min..Lesser(r.max, counter)) \ rewritten

(* Every entry of the caches gives, in every world it is for and to every call   *)
(* it answers, the method that the table selects (cache_method, jl_method_table_ *)
(* insert, jl_method_table_invalidate).                                          *)
CachesAgree ==
  \A e \in cache : \A w \in For(e) : \A t \in e.sig :
    (\A s \in e.guards : t \notin s) => Selected(t, w) = {e.mi[1]}

(* What was found for a call site holds in world w.                              *)
AnswerHolds(site, a, w) ==
  IF site.kind = "invoke"
    THEN \E i \in a.ids :
           /\ i \in ActiveIn(w) /\ site.sig \subseteq methods[i].sig
           /\ \A j \in ActiveIn(w) : site.sig \subseteq methods[j].sig
                                     => methods[i].sig \subseteq methods[j].sig
    ELSE \A t \in site.types :
           LET chosen == Selected(t, w)
           IN  IF chosen # {} THEN chosen \subseteq a.ids ELSE a.ambig \/ ~ FullMatch(site, a)

(* In every world that inferred code claims to be valid in, a call in it goes    *)
(* only to a method that inference took into account, and fails only if it took  *)
(* that into account.  Not said of a table from which a deletion has taken an    *)
(* ambiguity: jl_method_table_invalidate names that case itself.                 *)
CodeIsCurrent ==
  ~ resolved =>
    \A c \in code : \A p \in c.taken : \A w \in For(c) :
      p.answer # Unknown => AnswerHolds(Site[p.at], p.answer, w)
====
