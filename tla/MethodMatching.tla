------------------------- MODULE MethodMatching -------------------------
(* Finding the methods that a call may reach: ml_matches and the sort it rests  *)
(* on, sort_mlmatches (src/julia-1.10.5/src/gf.c).                               *)
(*                                                                               *)
(* Types and signatures are those of MethodOrder.  The method table is visited in *)
(* an order that the shape of its tree decides: a sequence of signatures, each   *)
(* of which occurs once, stands for the methods active in the world that is      *)
(* asked for, in the order in which they are met.                                *)
(*                                                                               *)
(* Left out: slurping (typemap_slurp_search), the caches that answer for a       *)
(* concrete query (MethodWorlds) and free type variables.                        *)
EXTENDS MethodOrder

(* make_method_match: one vertex of the sort.                                    *)
Match(query, sig) == [sig |-> sig, ti |-> query \intersect sig,
                      covers |-> IF query \subseteq sig THEN "fully" ELSE "not"]
Subt(v) == v.covers # "not"

(* The first check of sort_mlmatches, repeated after each child and in a cycle:  *)
(* what the vertex k matches is already covered by an earlier result.  In a      *)
(* cycle the other comparison is still with the method of the call, i.           *)
CoveredByResult(q, k, i, s) ==
  /\ q.lim # -1
  /\ \E r \in ToSet(s.result) :
        /\ q.t[k].ti \subseteq q.t[r].sig
        /\ q.ambiguous => MoreSpecific(q.t[r].sig, q.t[i].sig)

Excluded(q, i, s) == IF Subt(q.t[i]) THEN s.minmax = 2 ELSE CoveredByResult(q, i, i, s)

(* A cycle of the sort is complete: the vertices from depth to the top of the    *)
(* stack go to the result, but for those that are covered or fully ambiguous.    *)
Drops(q, i, s, depth, mayexclude) ==
  LET group == {s.stack[k] : k \in depth..Len(s.stack)}
      covered == {k \in group : IF Subt(q.t[k]) THEN s.minmax # 0 ELSE CoveredByResult(q, k, i, s)}
      clash == {k \in group \ covered : \E k2 \in group \ {k} :
                   /\ Subt(q.t[k2]) \/ q.t[k].ti \subseteq q.t[k2].sig
                   /\ Unordered(q.t[k].sig, q.t[k2].sig)}
      top == s.stack[depth]
  IN  IF Len(s.stack) = depth
        THEN IF mayexclude /\ (~ Subt(q.t[top]) \/ s.minmax = 2) THEN {top} ELSE {}
        ELSE covered \union (IF ~ q.ambiguous /\ q.lim = -1 THEN clash ELSE {})

(* addambig at the end of a cycle: an ambiguity of the vertex itself, closed by  *)
(* the weak edges if there is no limit, or one noted for a vertex of its cycle.  *)
OpenAmbiguity(q, i, s, depth, addambig) ==
  IF Len(s.stack) = depth THEN addambig
  ELSE /\ q.lim # -1
       /\ addambig \/ \E k \in depth..Len(s.stack) :
            s.stack[k] \in s.allambig /\ s.visited[s.stack[k]] # 1

CloseCycle(q, i, s, depth, addambig, mayexclude) ==
  LET dropped == Drops(q, i, s, depth, mayexclude)
      keep == SelectSeq(SubSeq(s.stack, depth, Len(s.stack)), LAMBDA k : k \notin dropped)
      open == OpenAmbiguity(q, i, s, depth, addambig)
      group == {s.stack[k] : k \in depth..Len(s.stack)}
  IN  IF q.lim # -1 /\ Len(s.result) + Len(keep) > q.lim
        THEN [s EXCEPT !.ret = -1]
        ELSE [s EXCEPT !.ret = 0,
                       !.result = @ \o keep,
                       !.stack = SubSeq(@, 1, depth - 1),
                       !.visited = [k \in DOMAIN @ |-> IF k \in group THEN 1 ELSE @[k]],
                       !.amb = @ \/ Len(s.stack) > depth,
                       !.minmax = IF Subt(q.t[i]) /\ ~ open THEN 2 ELSE @]

(* An edge that the loop passes over before it compares the two methods.         *)
Ignored(q, i, k, s, loc) ==
  \/ k = i \/ s.visited[k] = 1
  \/ s.visited[k] # 0 /\ s.visited[k] - 1 >= loc.cycle
  \/ ~ Subt(q.t[k]) /\ Disjoint(q.t[k].sig, q.t[i].sig)

(* A weak edge, or with a limit one to a method that is no better: not followed. *)
Weak(q, v, w) == IF q.lim = -1 THEN MoreSpecific(v.sig, w.sig) ELSE ~ MoreSpecific(w.sig, v.sig)

(* What the comparison of the vertex v with another, w, says of v.               *)
Compared(q, v, w, loc) ==
  [loc EXCEPT
     !.mayexclude = @ \/ /\ ~ MoreSpecific(v.sig, w.sig)
                         /\ \/ Subt(v) \/ ~ q.ambiguous
                            \/ q.lim # -1 /\ MoreSpecific(w.sig, v.sig)
                         /\ Subt(w) \/ v.ti \subseteq w.sig,
     !.addambig = @ \/ Unordered(v.sig, w.sig)]

(* The end of a call, all edges of the vertex i looked at.                       *)
Finish(q, i, s, loc) ==
  LET noted == IF ~ Subt(q.t[i]) /\ loc.addambig
                 THEN [s EXCEPT !.allambig = @ \union {i}] ELSE s
  IN  IF loc.cycle # loc.depth THEN [noted EXCEPT !.ret = loc.cycle]
      ELSE CloseCycle(q, i, noted, loc.depth, loc.addambig, loc.mayexclude)

RECURSIVE Visit(_, _, _), Children(_, _, _, _, _), AfterChild(_, _, _, _, _)

(* sort_mlmatches(t, idx, ...): s is the state of the algorithm, s.ret what the  *)
(* call returns.                                                                 *)
Visit(q, i, s) ==
  IF s.visited[i] # 0 THEN [s EXCEPT !.ret = s.visited[i] - 1]
  ELSE IF Excluded(q, i, s) THEN [s EXCEPT !.visited[i] = 1, !.ret = 0]
  ELSE LET depth == Len(s.stack) + 1
       IN  Children(q, i, 1, [s EXCEPT !.stack = Append(@, i), !.visited[i] = 1 + depth],
                    [depth |-> depth, cycle |-> depth, addambig |-> FALSE, mayexclude |-> FALSE])

(* The loop over the other vertices, from the k-th on.                           *)
Children(q, i, k, s, loc) ==
  IF k > Len(q.t) THEN Finish(q, i, s, loc)
  ELSE IF Ignored(q, i, k, s, loc) THEN Children(q, i, k + 1, s, loc)
  ELSE IF Weak(q, q.t[i], q.t[k])
    THEN Children(q, i, k + 1, s, Compared(q, q.t[i], q.t[k], loc))
  ELSE AfterChild(q, i, k, Visit(q, k, s), Compared(q, q.t[i], q.t[k], loc))

(* The k-th vertex has been visited, with s for result.                          *)
AfterChild(q, i, k, s, loc) ==
  IF s.ret = -1 THEN s
  ELSE IF Len(s.stack) = loc.depth /\ Excluded(q, i, s)
    THEN [s EXCEPT !.visited[i] = 1, !.ret = 0, !.stack = SubSeq(@, 1, loc.depth - 1)]
  ELSE Children(q, i, k + 1, s,
         IF s.ret # 0 /\ s.ret < loc.cycle THEN [loc EXCEPT !.cycle = s.ret] ELSE loc)

RECURSIVE VisitAll(_, _, _)
VisitAll(q, i, s) ==
  IF i > Len(q.t) \/ s.ret = -1 THEN s
  ELSE IF Subt(q.t[i]) /\ s.minmax # 0 THEN VisitAll(q, i + 1, s)
  ELSE VisitAll(q, i + 1, Visit(q, i, s))

(* The loop of ml_matches over the allambig vertices: is an ambiguity left that  *)
(* no third method of the result resolves?  minmax is not in the result yet.     *)
Unresolved(q, s) ==
  \E i \in s.allambig : \E j \in 1..Len(q.t) \ {i} :
    LET v == q.t[i]
        w == q.t[j]
        ti == IF v.covers = "fully" THEN w.ti
              ELSE IF w.covers = "fully" THEN v.ti ELSE v.ti \intersect w.ti
        decides(r) == /\ ti \subseteq q.t[r].sig
                      /\ MoreSpecific(q.t[r].sig, v.sig) /\ MoreSpecific(q.t[r].sig, w.sig)
        first == SelectInSeq(s.result, LAMBDA r : r \in {i, j} \/ decides(r))
    IN  /\ ti # {}
        /\ Unordered(v.sig, w.sig)
        /\ first = 0 \/ s.result[first] \in {i, j}

(* The most specific of the matches that cover the whole query: the last that    *)
(* was not passed over, and whether it is ambiguous with an earlier one.         *)
Candidate(t) ==
  FoldLeftDomain(LAMBDA best, i :
    IF t[i].covers # "fully" \/ (best # 0 /\ MoreSpecific(t[best].sig, t[i].sig))
      THEN best ELSE i, 0, t)
ContestedNever(t, best) == FALSE   \* the last candidate is taken for the best one
Contested(t, best) ==
  \E i \in 1..(best - 1) : t[i].covers = "fully" /\ ~ MoreSpecific(t[best].sig, t[i].sig)

Sentinels(t, best) ==
  [i \in DOMAIN t |-> IF t[i].covers = "not" /\ MoreSpecific(t[best].sig, t[i].sig)
                        THEN [t[i] EXCEPT !.covers = "sentinel"] ELSE t[i]]

Answer(matches, amb) == [matches |-> matches, ambig |-> amb]
Limited(lim, answer) ==
  IF lim >= 0 /\ Len(answer.matches) > lim THEN Nothing ELSE answer

(* The general case: sort the matches t, of which the best'th, if there is one,  *)
(* dominates all that cover the query and is added last.                         *)
Sorted(t, best, contested, lim, ambiguous, wanted) ==
  LET q == [t |-> t, ambiguous |-> ambiguous,
            lim |-> IF lim = -1 \/ best = 0 THEN lim ELSE lim - 1]
      s == VisitAll(q, 1,
             [visited |-> [i \in DOMAIN t |-> 0], stack |-> <<>>, result |-> <<>>,
              allambig |-> {}, ret |-> 0, amb |-> contested \/ ~ wanted,
              minmax |-> IF best # 0 THEN 2 ELSE IF contested /\ ~ ambiguous THEN 1 ELSE 0])
      amb == s.amb \/ (s.allambig # {} /\ (lim = -1 \/ Unresolved(q, s)))
      order == IF best = 0 THEN s.result ELSE Append(s.result, best)
  IN  IF s.ret = -1 THEN Nothing
      ELSE Limited(lim, Answer([k \in 1..Len(order) |-> t[order[k]].sig], amb))

(* ml_matches(mt, query, lim, include_ambiguous, intersections, ..., ambig):     *)
(* order is the table as it is visited, wanted whether the caller asks about     *)
(* ambiguities.  A visit gives up at the first leaf method above the limit.      *)
MlMatches(order, query, lim, ambiguous, intersections, wanted) ==
  LET met == SelectSeq(order, LAMBDA sig : IF intersections THEN ~ Disjoint(query, sig)
                                           ELSE query \subseteq sig)
      t0 == [k \in 1..Len(met) |-> Match(query, met[k])]
      leaves == Cardinality({k \in DOMAIN met : Cardinality(met[k]) = 1})
      cand == Candidate(t0)
      contested == cand # 0 /\ Contested(t0, cand)
      best == IF contested THEN 0 ELSE cand
      t == IF best # 0 THEN Sentinels(t0, best) ELSE t0
      settled == \A k \in DOMAIN t : t[k].covers # "not"
  IN  IF lim >= 0 /\ leaves > lim THEN Nothing
      ELSE IF Len(t) <= 1 THEN Limited(lim, Answer(met, FALSE))
      ELSE IF settled /\ contested /\ ~ ambiguous THEN Answer(<<>>, TRUE)
      ELSE IF settled /\ contested /\ lim = 1 THEN Nothing
      ELSE IF best # 0 /\ lim = 0 THEN Nothing
      ELSE IF settled /\ ~ contested THEN Limited(lim, Answer(<<t[best].sig>>, FALSE))
      ELSE Sorted(t, best, contested, lim, ambiguous, wanted)
====
