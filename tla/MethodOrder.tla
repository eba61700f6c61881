--------------------------- MODULE MethodOrder ---------------------------
(* Signatures, and what an answer of the method table has to say                *)
(* (src/julia-1.10.5/src/gf.c).                                                  *)
(*                                                                               *)
(* A type is the set of the concrete argument types below it: subtyping is       *)
(* inclusion, intersection is intersection, and one signature is more specific   *)
(* than another when it is strictly below it.                                    *)
EXTENDS Integers, Sequences, FiniteSets, SequencesExt

CONSTANT Nothing            \* the answer jl_nothing: too many methods

MoreSpecific(s1, s2) == s1 # s2 /\ s1 \subseteq s2
Unordered(s1, s2) == ~ MoreSpecific(s1, s2) /\ ~ MoreSpecific(s2, s1)
Disjoint(s1, s2) == s1 \intersect s2 = {}

(* What an answer has to say.  Of all methods in order, those that take t, and   *)
(* the one of them that is below all others; where there is none but some take   *)
(* t, the call is ambiguous.                                                     *)
TakenBy(order, t) == {sig \in ToSet(order) : t \in sig}
BestFor(order, t) == {sig \in TakenBy(order, t) : \A s2 \in TakenBy(order, t) : sig \subseteq s2}
FirstFor(found, t) == found[Min({i \in DOMAIN found : t \in found[i]})]

(* A query for all matches: the answer is made of methods that the query meets;  *)
(* whoever walks it and takes the first match for an argument takes the method   *)
(* that a call with it selects; ambiguities are never concealed; asked for       *)
(* ambiguous matches too, every candidate is there, and if not, a query for one  *)
(* concrete type has one match at most.                                          *)
RightMatches(order, query, ambiguous, answer) ==
  /\ answer.matches \in Seq({sig \in ToSet(order) : ~ Disjoint(query, sig)})
  /\ answer.ambig \in BOOLEAN
  /\ \A t \in query :
       /\ BestFor(order, t) # {} =>
            /\ t \in UNION ToSet(answer.matches)
            /\ FirstFor(answer.matches, t) \in BestFor(order, t)
       /\ BestFor(order, t) = {} /\ TakenBy(order, t) # {} => answer.ambig
       /\ ambiguous => \A sig \in TakenBy(order, t) :
            (\A s2 \in TakenBy(order, t) : ~ MoreSpecific(s2, sig)) => sig \in ToSet(answer.matches)
  /\ Cardinality(query) = 1 /\ ~ ambiguous => Len(answer.matches) <= 1

(* A query for the method of a whole signature: there is an answer exactly if    *)
(* one method for all of it is below all others.                                 *)
RightSupremum(order, query, answer) ==
  LET above == {sig \in ToSet(order) : query \subseteq sig}
      least == {sig \in above : \A s2 \in above : sig \subseteq s2}
  IN  IF answer = Nothing \/ Len(answer.matches) # 1
        THEN least = {} ELSE least = {answer.matches[1]}
====
