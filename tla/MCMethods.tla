--------------------------- MODULE MCMethods ---------------------------
(* Instances of MethodWorlds and MethodMatching for TLC: a behaviour is one of a *)
(* table that changes while callers are inferred, or one of questions to a table *)
(* of up to four methods, in every order in which it may be visited.             *)
EXTENDS MethodWorlds, MethodMatching, TLC

CONSTANTS a, b, c, g, h, k,
  TableSize       \* bound: methods of a table that is asked

VARIABLES part, question, answer
asking == <<question, answer>>
allVars == <<part, asking, vars>>

\* a method for a alone, two that are ambiguous for b, and one for everything
SomeSignatures == {{a}, {a, b}, {b, c}, {a, b, c}}
CompiledWide == {{a, b}, {a, b, c}}

\* g may reach two methods; h calls g, and one method; k names a signature
SomeSites ==
  [x \in Callers |-> CASE x = g -> [kind |-> "call", types |-> {a, b}, sig |-> {a, b}]
                       [] x = h -> [kind |-> "call", types |-> {b}, sig |-> {b}]
                       [] x = k -> [kind |-> "invoke", types |-> {a}, sig |-> {a, b}]]
SomeCallees == [x \in Callers |-> IF x = h THEN {g} ELSE {}]

\* limits: none, one match, as many as inference asks for, as many as guards need
AllSignatures == SUBSET {a, b, c} \ {{}}
Orders == UNION {{f \in [1..n -> AllSignatures] : \A i, j \in 1..n : i # j => f[i] # f[j]} :
                   n \in 0..TableSize}
Questions ==
  [order : Orders, query : AllSignatures, lim : {-1, 1, MaxMatches}, ambiguous : BOOLEAN,
   intersections : {TRUE}, wanted : {TRUE}]
    \union [order : Orders, query : AllSignatures, lim : {MaxConflicts}, ambiguous : {TRUE},
            intersections : {TRUE}, wanted : {FALSE}]
    \union [order : Orders, query : AllSignatures, lim : {1}, ambiguous : {FALSE},
            intersections : {FALSE}, wanted : {FALSE}]

MCInit ==
  /\ part \in {"worlds", "matching"}
  /\ question = None /\ answer = None
  /\ Init

Ask ==
  /\ part = "matching" /\ question = None
  /\ question' \in Questions
  /\ UNCHANGED <<part, answer, vars>>

Reply ==
  /\ question # None /\ answer = None
  /\ answer' = MlMatches(question.order, question.query, question.lim, question.ambiguous,
                         question.intersections, question.wanted)
  /\ UNCHANGED <<part, question, vars>>

Read ==
  /\ answer # None
  /\ question' = None /\ answer' = None
  /\ UNCHANGED <<part, vars>>

MCNext == (part = "worlds" /\ Next /\ UNCHANGED <<part, asking>>) \/ Ask \/ Reply \/ Read

MCSpec == MCInit /\ [][MCNext]_allVars

(* ml_matches answers right: see RightMatches and RightSupremum.                 *)
MatchesRight ==
  answer # None =>
    IF question.intersections
      THEN answer = Nothing \/ RightMatches(question.order, question.query, question.ambiguous, answer)
      ELSE RightSupremum(question.order, question.query, answer)
====
