------------------------------ MODULE WorkBag ------------------------------
(***************************************************************************)
(* What a work-stealing queue promises: work that was put in is taken at    *)
(* most once, by its owner or by a thief, and only work that was put in.    *)
(***************************************************************************)
CONSTANTS Items, Workers

VARIABLES
  pending,   \* put in and not taken
  taken      \* who took each item that was taken

bagVars == <<pending, taken>>

Init == pending = {} /\ taken = [i \in {} |-> {}]

Put(i) ==
  /\ i \notin pending \cup DOMAIN taken
  /\ pending' = pending \cup {i}
  /\ UNCHANGED taken

Take(i, w) ==
  /\ i \in pending
  /\ pending' = pending \ {i}
  /\ taken' = [j \in DOMAIN taken \cup {i} |-> IF j = i THEN w ELSE taken[j]]

Next == \E i \in Items : Put(i) \/ \E w \in Workers : Take(i, w)

Spec == Init /\ [][Next]_bagVars

=============================================================================
