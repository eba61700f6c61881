----------------------------- MODULE TocIssuance -----------------------------
(***************************************************************************)
(* What the Token-of-Compute ledger promises, with every mint in one step:  *)
(* GPU time is earned, and earned time is turned into Synapse at a fixed    *)
(* price, each tick at most once.  A mint settles the time up to some point *)
(* of the past, pays whole Synapse for it and forfeits the remainder.       *)
(* src/oso_vm.jl: "only the unminted delta is issued here".                 *)
(***************************************************************************)
EXTENDS Integers

CONSTANTS Agents, TicksPerSynapse, MaxTicks

VARIABLES
  earned,    \* ticks contributed for each agent
  settled,   \* ticks of them that have been minted
  issued     \* Synapse issued for them

Init ==
  /\ earned = [a \in Agents |-> 0]
  /\ settled = [a \in Agents |-> 0]
  /\ issued = [a \in Agents |-> 0]

Earn(a, n) ==
  /\ earned[a] + n <= MaxTicks
  /\ earned' = [earned EXCEPT ![a] = @ + n]
  /\ UNCHANGED <<settled, issued>>

\* upTo is at most what had been earned by the end of the step.
Issue(a, upTo) ==
  /\ upTo - settled[a] >= TicksPerSynapse
  /\ issued' = [issued EXCEPT ![a] = @ + (upTo - settled[a]) \div TicksPerSynapse]
  /\ settled' = [settled EXCEPT ![a] = upTo]
  /\ UNCHANGED earned

Next ==
  \E a \in Agents :
    \/ \E n \in 1..MaxTicks : Earn(a, n)
    \/ \E upTo \in 1..earned[a] : Issue(a, upTo)

Spec == Init /\ [][Next]_<<earned, settled, issued>>

=============================================================================
