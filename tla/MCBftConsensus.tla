--------------------------- MODULE MCBftConsensus ---------------------------
(***************************************************************************)
(* Instances of BftConsensus for TLC.                                       *)
(***************************************************************************)
EXTENDS BftConsensus

\* Voting power 1 each, the default of Validator::new.
UnitPower == [v \in Validators |-> 1]

=============================================================================
