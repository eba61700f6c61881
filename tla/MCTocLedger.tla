----------------------------- MODULE MCTocLedger -----------------------------
(***************************************************************************)
(* Instances of TocLedger for TLC.                                          *)
(***************************************************************************)
EXTENDS TocRefinement

\* Every client mints for every agent.
SharedMints == [c \in Clients |-> Agents]

=============================================================================
