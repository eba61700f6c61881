---------------------------- MODULE TocRefinement ----------------------------
(***************************************************************************)
(* The ledgers of TocLedger as an implementation of TocIssuance: every mint *)
(* looks as if it happened when the balance is credited.                    *)
(***************************************************************************)
EXTENDS TocLedger

Issuance == INSTANCE TocIssuance WITH
              earned <- contributions, settled <- Settled, issued <- balance

\* When each agent is minted for by one client, the six steps of TOC_MINT are
\* together one mint of the abstract ledger: "only the unminted delta is issued".
IssuanceSpec == Issuance!Spec

=============================================================================
