------------------------------- MODULE MCOsoVm -------------------------------
(***************************************************************************)
(* Three clusters of opcodes of oso_vm.jl, for TLC: government, inheritance, *)
(* and programs that move Ase; and vm_core.jl, the VM that applies blocks.   *)
(* Each has tables of its own (an award only adds to a balance), so what     *)
(* their interleaving can reach is what each can reach by itself: a          *)
(* behaviour is one part's, chosen at the start.                             *)
(***************************************************************************)
EXTENDS Governance, TLC

CONSTANTS
  Wallets, Shrines, BadgeHolders, Council, ApprovalsNeeded, SevenYears, StartTime, MaxTime,
  MaxOfferings, NoShrine,
  Addresses, InitialBalance, Amounts, BirthFee, MaxNegatives, Nobody,
  BlockAmounts, AgentBirthFee, MaxAgentsPerDay, MaxDay, MaxBlocks, MaxInstructions

VARIABLES
  part,   \* whose behaviour this is
  state, pending, approvals_mask, next_eligible_ts, winner_of, locked_balance, staked_since,
  has_inherited, block_time, received, approvals,
  running, halted, skipping, current_sender, ase_balance, staked, genesis_used,
  block_height, agents, minted, gone, negatives,
  block_state, s, receipts, block_receipts, block_number, day, in_block, passive, count

\* Amounts, also those that programs name, are whole numbers.
ASSUME OsoVmAssumption ==
  /\ IsFiniteSet(Addresses) /\ InitialBalance \in Nat /\ BirthFee \in Nat
  /\ Amounts \subseteq Int /\ BlockAmounts \subseteq Int /\ AgentBirthFee \in Nat
  /\ IsFiniteSet(Council) /\ ApprovalsNeeded \in Nat

Inherit == INSTANCE Inheritance WITH winner <- winner_of
Economy == INSTANCE VmEconomy
Core == INSTANCE VmCore WITH state <- block_state, Amounts <- BlockAmounts,
                             InitialBalances <- {2 * InitialBalance}

inheritVars == <<state, pending, approvals_mask, next_eligible_ts, winner_of, locked_balance,
                 staked_since, has_inherited, block_time, received, approvals>>
economyVars == <<running, halted, skipping, current_sender, ase_balance, staked,
                 genesis_used, block_height, agents, minted, gone, negatives>>
coreVars == <<block_state, s, receipts, block_receipts, block_number, day, in_block, passive, count>>
allVars == <<part, vars, inheritVars, economyVars, coreVars>>

VmInit ==
  /\ part \in {"government", "inheritance", "economy", "blocks"}
  /\ Init /\ Inherit!Init /\ Economy!Init /\ Core!Init

GovernmentStep ==
  part = "government" /\ Next /\ UNCHANGED <<part, inheritVars, economyVars, coreVars>>
InheritanceStep ==
  part = "inheritance" /\ Inherit!Next /\ UNCHANGED <<part, vars, economyVars, coreVars>>
EconomyStep ==
  part = "economy" /\ Economy!Next /\ UNCHANGED <<part, vars, inheritVars, coreVars>>
BlockStep ==
  part = "blocks" /\ Core!Next /\ UNCHANGED <<part, vars, inheritVars, economyVars>>

VmNext == GovernmentStep \/ InheritanceStep \/ EconomyStep \/ BlockStep

VmSpec == VmInit /\ [][VmNext]_allVars

\* What the arguments of a program say, a negative amount among them.
SomeAmounts == {-10, 10}
SomeBlockAmounts == {-7, 20}

\* Voters are interchangeable, and so are addresses.
Symmetric == Permutations(Voters) \cup Permutations(Addresses)

-----------------------------------------------------------------------------
(* The properties of the parts, in this module's variables.                 *)

\* An award rests on the council's approvals of its winner; see Inheritance.
AwardedByCouncil == Inherit!AwardedByCouncil

\* Programs neither create nor lose Ase, and nobody overdraws unless a negative
\* payment was made; see VmEconomy.
AseAccounted == Economy!AseAccounted /\ Economy!NoOverdraft

\* The Ase that leaves the states that blocks return is what their receipts say
\* agents keep; see VmCore.
LossIsReceipted == Core!LossIsReceipted

\* Nothing that counts changes on the Sabbath; see VmCore.
SabbathRests == Core!SabbathRests

=============================================================================
