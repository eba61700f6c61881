---------------------------- MODULE Inheritance ----------------------------
(***************************************************************************)
(* The inheritance wallets of oso_vm.jl, opcodes 0x30-0x34: a shrine applies *)
(* for a wallet, members of the council approve, the final signer awards.    *)
(* Offerings fill every vault and the first one starts the waiting time.     *)
(*                                                                           *)
(* FFI.has_seven_by_seven_badge refuses everybody in this build, until there *)
(* is a badge registry; BadgeHolders is what that registry would answer (and *)
(* {} is this build).  vm.block_time is set by who embeds the VM.            *)
(* last_claimed is written and never read, so it is left out, and with it    *)
(* all that CLAIM_REWARDS (reward 0) changes.                                *)
(***************************************************************************)
EXTENDS Integers, FiniteSets

CONSTANTS
  Wallets, Shrines, BadgeHolders,
  Council,             \* vm.council
  ApprovalsNeeded,     \* 12
  SevenYears,
  StartTime, MaxTime,  \* block_time when the VM is made; a bound
  MaxOfferings,        \* a bound
  NoShrine             \* ""

VARIABLES
  state, pending, approvals_mask, next_eligible_ts, winner,   \* of a wallet
  locked_balance, staked_since,                               \* of a vault
  has_inherited, block_time,
  received,      \* what awards have added to a shrine's ase_balance
  approvals      \* (history) <<wallet, member, candidate>>

vars == <<state, pending, approvals_mask, next_eligible_ts, winner, locked_balance,
          staked_since, has_inherited, block_time, received, approvals>>
walletVars == <<state, pending, approvals_mask, winner, has_inherited, received, approvals>>
vaultVars == <<locked_balance, staked_since, next_eligible_ts>>

OnWallets(value) == [w \in Wallets |-> value]

Init ==
  /\ state = OnWallets("OPEN") /\ pending = OnWallets(NoShrine)
  /\ winner = OnWallets(NoShrine) /\ approvals_mask = OnWallets({})
  /\ next_eligible_ts = OnWallets(0)
  /\ locked_balance = OnWallets(0) /\ staked_since = OnWallets(0)
  /\ has_inherited = {}
  /\ block_time = StartTime
  /\ received = [s \in Shrines |-> 0]
  /\ approvals = {}

Tick ==
  /\ block_time < MaxTime
  /\ block_time' = block_time + 1
  /\ UNCHANGED <<walletVars, vaultVars>>

may_apply(w, shrine) ==
  /\ block_time >= next_eligible_ts[w]
  /\ shrine \notin has_inherited
  /\ shrine \in BadgeHolders

CANDIDATE_APPLY(w, shrine) ==
  /\ state[w] = "OPEN"
  /\ may_apply(w, shrine)
  /\ state' = [state EXCEPT ![w] = "PENDING"]
  /\ pending' = [pending EXCEPT ![w] = shrine]
  /\ approvals_mask' = [approvals_mask EXCEPT ![w] = {}]
  /\ UNCHANGED <<winner, has_inherited, received, approvals, vaultVars, block_time>>

is_anyone(w, shrine) == TRUE
is_candidate(w, shrine) == pending[w] = shrine

\* For a PENDING wallet only the candidate may apply, and stays the candidate.
ReapplyCANDIDATE(w, shrine) ==
  /\ state[w] = "PENDING"
  /\ may_apply(w, shrine)
  /\ is_candidate(w, shrine)
  /\ pending' = [pending EXCEPT ![w] = shrine]
  /\ UNCHANGED <<state, approvals_mask, winner, has_inherited, received, approvals, vaultVars,
                 block_time>>

COUNCIL_APPROVE(w, member) ==
  /\ state[w] \in {"PENDING", "COUNCIL_READY"}
  /\ member \notin approvals_mask[w]
  /\ approvals_mask' = [approvals_mask EXCEPT ![w] = @ \cup {member}]
  /\ state' = [state EXCEPT ![w] =
                 IF Cardinality(approvals_mask'[w]) >= ApprovalsNeeded THEN "COUNCIL_READY" ELSE @]
  /\ approvals' = approvals \cup {<<w, member, pending[w]>>}
  /\ UNCHANGED <<pending, winner, has_inherited, received, vaultVars, block_time>>

inherited_with(shrine) == has_inherited \cup {shrine}

\* By the final signer.  The vault keeps its balance; has_inherited is not
\* looked at again.
FINAL_SIGN(w) ==
  /\ state[w] = "COUNCIL_READY"
  /\ state' = [state EXCEPT ![w] = "AWARDED"]
  /\ winner' = [winner EXCEPT ![w] = pending[w]]
  /\ has_inherited' = inherited_with(pending[w])
  /\ received' = [received EXCEPT ![pending[w]] = @ + locked_balance[w]]
  /\ UNCHANGED <<pending, approvals_mask, approvals, vaultVars, block_time>>

first_deposit(w) == staked_since[w] = 0

\* An equal share for every vault; nobody is debited for it.
DISTRIBUTE_OFFERING ==
  /\ \A w \in Wallets : locked_balance[w] < MaxOfferings
  /\ locked_balance' = [w \in Wallets |-> locked_balance[w] + 1]
  /\ staked_since' = [w \in Wallets |->
                        IF first_deposit(w) THEN block_time ELSE staked_since[w]]
  /\ next_eligible_ts' = [w \in Wallets |->
                            IF first_deposit(w) THEN block_time + SevenYears
                            ELSE next_eligible_ts[w]]
  /\ UNCHANGED <<walletVars, block_time>>

\* CLAIM_REWARDS, and every instruction that is refused.
Refused == UNCHANGED vars

Next ==
  \/ Tick \/ DISTRIBUTE_OFFERING \/ Refused
  \/ \E w \in Wallets : FINAL_SIGN(w)
  \/ \E w \in Wallets, s \in Shrines : CANDIDATE_APPLY(w, s) \/ ReapplyCANDIDATE(w, s)
  \/ \E w \in Wallets, m \in Council : COUNCIL_APPROVE(w, m)

Spec == Init /\ [][Next]_vars

-----------------------------------------------------------------------------
(* Properties.                                                              *)

\* A wallet is awarded only to a shrine that as many different members of the
\* council approved for that wallet as are needed: approvals given while the
\* wallet had one candidate never serve another.
AwardedByCouncil ==
  \A w \in Wallets : winner[w] # NoShrine =>
    Cardinality({m \in Council : <<w, m, winner[w]>> \in approvals}) >= ApprovalsNeeded

=============================================================================
