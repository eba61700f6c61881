------------------------------- MODULE VmCore -------------------------------
(***************************************************************************)
(* vm_core.jl, the block-applying VM, with the supply rules of ase_supply.jl *)
(* it calls.  A block is a list of transactions of instructions; apply_block *)
(* works on a copy of the state and returns it, so a block that throws (out  *)
(* of order, a malformed argument) leaves no trace.  Here a block begins on  *)
(* its day, takes one step an instruction, and ends.                         *)
(*                                                                           *)
(* Amounts are whole; shares are rounded down to whole amounts, as r6 rounds *)
(* to six places.  Ase comes from the state apply_block is given: no opcode  *)
(* of this VM issues any, and GENESIS_FLAW_TOKEN asks for block 0, which     *)
(* apply_block never has.                                                    *)
(***************************************************************************)
EXTENDS Integers, FiniteSets, Folds, Functions

CONSTANTS
  Addresses,
  InitialBalances,     \* of the states apply_block may be given
  Amounts,
  AgentBirthFee,       \* 10
  MaxAgentsPerDay,     \* 144
  MaxDay, MaxBlocks, MaxInstructions   \* bounds

VARIABLES
  state,        \* what the blocks so far returned
  s,            \* the copy the block works on
  receipts,     \* the Ase that the receipts in the state tell agents they keep
  block_receipts,   \* the same of the running block's
  block_number,
  day,          \* of the block's timestamp
  in_block, passive, count

vars == <<state, s, receipts, block_receipts, block_number, day, in_block, passive, count>>

Days == 0..MaxDay

\* Saturday; day 0 was a Thursday.
is_sabbath(d) == (d + 4) % 7 = 6

\* current_day, the day minted_today is for, is set by minting alone, and
\* nothing here mints: it stays 0.
current_day == 0

InitialState(balances) ==
  [balances |-> balances, staked |-> [a \in Addresses |-> 0], halted |-> FALSE,
   agents_born_today |-> 0, total_locked_for_births |-> 0, total_burned |-> 0,
   royalties_pending |-> 0]

Init ==
  /\ \E b \in [Addresses -> InitialBalances] : state = InitialState(b)
  /\ s = state
  /\ receipts = 0 /\ block_receipts = 0
  /\ block_number = 0 /\ day = 0
  /\ in_block = FALSE /\ passive = FALSE /\ count = 0

-----------------------------------------------------------------------------
(* apply_block and apply_transaction.                                       *)

BeginsBlock(d) ==
  /\ ~in_block
  /\ block_number < MaxBlocks
  /\ day' = d
  /\ block_number' = block_number + 1

\* On the Sabbath a block runs only if it has none but HALT, NOOP, BALANCE and
\* RECEIPT instructions.
restricted_never(d) == FALSE
restricted(d) == is_sabbath(d)

BeginBlock(d) ==
  /\ BeginsBlock(d)
  /\ in_block' = TRUE
  /\ passive' = restricted(d)
  /\ count' = 0
  /\ UNCHANGED <<state, s, receipts, block_receipts>>

\* Every other block of a Sabbath is replaced by one receipt.
SabbathBlock(d) ==
  /\ BeginsBlock(d)
  /\ is_sabbath(d)
  /\ UNCHANGED <<state, s, receipts, block_receipts, in_block, passive, count>>

\* A transaction, and then the block, stop after an instruction that finds or
\* leaves the machine halted; so the first instruction of a block always runs.
goes_on == count = 0 \/ ~s.halted

Executes ==
  /\ in_block
  /\ count < MaxInstructions
  /\ goes_on
  /\ count' = count + 1
  /\ UNCHANGED <<state, receipts, block_number, day, in_block, passive>>

EndBlock ==
  /\ in_block
  /\ in_block' = FALSE
  /\ state' = s
  /\ receipts' = receipts + block_receipts
  /\ block_receipts' = 0
  /\ UNCHANGED <<s, block_number, day, passive, count>>

\* An exception: the copy is lost, and the number with it.  The bug: the block
\* works on the caller's state.
kept_after_throw == s
kept == state

ThrowBlock ==
  /\ in_block
  /\ in_block' = FALSE
  /\ state' = kept
  /\ s' = kept
  /\ block_receipts' = 0
  /\ block_number' = block_number - 1
  /\ UNCHANGED <<receipts, day, passive, count>>

-----------------------------------------------------------------------------
(* Instructions.                                                            *)

op_halt == Executes /\ s' = [s EXCEPT !.halted = TRUE] /\ UNCHANGED block_receipts

\* NOOP, BALANCE, RECEIPT, and an instruction that is refused.
op_noop == Executes /\ UNCHANGED <<s, block_receipts>>

Active == Executes /\ ~passive

\* The receipt of an instruction tells nobody of Ase that is theirs to keep.
Plain == Active /\ UNCHANGED block_receipts

moved(balances, sender, to, amount) ==
  [[balances EXCEPT ![sender] = @ - amount] EXCEPT ![to] = @ + amount]

op_transfer(sender, to, amount) ==
  /\ Plain
  /\ s.balances[sender] >= amount
  /\ s' = [s EXCEPT !.balances = moved(s.balances, sender, to, amount)]

op_stake(sender, amount) ==
  /\ Plain
  /\ s.balances[sender] >= amount
  /\ s' = [s EXCEPT !.balances[sender] = @ - amount, !.staked[sender] = @ + amount]

op_unstake(sender, amount) ==
  /\ Plain
  /\ s.staked[sender] >= amount
  /\ s' = [s EXCEPT !.balances[sender] = @ + amount, !.staked[sender] = @ - amount]

born_before == IF day # current_day THEN 0 ELSE s.agents_born_today

\* The creator, whom an argument may name, pays the fee; process_agent_birth.
op_agent_birth(creator_address) ==
  /\ Plain
  /\ s.balances[creator_address] >= AgentBirthFee
  /\ ~is_sabbath(day)
  /\ born_before < MaxAgentsPerDay
  /\ s' = [s EXCEPT !.balances[creator_address] = @ - AgentBirthFee,
                    !.total_locked_for_births = @ + AgentBirthFee,
                    !.agents_born_today = born_before + 1]

op_agent_convert(sender, amount) ==
  /\ Plain
  /\ ~is_sabbath(day)
  /\ s.balances[sender] >= amount
  /\ s' = [s EXCEPT !.balances[sender] = @ - amount, !.total_burned = @ + amount]

\* 10% to the creator in seven days, 5% burned; of the rest 30 parts in 85 are
\* the agent's to keep, as the receipt says, and the others are burned.
royalty_amount(total) == total \div 10
protocol_burn(total) == total \div 20
\* The bug: the shares are taken one by one and need not add up.
agent_share_rounded(total) == (total * 85) \div 100
agent_share(total) == total - royalty_amount(total) - protocol_burn(total)
ase_treasury(total) == (agent_share(total) * 30) \div 85

op_job_payment(sender, total) ==
  /\ Active
  /\ ~is_sabbath(day)
  /\ s.balances[sender] >= total
  /\ s' = [s EXCEPT
             !.balances[sender] = @ - total,
             !.royalties_pending = @ + royalty_amount(total),
             !.total_burned = @ + protocol_burn(total) + agent_share(total) - ase_treasury(total)]
  /\ block_receipts' = block_receipts + ase_treasury(total)

\* A block whose number is not the next one: an exception, too.
RefuseBlock == ~in_block /\ UNCHANGED vars

Next ==
  \/ \E d \in Days : BeginBlock(d) \/ SabbathBlock(d)
  \/ RefuseBlock \/ EndBlock \/ ThrowBlock \/ op_halt \/ op_noop
  \/ \E a \in Addresses :
       \/ op_agent_birth(a)
       \/ \E n \in Amounts :
            \/ op_stake(a, n) \/ op_unstake(a, n)
            \/ op_agent_convert(a, n) \/ op_job_payment(a, n)
            \/ \E b \in Addresses : op_transfer(a, b, n)

Spec == Init /\ [][Next]_vars

-----------------------------------------------------------------------------
(* Properties.                                                              *)

Total(f) == SumFunctionOnSet(f, Addresses)

\* All the Ase a state knows of.
Circulating(st) ==
  Total(st.balances) + Total(st.staked) + st.total_locked_for_births + st.total_burned
    + st.royalties_pending

\* Ase that leaves the books is on a receipt: no balance gets an agent's share of a
\* job payment (op_job_payment, process_job_payment), so what the returned states
\* no longer hold is exactly what the receipts they return say agents keep, and a
\* block that throws or is replaced on the Sabbath takes none.
LossIsReceipted ==
  [][Circulating(state') + receipts' = Circulating(state) + receipts]_vars

\* Nothing that counts changes on the Sabbath: such a block can at most halt
\* the machine.
SabbathRests ==
  [][is_sabbath(day) /\ in_block => [s' EXCEPT !.halted = s.halted] = s]_vars

=============================================================================
