----------------------------- MODULE VmEconomy -----------------------------
(***************************************************************************)
(* How oso_vm.jl runs a program (execute_ir, execute_batch) and the          *)
(* instructions that move Ase.                                               *)
(*                                                                           *)
(* execute_ir gathers critical instructions into a batch and runs the batch  *)
(* when it meets one that is not critical, or the end.  Nothing happens while *)
(* it gathers, so here a critical instruction runs when it is met.  What is  *)
(* left of the batch is its failure: an exception (REQUIRE) drops the rest of *)
(* the batch, and the program goes on after the next instruction that is not *)
(* critical.  Nothing is rolled back.  The program is any sequence.          *)
(*                                                                           *)
(* Amounts are whole; a creator's 10% is amount \div 10.  TITHE reads a      *)
(* balance and adds to a total that nothing reads; it is among the            *)
(* instructions that change nothing here.                                    *)
(***************************************************************************)
EXTENDS Integers, FiniteSets, Folds, Functions

CONSTANTS
  Addresses,
  InitialBalance,    \* what each address starts with
  Amounts,           \* what the arguments may say; also negative amounts
  BirthFee,          \* 10
  MaxNegatives,      \* bound: the negative payments of a behaviour
  Nobody             \* no sender yet

VARIABLES
  running, halted, skipping, current_sender,
  ase_balance, staked,
  genesis_used,      \* a GenesisFlawUsed among vm.events
  block_height,
  agents,            \* _AGENT_REGISTRY_GLOBAL, which the mints of other requests fill
  minted,            \* (history) the genesis flaws paid out
  gone,              \* (history) Ase that left: burned, locked, paid to agents, or lost
  negatives          \* (history) the payments accepted whose amount was negative

vars == <<running, halted, skipping, current_sender, ase_balance, staked, genesis_used,
          block_height, agents, minted, gone, negatives>>
control == <<running, halted, skipping, current_sender>>
context == <<block_height, agents>>
history == <<minted, gone, negatives>>

Init ==
  /\ running = FALSE /\ halted = FALSE /\ skipping = FALSE
  /\ current_sender = Nobody
  /\ ase_balance = [a \in Addresses |-> InitialBalance]
  /\ staked = [a \in Addresses |-> 0]
  /\ genesis_used = FALSE /\ block_height = 0
  /\ agents = {}
  /\ minted = 0 /\ gone = 0 /\ negatives = 0

-----------------------------------------------------------------------------
(* A program.                                                               *)

BeginProgram(sender) ==
  /\ ~running
  /\ running' = TRUE /\ halted' = FALSE /\ skipping' = FALSE
  /\ current_sender' = sender
  /\ UNCHANGED <<ase_balance, staked, genesis_used, context, history>>

EndProgram ==
  /\ running
  /\ running' = FALSE
  /\ UNCHANGED <<halted, skipping, current_sender, ase_balance, staked, genesis_used, context,
                 history>>

\* Not critical: the batch before it is done, and the program ends with it.
HALT ==
  /\ running
  /\ running' = FALSE /\ halted' = TRUE /\ skipping' = FALSE
  /\ UNCHANGED <<current_sender, ase_balance, staked, genesis_used, context, history>>

\* NOOP, and the opcodes that are offloaded.
NotCritical ==
  /\ running
  /\ skipping' = FALSE
  /\ UNCHANGED <<running, halted, current_sender, ase_balance, staked, genesis_used, context,
                 history>>

\* A condition that does not hold throws out of the batch.
REQUIRE ==
  /\ running
  /\ skipping' = TRUE
  /\ UNCHANGED <<running, halted, current_sender, ase_balance, staked, genesis_used, context,
                 history>>

InBatch == running /\ ~skipping

-----------------------------------------------------------------------------
(* The instructions.  A refused one changes nothing, with one exception.     *)

\* The bug: the recipient's balance was read before the sender's was written.
moved_stale(balance, from, to, amount) ==
  [[balance EXCEPT ![from] = @ - amount] EXCEPT ![to] = balance[to] + amount]
moved(balance, from, to, amount) ==
  [[balance EXCEPT ![from] = @ - amount] EXCEPT ![to] = @ + amount]

transferable(amount) == amount >= 0 /\ ase_balance[current_sender] >= amount

TRANSFER(to, amount) ==
  /\ InBatch
  /\ transferable(amount)
  /\ ase_balance' = moved(ase_balance, current_sender, to, amount)
  /\ UNCHANGED <<control, staked, genesis_used, context, history>>

STAKE(amount) ==
  /\ InBatch
  /\ amount >= 0 /\ ase_balance[current_sender] >= amount
  /\ ase_balance' = [ase_balance EXCEPT ![current_sender] = @ - amount]
  /\ staked' = [staked EXCEPT ![current_sender] = @ + amount]
  /\ UNCHANGED <<control, genesis_used, context, history>>

UNSTAKE(amount) ==
  /\ InBatch
  /\ amount >= 0 /\ staked[current_sender] >= amount
  /\ staked' = [staked EXCEPT ![current_sender] = @ - amount]
  /\ ase_balance' = [ase_balance EXCEPT ![current_sender] = @ + amount]
  /\ UNCHANGED <<control, genesis_used, context, history>>

GENESIS_FLAW_TOKEN ==
  /\ InBatch
  /\ block_height = 0 /\ ~genesis_used
  /\ ase_balance' = [ase_balance EXCEPT ![current_sender] = @ + 1]
  /\ genesis_used' = TRUE
  /\ minted' = minted + 1
  /\ UNCHANGED <<control, staked, context, gone, negatives>>

\* A program may emit an event of that name too; other events matter to nobody.
EMIT ==
  /\ InBatch
  /\ genesis_used' = TRUE
  /\ UNCHANGED <<control, ase_balance, staked, context, history>>

\* The payments ask only that the balance covers the amount, which it does a
\* negative one.  What is spent is burned, locked, or lost.
Pays(amount) ==
  /\ InBatch
  /\ ase_balance[current_sender] >= amount
  /\ amount < 0 => negatives < MaxNegatives
  /\ negatives' = IF amount < 0 THEN negatives + 1 ELSE negatives
  /\ UNCHANGED <<control, staked, genesis_used, context, minted>>

Spend(amount) ==
  /\ Pays(amount)
  /\ ase_balance' = [ase_balance EXCEPT ![current_sender] = @ - amount]
  /\ gone' = gone + amount

AGENT_CONVERT(amount) == Spend(amount)
AGENT_BIRTH == Spend(BirthFee)

creator_share(total) == total \div 10

JOB_PAYMENT(total, creator) ==
  /\ creator \in Addresses \ agents
  /\ Pays(total)
  /\ ase_balance' = [[ase_balance EXCEPT ![current_sender] = @ - total]
                       EXCEPT ![creator] = @ + creator_share(total)]
  /\ gone' = gone + total - creator_share(total)

\* Without a creator nobody gets a share.  With an agent as the creator it is
\* the exception to refusing: the guard refuses when the sender is debited.
JOB_PAYMENTtoNobody(total) == Spend(total)

RefusedJOB_PAYMENT(total, creator) ==
  /\ creator \in agents
  /\ Spend(total)

\* Every other instruction, every one that is refused, and every one of a
\* batch that failed or a machine that is halted.
Refused == UNCHANGED vars

-----------------------------------------------------------------------------
(* Around the VM.                                                           *)

\* The first successful TOC_MINT of an address, in this request or another.
RegisterAgent(a) ==
  /\ a \notin agents
  /\ agents' = agents \cup {a}
  /\ UNCHANGED <<control, ase_balance, staked, genesis_used, block_height, history>>

\* Set by who embeds the VM, between programs.
AdvanceBlock ==
  /\ ~running
  /\ block_height = 0
  /\ block_height' = 1
  /\ UNCHANGED <<control, ase_balance, staked, genesis_used, agents, history>>

Next ==
  \/ EndProgram \/ HALT \/ NotCritical \/ REQUIRE \/ Refused \/ AdvanceBlock
  \/ GENESIS_FLAW_TOKEN \/ EMIT \/ AGENT_BIRTH
  \/ \E a \in Addresses : BeginProgram(a) \/ RegisterAgent(a)
  \/ \E a \in Addresses, n \in Amounts : TRANSFER(a, n)
  \/ \E n \in Amounts :
       \/ STAKE(n) \/ UNSTAKE(n) \/ AGENT_CONVERT(n) \/ JOB_PAYMENTtoNobody(n)
       \/ \E c \in Addresses : JOB_PAYMENT(n, c) \/ RefusedJOB_PAYMENT(n, c)

Spec == Init /\ [][Next]_vars

-----------------------------------------------------------------------------
(* Properties.                                                              *)

Total(f) == SumFunctionOnSet(f, Addresses)

\* No sequence of programs, failing or not, creates or loses Ase: what is in
\* balances and stakes is what there was at the start and from the genesis
\* flaw, less what was spent.
AseAccounted ==
  Total(ase_balance) + Total(staked) + gone = Cardinality(Addresses) * InitialBalance + minted

\* Nobody spends or unstakes more than he has, whatever amounts the programs
\* name and wherever they break off - until AGENT_CONVERT or JOB_PAYMENT, which
\* unlike the others accept it, is given a negative amount.
NoOverdraft ==
  negatives = 0 => \A a \in Addresses : ase_balance[a] >= 0 /\ staked[a] >= 0

\* The genesis flaw pays at most once in the life of a VM, in whichever program
\* it is tried and whatever events programs emit.
GenesisOnce == minted <= 1

=============================================================================
