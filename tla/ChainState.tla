----------------------------- MODULE ChainState -----------------------------
(***************************************************************************)
(* The account ledger of the native chain (blockchain/consensus/src,         *)
(* state.rs and consensus.rs): validate_transaction judges a transaction     *)
(* against the current state, and finalize_block applies the transactions    *)
(* of a block one after the other, with the ? operator, so that a transfer   *)
(* that fails ends the block with what came before it already applied.      *)
(*                                                                         *)
(* finalize_block has the state to itself; it is modelled one transaction a  *)
(* step so that what each one finds can be spoken of.  Amounts are u64 in    *)
(* the code and cannot overflow while the total is conserved.  Root hashes,  *)
(* the block history (one zero hash per height) and the receipts, which      *)
(* nothing writes, are left out.                                            *)
(***************************************************************************)
EXTENDS Integers, Sequences, FiniteSets, Functions

CONSTANTS
  Addresses,    \* accounts there may be
  Genesis,      \* the balances of the accounts there are to begin with
  Blocks,       \* the transaction lists that may reach finalize_block
  MaxHeight,    \* bound of the model on the height
  MaxNonce      \* bound of the model on the nonces

\* Transactions whose account and nonce validate_transaction checks; Governance
\* stands for InheritanceClaim too, the other kind it waves through.
Checked == {"Transfer", "TechGnosDeploy", "TechGnosCall"}
Kinds == Checked \cup {"Governance"}

Transaction ==
  [kind : Kinds, sender : Addresses, to : Addresses, amount : Nat, nonce : Nat]

\* A contract is stored under its sender and the height ("{}_contract_{}").
Contracts == Addresses \X Nat

ASSUME GenesisAssumption == \E S \in SUBSET Addresses : Genesis \in [S -> Nat]
ASSUME AddressesAssumption == IsFiniteSet(Addresses)
ASSUME BlocksAssumption == Blocks \subseteq Seq(Transaction)

\* What the caller of finalize_block sees to: nothing, that the block is validated
\* just before, or also that no sender has two transactions in it.  The code
\* enforces none of it.
Callers == {"any", "validates", "single"}

VARIABLES
  accounts,      \* the addresses that have an account
  ase_balance,
  nonce,
  code,          \* the deployments that are stored, by contract address
  block_height,
  block,         \* the block being finalized
  cursor,        \* its next transaction, 0 when no block is being finalized
  caller         \* which caller this node has

chainVars == <<accounts, ase_balance, nonce, code, block_height, block, cursor, caller>>

-----------------------------------------------------------------------------
Init ==
  /\ accounts = DOMAIN Genesis
  /\ ase_balance = [a \in Addresses |-> IF a \in DOMAIN Genesis THEN Genesis[a] ELSE 0]
  /\ nonce = [a \in Addresses |-> 0]
  /\ code = [k \in {} |-> 0]
  /\ block_height = 0
  /\ block = <<>>
  /\ cursor = 0
  /\ caller \in Callers

\* Mutant: the balance is not looked at.
validate_transaction_any_balance(tx) ==
  tx.kind \in Checked => tx.sender \in accounts /\ nonce[tx.sender] = tx.nonce

\* State::validate_transaction; verify_structure has seen to empty addresses.
validate_transaction(tx) ==
  tx.kind \in Checked =>
    /\ tx.sender \in accounts
    /\ nonce[tx.sender] = tx.nonce
    /\ tx.kind = "Transfer" => ase_balance[tx.sender] >= tx.amount

\* propose_block and validate_state_transitions: every transaction is judged
\* against the same state, the one before the block.
validate_state_transitions(b) == \A i \in 1..Len(b) : validate_transaction(b[i])

OneTxPerSender(b) == \A i, j \in 1..Len(b) : b[i].sender = b[j].sender => i = j

tx == block[cursor]

InBlock == cursor \in 1..Len(block)

\* validate_block returns the error and the node drops the block.
RefuseBlock(b) == cursor = 0 /\ ~validate_state_transitions(b) /\ UNCHANGED chainVars

BeginFinalize(b) ==
  /\ cursor = 0
  /\ block_height < MaxHeight
  /\ \A a \in Addresses : nonce[a] + Len(b) <= MaxNonce
  /\ caller # "any" => validate_state_transitions(b)
  /\ caller = "single" => OneTxPerSender(b)
  /\ block' = b
  /\ cursor' = 1
  /\ UNCHANGED <<accounts, ase_balance, nonce, code, block_height, caller>>

\* The debit comes first, so a transfer to oneself changes nothing.
debited(t) == [ase_balance EXCEPT ![t.sender] = @ - t.amount]

\* Mutant: a transfer to oneself credits the balance read before the debit.
transferred_stale(t) == [debited(t) EXCEPT ![t.to] = ase_balance[t.to] + t.amount]

transferred(t) == [debited(t) EXCEPT ![t.to] = @ + t.amount]

\* What finalize_block does after each transaction: the nonce moves on whatever
\* nonce the transaction was signed for.
NextTransaction ==
  /\ nonce' = [nonce EXCEPT ![tx.sender] = @ + 1]
  /\ cursor' = cursor + 1
  /\ UNCHANGED <<block, block_height, caller>>

ApplyTransfer ==
  /\ InBlock /\ tx.kind = "Transfer"
  /\ ase_balance[tx.sender] >= tx.amount
  /\ ase_balance' = transferred(tx)
  /\ accounts' = accounts \cup {tx.sender, tx.to}
  /\ NextTransaction
  /\ UNCHANGED code

\* The transfer fails and finalize_block returns its error; nothing is undone.
FailTransfer ==
  /\ InBlock /\ tx.kind = "Transfer"
  /\ ase_balance[tx.sender] < tx.amount
  /\ cursor' = 0
  /\ block' = <<>>
  /\ UNCHANGED <<accounts, ase_balance, nonce, code, block_height, caller>>

contract_addr(t) == <<t.sender, block_height>>

\* deploy_contract overwrites the bytecode of a contract of the same address.
ApplyDeploy ==
  /\ InBlock /\ tx.kind = "TechGnosDeploy"
  /\ code' = [k \in DOMAIN code \cup {contract_addr(tx)} |->
                IF k = contract_addr(tx) THEN tx ELSE code[k]]
  /\ accounts' = accounts \cup {tx.sender}
  /\ NextTransaction
  /\ UNCHANGED ase_balance

ApplyOther ==
  /\ InBlock /\ tx.kind \in {"TechGnosCall", "Governance"}
  /\ accounts' = accounts \cup {tx.sender}
  /\ NextTransaction
  /\ UNCHANGED <<ase_balance, code>>

CommitBlock ==
  /\ cursor > Len(block)
  /\ block_height' = block_height + 1
  /\ cursor' = 0
  /\ block' = <<>>
  /\ UNCHANGED <<accounts, ase_balance, nonce, code, caller>>

Apply == ApplyTransfer \/ FailTransfer \/ ApplyDeploy \/ ApplyOther \/ CommitBlock

Next == (\E b \in Blocks : BeginFinalize(b) \/ RefuseBlock(b)) \/ Apply

Spec == Init /\ [][Next]_chainVars

-----------------------------------------------------------------------------
\* Balances and nonces stay u64 values of known accounts, deployments stay under
\* a sender and a height, and finalize_block never reads past the block.
TypeOK ==
  /\ accounts \in SUBSET Addresses
  /\ ase_balance \in [Addresses -> Nat]
  /\ nonce \in [Addresses -> Nat]
  /\ DOMAIN code \subseteq Contracts
  /\ \A k \in DOMAIN code : code[k] \in Transaction
  /\ block_height \in Nat
  /\ block \in Seq(Transaction)
  /\ cursor \in Nat
  /\ cursor <= Len(block) + 1
  /\ caller \in Callers

\* Finalizing blocks moves Ase and never makes or loses any, also when a block
\* fails halfway; so no balance can outgrow u64.
AseConserved == SumFunction(ase_balance) = SumFunction(Genesis)

\* A block without two transactions of one sender that was validated just before
\* is finalized to its end: no transfer in it finds its sender short once the
\* transactions before it have been applied.
NeverHalfway ==
  caller = "single" /\ InBlock /\ tx.kind = "Transfer" => ase_balance[tx.sender] >= tx.amount

\* In such a block a transaction whose nonce is checked is applied under the nonce
\* it was signed for, so it cannot be applied again.
CheckedUnderOwnNonce ==
  caller = "single" /\ InBlock /\ tx.kind \in Checked => tx.nonce = nonce[tx.sender]

\* A contract deployed in such blocks stays what it was deployed as.
ContractsKept ==
  [][caller = "single" => \A k \in DOMAIN code : k \in DOMAIN code' /\ code'[k] = code[k]]_chainVars

-----------------------------------------------------------------------------
(* The invariant behind the last three.                                     *)

\* The rest of the block is still valid, and the contracts of this height are
\* those of the senders that have had their turn.
RestValid ==
  cursor > 0 =>
    /\ OneTxPerSender(block)
    /\ \A i \in cursor..Len(block) : validate_transaction(block[i])

ContractsPast ==
  \A k \in DOMAIN code :
    \/ k[2] < block_height
    \/ /\ k[2] = block_height
       /\ cursor > 0
       /\ \E i \in 1..(cursor - 1) : i <= Len(block) /\ block[i].sender = k[1]

ChainInv == TypeOK /\ (caller = "single" => RestValid /\ ContractsPast)

=============================================================================
