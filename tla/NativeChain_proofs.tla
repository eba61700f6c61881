------------------------- MODULE NativeChain_proofs -------------------------
(***************************************************************************)
(* Proofs about the native chain, for any accounts, validators and blocks.   *)
(*                                                                           *)
(* The ledger: TypeOK is inductive by itself, and so is the conservation of  *)
(* Ase.  What a block validated against the state before it may rely on      *)
(* while it is applied needs the invariant ChainInv: when no sender has two  *)
(* transactions in a block, the rest of it is still valid, because whoever   *)
(* is left has neither used a nonce nor spent, and the contracts of this     *)
(* height belong to the senders that had their turn.                        *)
(*                                                                           *)
(* The voting: the precommits counted are those of the round whenever the   *)
(* number of the round can be read, because next_round keeps the lock on it  *)
(* until the votes are cleared.  VotingInv says so, and what a caller that   *)
(* has read the number may conclude.                                        *)
(***************************************************************************)
EXTENDS MCNativeChain, Sums


USE BlocksAssumption, GenesisAssumption

\* The transaction under the cursor is one of the block.
LEMMA CursorType ==
  ASSUME TypeOK, InBlock
  PROVE  /\ tx \in Transaction
         /\ tx.kind \in Kinds /\ tx.sender \in Addresses /\ tx.to \in Addresses
         /\ tx.amount \in Nat /\ tx.nonce \in Nat
<1>1. tx \in Transaction
  BY DEF TypeOK, InBlock, tx
<1> QED  BY <1>1 DEF Transaction

\* What a covered transfer does to the balances: they stay natural numbers and
\* only the sender's can get smaller.
LEMMA TransferredType ==
  ASSUME ase_balance \in [Addresses -> Nat],
         NEW t \in Transaction, ase_balance[t.sender] >= t.amount
  PROVE  /\ transferred(t) \in [Addresses -> Nat]
         /\ \A a \in Addresses : a # t.sender => transferred(t)[a] >= ase_balance[a]
<1>1. t.sender \in Addresses /\ t.to \in Addresses /\ t.amount \in Nat
  BY DEF Transaction
<1>2. ase_balance[t.sender] - t.amount \in Nat
  BY <1>1
<1>3. PICK f \in [Addresses -> Nat] : f = debited(t)
  BY <1>1, <1>2 DEF debited
<1>4. \A a \in Addresses : a # t.sender => f[a] = ase_balance[a]
  BY <1>1, <1>3 DEF debited
<1>5. transferred(t) = [f EXCEPT ![t.to] = @ + t.amount]
  BY <1>3 DEF transferred
<1> QED  BY <1>1, <1>4, <1>5

\* The bookkeeping after a transaction keeps the types.
LEMMA NextTransactionType ==
  ASSUME TypeOK, InBlock, NextTransaction
  PROVE  /\ nonce' \in [Addresses -> Nat]
         /\ cursor' \in Nat /\ cursor' <= Len(block') + 1
<1>1. PICK s \in Addresses : s = tx.sender
  BY CursorType
<1>2. nonce' = [nonce EXCEPT ![s] = @ + 1]
  BY <1>1 DEF NextTransaction
<1>3. nonce' \in [Addresses -> Nat]
  BY <1>2 DEF TypeOK
<1>4. cursor' \in Nat /\ cursor' <= Len(block') + 1
  BY DEF TypeOK, NextTransaction, InBlock
<1> QED  BY <1>3, <1>4

-----------------------------------------------------------------------------
LEMMA InitTypeOK == Init => TypeOK
<1> SUFFICES ASSUME Init  PROVE TypeOK
  OBVIOUS
<1>1. PICK S \in SUBSET Addresses : Genesis \in [S -> Nat]
  OBVIOUS
<1>2. accounts \in SUBSET Addresses /\ ase_balance \in [Addresses -> Nat]
  BY <1>1 DEF Init
<1>3. block = <<>> /\ block \in Seq(Transaction) /\ Len(block) = 0
  BY DEF Init
<1> QED  BY <1>2, <1>3 DEF Init, TypeOK, Contracts

LEMMA NextTypeOK == TypeOK /\ [Next]_chainVars => TypeOK'
<1> SUFFICES ASSUME TypeOK, [Next]_chainVars  PROVE TypeOK'
  OBVIOUS
<1>1. ASSUME NEW b \in Blocks, BeginFinalize(b)  PROVE TypeOK'
  <2>1. b \in Seq(Transaction) /\ Len(b) \in Nat
    OBVIOUS
  <2> QED  BY <1>1, <2>1 DEF TypeOK, BeginFinalize
<1>2. ASSUME NEW b \in Blocks, RefuseBlock(b)  PROVE TypeOK'
  BY <1>2 DEF TypeOK, RefuseBlock, chainVars
<1>3. CASE ApplyTransfer
  <2> USE <1>3
  <2>1. InBlock /\ ase_balance[tx.sender] >= tx.amount
    BY DEF ApplyTransfer
  <2>2. ase_balance' \in [Addresses -> Nat]
    <3>1. ase_balance' = transferred(tx)
      BY DEF ApplyTransfer
    <3> QED  BY <2>1, <3>1, CursorType, TransferredType DEF TypeOK
  <2>3. nonce' \in [Addresses -> Nat] /\ accounts' \in SUBSET Addresses
    BY <2>1, CursorType, NextTransactionType DEF TypeOK, ApplyTransfer
  <2>4. cursor' \in Nat /\ cursor' <= Len(block') + 1
    BY <2>1, NextTransactionType DEF ApplyTransfer
  <2> QED  BY <2>2, <2>3, <2>4 DEF TypeOK, ApplyTransfer, NextTransaction
<1>4. CASE FailTransfer
  BY <1>4 DEF TypeOK, FailTransfer
<1>5. CASE ApplyDeploy
  <2> USE <1>5
  <2>1. InBlock
    BY DEF ApplyDeploy
  <2>2. nonce' \in [Addresses -> Nat] /\ accounts' \in SUBSET Addresses
    BY <2>1, CursorType, NextTransactionType DEF TypeOK, ApplyDeploy
  <2>3. cursor' \in Nat /\ cursor' <= Len(block') + 1
    BY <2>1, NextTransactionType DEF ApplyDeploy
  <2>4. contract_addr(tx) \in Contracts
    BY <2>1, CursorType DEF TypeOK, contract_addr, Contracts
  <2>5. DOMAIN code' \subseteq Contracts /\ \A k \in DOMAIN code' : code'[k] \in Transaction
    BY <2>1, <2>4, CursorType DEF TypeOK, ApplyDeploy
  <2> QED  BY <2>2, <2>3, <2>5 DEF TypeOK, ApplyDeploy, NextTransaction
<1>6. CASE ApplyOther
  <2> USE <1>6
  <2>1. InBlock
    BY DEF ApplyOther
  <2>2. nonce' \in [Addresses -> Nat] /\ accounts' \in SUBSET Addresses
    BY <2>1, CursorType, NextTransactionType DEF TypeOK, ApplyOther
  <2>3. cursor' \in Nat /\ cursor' <= Len(block') + 1
    BY <2>1, NextTransactionType DEF ApplyOther
  <2> QED  BY <2>2, <2>3 DEF TypeOK, ApplyOther, NextTransaction
<1>7. CASE CommitBlock
  BY <1>7 DEF TypeOK, CommitBlock
<1>8. CASE UNCHANGED chainVars
  BY <1>8 DEF TypeOK, chainVars
<1> QED  BY <1>1, <1>2, <1>3, <1>4, <1>5, <1>6, <1>7, <1>8 DEF Next, Apply

\* Whatever blocks reach finalize_block, balances never go below zero and
\* deployments stay where contract_addr puts them.
THEOREM TypeCorrect == Spec => []TypeOK
BY InitTypeOK, NextTypeOK, PTL DEF Spec

-----------------------------------------------------------------------------
\* Applying the transaction under the cursor leaves the later ones valid: they
\* are of other senders.
LEMMA RestStaysValid ==
  ASSUME TypeOK, RestValid, InBlock, NextTransaction,
         accounts \subseteq accounts',
         \A a \in Addresses : a # tx.sender => ase_balance'[a] >= ase_balance[a],
         ase_balance' \in [Addresses -> Nat]
  PROVE  RestValid'
<1>1. OneTxPerSender(block') /\ block' = block /\ cursor' = cursor + 1 /\ cursor \in Nat
  BY DEF RestValid, InBlock, NextTransaction, TypeOK, OneTxPerSender
<1>2. ASSUME NEW i \in (cursor + 1)..Len(block)
      PROVE  validate_transaction(block[i])'
  <2>1. i \in cursor..Len(block) /\ i # cursor /\ cursor \in 1..Len(block) /\ i \in 1..Len(block)
    BY <1>1 DEF InBlock
  <2>2. block[i].sender # tx.sender
    BY <2>1 DEF RestValid, OneTxPerSender, tx, InBlock
  <2>3. block[i] \in Transaction
    BY <2>1 DEF TypeOK
  <2>4. PICK u \in Transaction : u = block[i]
    BY <2>3
  <2>5. u.sender \in Addresses /\ u.amount \in Nat /\ u.sender # tx.sender
    BY <2>2, <2>4 DEF Transaction
  <2>6. nonce'[u.sender] = nonce[u.sender]
    BY <2>5 DEF NextTransaction, TypeOK
  <2>7. ase_balance'[u.sender] >= ase_balance[u.sender] /\ ase_balance[u.sender] \in Nat
          /\ ase_balance'[u.sender] \in Nat
    BY <2>5 DEF TypeOK
  <2>8. validate_transaction(u)
    BY <2>1, <2>4 DEF RestValid, InBlock
  <2>9. u.kind = "Transfer" /\ u.kind \in Checked => ase_balance'[u.sender] >= u.amount
    BY <2>5, <2>7, <2>8 DEF validate_transaction
  <2>10. block'[i] = u
    BY <1>1, <2>4
  <2> QED  BY <2>6, <2>8, <2>9, <2>10 DEF validate_transaction
<1> QED  BY <1>1, <1>2 DEF RestValid

\* Contracts that were there keep their place among the past ones.
LEMMA PastStaysPast ==
  ASSUME TypeOK, ContractsPast, InBlock, NextTransaction,
         \A k \in DOMAIN code' : k \in DOMAIN code \/ k = contract_addr(tx)
  PROVE  ContractsPast'
<1>1. block' = block /\ cursor' = cursor + 1 /\ cursor \in Nat /\ Len(block) \in Nat
        /\ block_height' = block_height
  BY DEF NextTransaction, TypeOK
<1>2. ASSUME NEW k \in DOMAIN code', k = contract_addr(tx)
      PROVE  /\ k[2] = block_height
             /\ cursor \in 1..((cursor + 1) - 1) /\ cursor <= Len(block)
             /\ block[cursor].sender = k[1]
  BY <1>1, <1>2 DEF contract_addr, tx, InBlock
<1>3. ASSUME NEW k \in DOMAIN code, k[2] = block_height, ~(k[2] < block_height)
      PROVE  \E i \in 1..((cursor + 1) - 1) : i <= Len(block) /\ block[i].sender = k[1]
  <2>1. PICK i \in 1..(cursor - 1) : i <= Len(block) /\ block[i].sender = k[1]
    BY <1>3 DEF ContractsPast
  <2>2. i \in 1..((cursor + 1) - 1)
    BY <1>1
  <2> QED  BY <2>1, <2>2
<1> QED  BY <1>1, <1>2, <1>3 DEF ContractsPast

LEMMA InitInv == Init => ChainInv
<1> SUFFICES ASSUME Init  PROVE ChainInv
  OBVIOUS
<1>1. RestValid /\ ContractsPast
  BY DEF Init, RestValid, ContractsPast
<1> QED  BY <1>1, InitTypeOK DEF ChainInv

\* A validated block never fails halfway.
LEMMA NoFailure == ChainInv /\ caller = "single" => ~FailTransfer
<1> SUFFICES ASSUME ChainInv, caller = "single", FailTransfer  PROVE FALSE
  OBVIOUS
<1>1. InBlock /\ tx.kind = "Transfer" /\ ase_balance[tx.sender] < tx.amount /\ TypeOK
  BY DEF ChainInv, FailTransfer
<1>2. validate_transaction(tx)
  BY <1>1 DEF ChainInv, RestValid, InBlock, TypeOK, tx
<1>3. ase_balance[tx.sender] >= tx.amount
  BY <1>1, <1>2 DEF validate_transaction, Checked
<1>4. ase_balance[tx.sender] \in Nat /\ tx.amount \in Nat
  BY <1>1, CursorType DEF TypeOK
<1> QED  BY <1>1, <1>3, <1>4

LEMMA CallerKept == [Next]_chainVars => caller' = caller
BY DEF Next, Apply, BeginFinalize, RefuseBlock, ApplyTransfer, FailTransfer, ApplyDeploy,
       ApplyOther, CommitBlock, NextTransaction, chainVars

LEMMA NextInv == ChainInv /\ [Next]_chainVars => ChainInv'
<1> SUFFICES ASSUME ChainInv, [Next]_chainVars, caller = "single", TypeOK,
                    RestValid, ContractsPast
             PROVE  RestValid' /\ ContractsPast'
  BY NextTypeOK, CallerKept DEF ChainInv
<1>1. ASSUME NEW b \in Blocks, BeginFinalize(b)  PROVE RestValid' /\ ContractsPast'
  <2>1. block' = b /\ cursor' = 1 /\ cursor = 0 /\ UNCHANGED <<accounts, ase_balance, nonce, code, block_height>>
    BY <1>1 DEF BeginFinalize
  <2>2. OneTxPerSender(b) /\ validate_state_transitions(b)
    BY <1>1 DEF BeginFinalize
  <2>3. RestValid'
    BY <2>1, <2>2 DEF RestValid, validate_state_transitions, validate_transaction, OneTxPerSender
  <2>4. ContractsPast'
    BY <2>1 DEF ContractsPast
  <2> QED  BY <2>3, <2>4
<1>2. ASSUME NEW b \in Blocks, RefuseBlock(b)  PROVE RestValid' /\ ContractsPast'
  BY <1>2 DEF RefuseBlock, chainVars, RestValid, ContractsPast, validate_transaction, OneTxPerSender
<1>3. CASE ApplyTransfer
  <2>1. InBlock /\ NextTransaction /\ accounts \subseteq accounts' /\ code' = code
          /\ ase_balance' = transferred(tx) /\ ase_balance[tx.sender] >= tx.amount
    BY <1>3 DEF ApplyTransfer
  <2>2. RestValid'
    BY <2>1, CursorType, TransferredType, RestStaysValid DEF TypeOK
  <2> QED  BY <2>1, <2>2, PastStaysPast
<1>4. CASE FailTransfer
  BY <1>4, NoFailure
<1>5. CASE ApplyDeploy
  <2>1. InBlock /\ NextTransaction /\ accounts \subseteq accounts' /\ ase_balance' = ase_balance
          /\ \A k \in DOMAIN code' : k \in DOMAIN code \/ k = contract_addr(tx)
    BY <1>5 DEF ApplyDeploy
  <2>2. RestValid'
    BY <2>1, RestStaysValid DEF TypeOK
  <2> QED  BY <2>1, <2>2, PastStaysPast
<1>6. CASE ApplyOther
  <2>1. InBlock /\ NextTransaction /\ accounts \subseteq accounts' /\ ase_balance' = ase_balance
          /\ code' = code
    BY <1>6 DEF ApplyOther
  <2>2. RestValid'
    BY <2>1, RestStaysValid DEF TypeOK
  <2> QED  BY <2>1, <2>2, PastStaysPast
<1>7. CASE CommitBlock
  <2>1. cursor' = 0 /\ block_height' = block_height + 1 /\ code' = code /\ block_height \in Nat
    BY <1>7 DEF CommitBlock, TypeOK
  <2>2. \A k \in DOMAIN code : k[2] \in Nat
    BY DEF TypeOK, Contracts
  <2> QED  BY <2>1, <2>2 DEF RestValid, ContractsPast
<1>8. CASE UNCHANGED chainVars
  BY <1>8 DEF chainVars, RestValid, ContractsPast, validate_transaction, OneTxPerSender
<1> QED  BY <1>1, <1>2, <1>3, <1>4, <1>5, <1>6, <1>7, <1>8 DEF Next, Apply

LEMMA InvCorrect == Spec => []ChainInv
BY InitInv, NextInv, PTL DEF Spec

-----------------------------------------------------------------------------
LEMMA RestValidNow ==
  ASSUME ChainInv, caller = "single"  PROVE InBlock => validate_transaction(tx)
BY DEF ChainInv, RestValid, InBlock, TypeOK, tx

\* A block validated just before it is finalized, with no two transactions of
\* one sender, is finalized to its end.
THEOREM FinalizedWhole == Spec => []NeverHalfway
<1>1. ChainInv => NeverHalfway
  BY RestValidNow DEF NeverHalfway, validate_transaction, Checked
<1> QED  BY InvCorrect, <1>1, PTL

\* In such a block a nonce that is checked is the nonce that is used.
THEOREM NoncesMatch == Spec => []CheckedUnderOwnNonce
<1>1. ChainInv => CheckedUnderOwnNonce
  BY RestValidNow DEF CheckedUnderOwnNonce, validate_transaction
<1> QED  BY InvCorrect, <1>1, PTL

\* Among such blocks no deployment replaces another.
THEOREM ContractsAreKept == Spec => ContractsKept
<1> DEFINE Kept ==
      caller = "single" => \A k \in DOMAIN code : k \in DOMAIN code' /\ code'[k] = code[k]
<1>1. ChainInv /\ [Next]_chainVars => [Kept]_chainVars
  <2> SUFFICES ASSUME ChainInv, Next, caller = "single"  PROVE Kept
    OBVIOUS
  <2>1. CASE ApplyDeploy
    <3>1. contract_addr(tx) \notin DOMAIN code
      <4> SUFFICES ASSUME contract_addr(tx) \in DOMAIN code  PROVE FALSE
        OBVIOUS
      <4>1. InBlock /\ TypeOK /\ cursor \in Nat /\ block_height \in Nat
        BY <2>1 DEF ApplyDeploy, ChainInv, TypeOK
      <4>2. PICK i \in 1..(cursor - 1) : i <= Len(block) /\ block[i].sender = tx.sender
        BY <4>1 DEF ChainInv, ContractsPast, contract_addr
      <4>3. i \in 1..Len(block) /\ i # cursor /\ cursor \in 1..Len(block)
        BY <4>1, <4>2 DEF InBlock
      <4> QED  BY <4>2, <4>3 DEF ChainInv, RestValid, OneTxPerSender, tx
    <3> QED  BY <2>1, <3>1 DEF ApplyDeploy
  <2>2. CASE ~ApplyDeploy
    <3>1. code' = code
      BY <2>2 DEF Next, Apply, BeginFinalize, RefuseBlock, chainVars, ApplyTransfer,
                  FailTransfer, ApplyOther, CommitBlock
    <3> QED  BY <3>1
  <2> QED  BY <2>1, <2>2
<1> QED  BY InvCorrect, <1>1, PTL DEF Spec, ContractsKept

-----------------------------------------------------------------------------
(* Ase.                                                                     *)

HIDE GenesisAssumption
HIDE BlocksAssumption

\* A covered transfer leaves the sum of the balances, also one to oneself.
LEMMA TransferConserves ==
  ASSUME ase_balance \in [Addresses -> Nat],
         NEW t \in Transaction, ase_balance[t.sender] >= t.amount
  PROVE  SumFunctionOnSet(transferred(t), Addresses) = SumFunctionOnSet(ase_balance, Addresses)
<1>1. PICK x \in Addresses, y \in Addresses, n \in Nat :
        x = t.sender /\ y = t.to /\ n = t.amount
  BY DEF Transaction
<1>2. transferred(t) = [[ase_balance EXCEPT ![x] = @ - n] EXCEPT ![y] = @ + n]
  BY <1>1 DEF transferred, debited
<1>3. \A z \in Addresses : ase_balance[z] \in Nat
  OBVIOUS
<1>4. Moved(transferred(t), ase_balance, Addresses, x, n, y, n)
  BY <1>2, <1>3 DEF Moved
<1> QED
  BY <1>4, SumMoved, AddressesAssumption

\* Only a transfer touches a balance.
LEMMA OnlyTransfersMove ==
  [Next]_chainVars /\ ~ApplyTransfer => UNCHANGED ase_balance
BY DEF Next, Apply, BeginFinalize, RefuseBlock, FailTransfer, ApplyDeploy, ApplyOther,
       CommitBlock, chainVars

\* The accounts of the genesis are all that has a balance at first.
LEMMA GenesisSum ==
  Init => SumFunctionOnSet(ase_balance, Addresses) = SumFunction(Genesis)
<1> SUFFICES ASSUME Init
             PROVE  SumFunctionOnSet(ase_balance, Addresses) = SumFunctionOnSet(Genesis, DOMAIN Genesis)
  BY DEF SumFunction
<1>1. PICK S \in SUBSET Addresses : Genesis \in [S -> Nat]
  BY GenesisAssumption
<1>2. PICK b \in [Addresses -> Nat] :
        b = ase_balance /\ b = [a \in Addresses |-> IF a \in S THEN Genesis[a] ELSE 0]
  BY <1>1 DEF Init
<1>3. SumFunctionOnSet(b, Addresses) = SumFunctionOnSet(b, S)
  BY <1>2, SumZeros, AddressesAssumption
<1>4. SumFunctionOnSet(b, S) = SumFunctionOnSet(Genesis, S)
  <2>1. IsFiniteSet(S)
    BY FS_Subset, AddressesAssumption
  <2> QED
    BY <1>2, <2>1, SumAgree
<1> QED
  BY <1>1, <1>2, <1>3, <1>4

\* No sequence of blocks makes or loses Ase, not even one that fails halfway.
THEOREM NoAseMadeOrLost == Spec => []AseConserved
<1> DEFINE Conserved == SumFunctionOnSet(ase_balance, Addresses) = SumFunction(Genesis)
<1>1. TypeOK /\ Conserved => AseConserved
  BY DEF TypeOK, AseConserved, SumFunction
<1>2. TypeOK /\ Conserved /\ [Next]_chainVars => Conserved'
  <2> SUFFICES ASSUME TypeOK, Conserved, [Next]_chainVars PROVE Conserved'
    OBVIOUS
  <2>1. CASE ApplyTransfer
    <3>1. InBlock /\ ase_balance[tx.sender] >= tx.amount /\ ase_balance' = transferred(tx)
      BY <2>1 DEF ApplyTransfer
    <3>2. PICK t \in Transaction : t = tx
      BY <3>1, CursorType
    <3> QED
      BY <3>1, <3>2, TransferConserves DEF TypeOK
  <2>2. CASE ~ApplyTransfer
    BY <2>2, OnlyTransfersMove
  <2> QED
    BY <2>1, <2>2
<1>3. Init => Conserved
  BY GenesisSum
<1> QED
  BY <1>1, <1>2, <1>3, TypeCorrect, PTL DEF Spec

-----------------------------------------------------------------------------
(* The voting.                                                              *)

InNextRound(c) == pc[c] \in {"next_phase", "next_votes"}

\* A caller that has read a round and not yet read it again.
Asking(c) == pc[c] \in {"has_commit", "round_again"}

VotingTypes ==
  /\ round \in 0..MaxRound
  /\ pc \in [Voting -> {"idle", "next_phase", "next_votes", "add_votes", "add_phase",
                        "has_commit", "round_again"}]
  /\ lock \in [{"round", "phase", "votes"} -> Voting \cup {Free}]
  /\ seen \in [Voting -> 0..MaxRound]
  /\ vote \in [Voting -> [kind : {"Prevote", "Precommit", "none"}, validator : Names \cup {"none"}]]
  /\ \A c \in Voting : vote[c].kind # "none" => vote[c].validator \in Names
  /\ precommitted \in [0..MaxRound -> SUBSET Names]
  /\ confirmed \subseteq 0..MaxRound

\* Whoever is in next_round holds the lock on round, so that the precommits counted
\* are those of the round whenever its number can be read.
RoundHeld ==
  /\ lock["round"] = Free \/ InNextRound(lock["round"])
  /\ \A c \in Voting : InNextRound(c) => lock["round"] = c
  /\ lock["round"] = Free => precommits \subseteq precommitted[round]

\* The number a caller has read was either passed since, or its votes are the ones
\* that are counted.
RoundSeen ==
  \A c \in Voting :
    /\ Asking(c) => seen[c] < round \/ (seen[c] = round /\ lock["round"] = Free)
    /\ pc[c] = "round_again" /\ seen[c] = round =>
         Bft!Cardinality(precommitted[round]) >= Threshold

VotingInv == VotingTypes /\ RoundHeld /\ RoundSeen /\ Bft!CommitOfTheRound

\* It holds at the start.
LEMMA VotingInit == Bft!Init => VotingInv
BY BftSetting
DEF Bft!Init, Bft!Setting, Bft!Locks, Bft!NoVote, VotingInv, VotingTypes, RoundHeld, RoundSeen,
    InNextRound, Asking, Bft!CommitOfTheRound

\* More names are no fewer.
LEMMA MoreNames ==
  ASSUME NEW S \in SUBSET Names, NEW T \in SUBSET S
  PROVE  /\ Bft!Cardinality(S) \in Nat /\ Bft!Cardinality(T) \in Nat
         /\ Bft!Cardinality(T) <= Bft!Cardinality(S)
<1>1. IsFiniteSet(Names)
  BY BftSetting DEF Bft!Setting, Bft!IsFiniteSet, IsFiniteSet
<1>2. IsFiniteSet(S)
  BY <1>1, FS_Subset
<1>3. Cardinality(S) \in Nat /\ Cardinality(T) \in Nat /\ Cardinality(T) <= Cardinality(S)
  BY <1>2, FS_Subset, FS_CardinalityType
<1> QED
  BY <1>3 DEF Bft!Cardinality, Cardinality

\* Every step of the voting keeps the types, ...
LEMMA VotingTypesStep == VotingTypes /\ [Bft!Next]_(Bft!vars) => VotingTypes'
<1> SUFFICES ASSUME VotingTypes, [Bft!Next]_(Bft!vars) PROVE VotingTypes'
  OBVIOUS
<1> USE BftSetting DEF Bft!Setting, Bft!goto, Bft!stateVars, Bft!historyVars, VotingTypes
<1>0. CASE UNCHANGED Bft!vars
  BY <1>0 DEF Bft!vars
<1>1. ASSUME NEW c \in Voting, Bft!BeginNextRound(c) PROVE VotingTypes'
  BY <1>1 DEF Bft!BeginNextRound, Bft!round_taken
<1>2. ASSUME NEW c \in Voting, Bft!NextRoundPhase(c) PROVE VotingTypes'
  BY <1>2 DEF Bft!NextRoundPhase
<1>3. ASSUME NEW c \in Voting, Bft!NextRoundReset(c) PROVE VotingTypes'
  BY <1>3 DEF Bft!NextRoundReset, Bft!released, Bft!Locks
<1>4. ASSUME NEW c \in Voting, NEW kind \in Bft!VoteKinds, NEW validator \in Names,
             Bft!AddVote(c, kind, validator)
      PROVE  VotingTypes'
  BY <1>4 DEF Bft!AddVote, Bft!VoteKinds
<1>5. ASSUME NEW c \in Voting, Bft!CountVote(c) PROVE VotingTypes'
  BY <1>5 DEF Bft!CountVote
<1>6. ASSUME NEW c \in Voting, Bft!VotePhase(c) PROVE VotingTypes'
  BY <1>6 DEF Bft!VotePhase, Bft!released, Bft!Locks, Bft!NoVote
<1>7. ASSUME NEW c \in Voting, Bft!ReadRound(c) PROVE VotingTypes'
  BY <1>7 DEF Bft!ReadRound
<1>8. ASSUME NEW c \in Voting, Bft!AskCommit(c) PROVE VotingTypes'
  <2>1. CASE Bft!has_commit
    BY <1>8, <2>1 DEF Bft!AskCommit
  <2>2. CASE ~Bft!has_commit
    <3>1. /\ pc' = [pc EXCEPT ![c] = "idle"] /\ seen' = [seen EXCEPT ![c] = 0]
          /\ UNCHANGED <<round, phase, prevotes, precommits, lock, vote, precommitted, confirmed>>
      BY <1>8, <2>2 DEF Bft!AskCommit
    <3>2. seen' \in [Voting -> 0..MaxRound]
      BY <3>1
    <3> QED
      BY <3>1, <3>2
  <2> QED
    BY <2>1, <2>2
<1>9. ASSUME NEW c \in Voting, Bft!ReadRoundAgain(c) PROVE VotingTypes'
  BY <1>9 DEF Bft!ReadRoundAgain
<1> QED
  BY <1>0, <1>1, <1>2, <1>3, <1>4, <1>5, <1>6, <1>7, <1>8, <1>9 DEF Bft!Next

\* ... and with them the invariant.
LEMMA VotingInvStep == VotingInv /\ [Bft!Next]_(Bft!vars) => VotingInv'
<1> SUFFICES ASSUME VotingInv, [Bft!Next]_(Bft!vars) PROVE VotingInv'
  OBVIOUS
<1>t. VotingTypes /\ VotingTypes' /\ RoundHeld /\ RoundSeen /\ Bft!CommitOfTheRound
  BY VotingTypesStep DEF VotingInv
<1> SUFFICES RoundHeld' /\ RoundSeen' /\ Bft!CommitOfTheRound'
  BY <1>t DEF VotingInv
<1> USE BftSetting
    DEF Bft!Setting, Bft!goto, Bft!stateVars, Bft!historyVars, InNextRound, Asking, RoundHeld,
        RoundSeen, Bft!CommitOfTheRound
<1> DEFINE Goal == RoundHeld' /\ RoundSeen' /\ Bft!CommitOfTheRound'
<1>0. CASE UNCHANGED Bft!vars
  BY <1>0, <1>t DEF Bft!vars
<1>1. ASSUME NEW c \in Voting, Bft!BeginNextRound(c) PROVE Goal
  BY <1>1, <1>t DEF Bft!BeginNextRound, Bft!round_taken, VotingTypes
<1>2. ASSUME NEW c \in Voting, Bft!NextRoundPhase(c) PROVE Goal
  BY <1>2, <1>t DEF Bft!NextRoundPhase, VotingTypes
<1>3. ASSUME NEW c \in Voting, Bft!NextRoundReset(c) PROVE Goal
  BY <1>3, <1>t DEF Bft!NextRoundReset, Bft!reset_precommits, Bft!released, Bft!Locks, VotingTypes
<1>4. ASSUME NEW c \in Voting, NEW kind \in Bft!VoteKinds, NEW validator \in Names,
             Bft!AddVote(c, kind, validator)
      PROVE  Goal
  BY <1>4, <1>t DEF Bft!AddVote, VotingTypes
<1>5. ASSUME NEW c \in Voting, Bft!CountVote(c) PROVE Goal
  <2>1. \A r \in 0..MaxRound : precommitted[r] \subseteq precommitted'[r]
    BY <1>5, <1>t DEF Bft!CountVote, VotingTypes
  <2>2. \A r \in 0..MaxRound :
          /\ Bft!Cardinality(precommitted'[r]) \in Nat
          /\ Bft!Cardinality(precommitted[r]) \in Nat
          /\ Bft!Cardinality(precommitted[r]) <= Bft!Cardinality(precommitted'[r])
    BY <2>1, <1>t, MoreNames DEF VotingTypes
  <2>3. /\ UNCHANGED <<round, seen, confirmed>>
        /\ lock'["round"] = lock["round"]
        /\ pc' = [pc EXCEPT ![c] = "add_phase"] /\ pc[c] = "add_votes"
    BY <1>5, <1>t DEF Bft!CountVote, VotingTypes
  <2>4. precommits \subseteq precommitted[round] => precommits' \subseteq precommitted'[round]
    BY <1>5, <1>t DEF Bft!CountVote, VotingTypes
  <2>5. RoundHeld'
    BY <2>3, <2>4, <1>t DEF VotingTypes
  <2>6. RoundSeen'
    <3> SUFFICES ASSUME NEW k \in Voting
                 PROVE  /\ Asking(k)' => seen'[k] < round'
                                        \/ (seen'[k] = round' /\ lock'["round"] = Free)
                        /\ pc'[k] = "round_again" /\ seen'[k] = round' =>
                             Bft!Cardinality(precommitted'[round']) >= Threshold
      OBVIOUS
    <3>1. pc'[k] \in {"has_commit", "round_again"} => pc[k] = pc'[k]
      BY <2>3, <1>t DEF VotingTypes
    <3>2. pc[k] = "round_again" /\ seen[k] = round =>
            Bft!Cardinality(precommitted[round]) >= Threshold
      BY <1>t
    <3>3. /\ round \in 0..MaxRound /\ round' = round /\ seen' = seen
          /\ Bft!Cardinality(precommitted'[round]) \in Nat
          /\ Bft!Cardinality(precommitted[round]) \in Nat
          /\ Bft!Cardinality(precommitted[round]) <= Bft!Cardinality(precommitted'[round])
      BY <2>2, <2>3, <1>t DEF VotingTypes
    <3>4. pc'[k] = "round_again" /\ seen'[k] = round' =>
            Bft!Cardinality(precommitted'[round']) >= Threshold
      BY <3>1, <3>2, <3>3
    <3>5. Asking(k) => seen[k] < round \/ (seen[k] = round /\ lock["round"] = Free)
      BY <1>t
    <3>6. Asking(k)' => seen'[k] < round' \/ (seen'[k] = round' /\ lock'["round"] = Free)
      <4>1. Asking(k)' => Asking(k)
        BY <3>1
      <4> QED
        BY <2>3, <3>3, <3>5, <4>1
    <3> QED
      BY <3>4, <3>6, Zenon
  <2>7. Bft!CommitOfTheRound'
    BY <2>2, <2>3, <1>t DEF VotingTypes
  <2> QED
    BY <2>5, <2>6, <2>7
<1>6. ASSUME NEW c \in Voting, Bft!VotePhase(c) PROVE Goal
  BY <1>6, <1>t DEF Bft!VotePhase, Bft!released, Bft!Locks, VotingTypes
<1>7. ASSUME NEW c \in Voting, Bft!ReadRound(c) PROVE Goal
  BY <1>7, <1>t DEF Bft!ReadRound, VotingTypes
<1>8. ASSUME NEW c \in Voting, Bft!AskCommit(c) PROVE Goal
  <2>1. Bft!has_commit /\ lock["round"] = Free
          => Bft!Cardinality(precommitted[round]) >= Threshold
    <3> SUFFICES ASSUME Bft!has_commit, lock["round"] = Free
                 PROVE  Bft!Cardinality(precommitted[round]) >= Threshold
      OBVIOUS
    <3>1. Bft!Cardinality(precommitted[round]) \in Nat
          /\ Bft!Cardinality(precommits) <= Bft!Cardinality(precommitted[round])
          /\ Bft!Cardinality(precommits) \in Nat
      BY <1>t, MoreNames DEF VotingTypes
    <3> QED
      BY <3>1 DEF Bft!has_commit
  <2>2. CASE Bft!has_commit
    <3>1. pc' = [pc EXCEPT ![c] = "round_again"] /\ pc[c] = "has_commit" /\ seen' = seen
      BY <1>8, <2>2 DEF Bft!AskCommit
    <3> QED
      BY <1>8, <1>t, <2>1, <2>2, <3>1 DEF Bft!AskCommit, VotingTypes
  <2>3. CASE ~Bft!has_commit
    <3>1. pc' = [pc EXCEPT ![c] = "idle"] /\ seen' = [seen EXCEPT ![c] = 0]
      BY <1>8, <2>3 DEF Bft!AskCommit
    <3> QED
      BY <1>8, <1>t, <3>1 DEF Bft!AskCommit, VotingTypes
  <2> QED
    BY <2>2, <2>3
<1>9. ASSUME NEW c \in Voting, Bft!ReadRoundAgain(c) PROVE Goal
  BY <1>9, <1>t DEF Bft!ReadRoundAgain, VotingTypes
<1> QED
  BY <1>0, <1>1, <1>2, <1>3, <1>4, <1>5, <1>6, <1>7, <1>8, <1>9 DEF Bft!Next

\* A commit that a caller finds between two readings of the same round rests on
\* Threshold names that were handed in as precommits since that round began, however
\* votes and changes of round overlap with its calls and with each other.
THEOREM CommitIsOfTheRound ==
  /\ Bft!Spec => []CommitOfTheRound
  /\ ChainSpec => []CommitOfTheRound
<1>1. VotingInv => CommitOfTheRound
  BY DEF VotingInv, CommitOfTheRound
<1>2. ChainInit => Bft!Init
  BY DEF ChainInit
<1>3. [ChainNext]_allVars => [Bft!Next]_(Bft!vars)
  BY DEF ChainNext, LedgerStep, VotingStep, allVars, bftVars, Bft!vars, Bft!stateVars,
         Bft!historyVars
<1> QED
  BY <1>1, <1>2, <1>3, VotingInit, VotingInvStep, PTL DEF Bft!Spec, ChainSpec

\* What is proved of the ledger by itself holds of the chain.
THEOREM ChainKeepsLedger == ChainSpec => Spec
<1>1. ChainInit => Init
  BY DEF ChainInit
<1>2. [ChainNext]_allVars => [Next]_chainVars
  BY DEF ChainNext, LedgerStep, VotingStep, allVars
<1> QED
  BY <1>1, <1>2, PTL DEF ChainSpec, Spec

=============================================================================
