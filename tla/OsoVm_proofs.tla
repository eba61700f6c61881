---------------------------- MODULE OsoVm_proofs ----------------------------
(***************************************************************************)
(* Proofs about the VMs, for any ids, voters, wallets, addresses and amounts, *)
(* and programs and blocks of any length.                                    *)
(*                                                                           *)
(* Government: a quorum that was stored stays true because votes only grow.  *)
(* Programs and blocks: every step moves Ase from one place to another (the  *)
(* module Sums says what that does to a total), and a copy of the state has  *)
(* as much as the state it is a copy of.  Inheritance: the mask of a wallet  *)
(* is for its present candidate, because a candidate once there is replaced  *)
(* by nobody.  Each is proved of its own specification, and then of the VM   *)
(* they are parts of.                                                        *)
(***************************************************************************)
EXTENDS MCOsoVm, Sums

-----------------------------------------------------------------------------
(* The government.                                                          *)

\* What QUORUM left with a proposal is still true of the votes.
QuorumHolds ==
  \A p \in ProposalIds :
    quorum_met[p] => required[p] >= 1 /\ Cardinality(Cast(p)) >= required[p]

\* Nothing is executed without a yes.
ExecutedHasYes == \A p \in ProposalIds : status[p] = "executed" => Said(p, "yes") # {}

GovInv == TypeOK /\ QuorumHolds /\ ExecutedHasYes /\ LawsCarried

-----------------------------------------------------------------------------
(* Votes.                                                                   *)

\* The sets of voters counted by QUORUM and EXECUTION are finite.
LEMMA BallotsFinite ==
  \A b : /\ IsFiniteSet(Cast(b)) /\ Cardinality(Cast(b)) \in Nat
         /\ \A c : IsFiniteSet(Said(b, c)) /\ Cardinality(Said(b, c)) \in Nat
BY GovernanceAssumption, FS_Subset, FS_CardinalityType DEF Cast, Said

\* The type invariant is inductive: no instruction leaves the tables with a
\* value of another kind.
LEMMA TypeStep == TypeOK /\ [Next]_vars => TypeOK'
<1> SUFFICES ASSUME TypeOK, [Next]_vars PROVE TypeOK'
  OBVIOUS
<1> USE DEF TypeOK, ballotVars, officeVars
<1>1. ASSUME NEW p \in ProposalIds, PROPOSAL(p) \/ EXECUTION(p) \/ VETO(p)
      PROVE TypeOK'
  BY <1>1 DEF PROPOSAL, EXECUTION, VETO, Statuses
<1>2. ASSUME NEW p \in ProposalIds, NEW needed \in Thresholds, QUORUM(p, needed)
      PROVE TypeOK'
  <2>1. needed \in Nat
    BY GovernanceAssumption DEF Thresholds, Max2
  <2>2. kept_quorum(p, needed) \in BOOLEAN
    BY DEF kept_quorum, met
  <2> QED
    BY <1>2, <2>1, <2>2 DEF QUORUM
<1>3. ASSUME NEW l \in LawIds, NEW p \in ProposalIds, LAW(l, p) \/ AMENDMENT(l, p)
      PROVE TypeOK'
  <2>1. laws' \in [LawIds -> Law]
    BY <1>3 DEF LAW, AMENDMENT, Law
  <2> QED
    BY <1>3, <2>1 DEF LAW, AMENDMENT
<1>4. ASSUME NEW o \in Officials, NEW p \in ProposalIds, IMPEACHMENT(o, p)
      PROVE TypeOK'
  BY <1>4 DEF IMPEACHMENT
<1>5. ASSUME NEW e \in ElectionIds, OpenELECTION(e) \/ CloseELECTION(e)
      PROVE TypeOK'
  BY <1>5 DEF OpenELECTION, CloseELECTION
<1>6. ASSUME NEW v \in Voters, NEW b \in BallotIds, NEW c \in Choices, VOTE(v, b, c)
      PROVE TypeOK'
  BY <1>6 DEF VOTE
<1>7. ASSUME NEW v \in Voters, NEW d \in Voters, DELEGATION(v, d)
      PROVE TypeOK'
  BY <1>7 DEF DELEGATION
<1>8. CASE \/ \E r \in ReferendumIds : REFERENDUM(r)
           \/ \E o \in Officials : CABINET(o)
           \/ UNCHANGED vars
  BY <1>8 DEF REFERENDUM, CABINET, vars
<1> QED
  BY <1>1, <1>2, <1>3, <1>4, <1>5, <1>6, <1>7, <1>8 DEF Next, Refused

\* A step leaves a vote that was cast, and the vote of who has delegated, as it
\* was: VOTE writes only where nothing is, and not for a delegator.
LEMMA VotesStandStep ==
  ASSUME TypeOK, [Next]_vars, NEW b \in BallotIds, NEW v \in Voters,
         votes[b][v] # None \/ v \in delegations
  PROVE  votes'[b][v] = votes[b][v]
<1>1. CASE votes' = votes
  BY <1>1
<1>2. ASSUME NEW w \in Voters, NEW c \in BallotIds, NEW choice \in Choices, VOTE(w, c, choice)
      PROVE votes'[b][v] = votes[b][v]
  <2>1. votes' = [votes EXCEPT ![c][w] = choice] /\ votes[c][w] = None /\ w \notin delegations
    BY <1>2 DEF VOTE, may_vote
  <2>2. <<c, w>> # <<b, v>>
    BY <2>1
  <2> QED
    BY <2>1, <2>2 DEF TypeOK
<1> QED
  BY <1>1, <1>2 DEF Next, Refused, vars, ballotVars, officeVars, PROPOSAL, EXECUTION, VETO,
     QUORUM, LAW, AMENDMENT, IMPEACHMENT, OpenELECTION, CloseELECTION, REFERENDUM, DELEGATION,
     CABINET

\* So the votes on a ballot, and the votes for a choice on it, only grow.
LEMMA BallotsGrow ==
  ASSUME TypeOK, [Next]_vars, NEW b \in BallotIds
  PROVE  /\ Cast(b) \subseteq Cast(b)' /\ Cardinality(Cast(b)) <= Cardinality(Cast(b)')
         /\ Said(b, "yes") \subseteq Said(b, "yes")'
<1>1. Cast(b) \subseteq Cast(b)' /\ Said(b, "yes") \subseteq Said(b, "yes")'
  BY VotesStandStep, GovernanceAssumption DEF Cast, Said
<1>2. IsFiniteSet(Cast(b)')
  BY GovernanceAssumption, FS_Subset DEF Cast
<1> QED
  BY <1>1, <1>2, FS_Subset

-----------------------------------------------------------------------------
(* Proposals.                                                               *)

\* QuorumHolds is preserved: QUORUM stores what it counted, votes only grow.
LEMMA QuorumStep == TypeOK /\ QuorumHolds /\ [Next]_vars => QuorumHolds'
<1> SUFFICES ASSUME TypeOK, QuorumHolds, [Next]_vars, NEW p \in ProposalIds, quorum_met'[p]
             PROVE  required'[p] >= 1 /\ Cardinality(Cast(p)') >= required'[p]
  BY DEF QuorumHolds, Cast
<1>1. Cardinality(Cast(p)) <= Cardinality(Cast(p)')
  BY BallotsGrow DEF BallotIds
<1>2. Cardinality(Cast(p)) \in Nat /\ Cardinality(Cast(p)') \in Nat
  <2>1. IsFiniteSet(Cast(p)') /\ IsFiniteSet(Cast(p))
    BY GovernanceAssumption, FS_Subset DEF Cast
  <2> QED
    BY <2>1, FS_CardinalityType
<1>3. CASE UNCHANGED <<quorum_met, required>>
  BY <1>1, <1>2, <1>3 DEF QuorumHolds, TypeOK
<1>4. ASSUME NEW b \in ProposalIds, NEW needed \in Thresholds, QUORUM(b, needed)
      PROVE required'[p] >= 1 /\ Cardinality(Cast(p)') >= required'[p]
  <2>1. needed \in Nat /\ needed >= 1
    BY GovernanceAssumption DEF Thresholds, Max2
  <2>2. CASE b = p
    <3>1. required'[p] = needed /\ Cardinality(Cast(p)) >= needed
      BY <1>4, <2>2 DEF QUORUM, TypeOK, kept_quorum, met
    <3> QED
      BY <3>1, <2>1, <1>1, <1>2
  <2>3. CASE b # p
    <3>1. required'[p] = required[p] /\ quorum_met[p]
      BY <1>4, <2>3 DEF QUORUM, TypeOK
    <3> QED
      BY <3>1, <1>1, <1>2 DEF QuorumHolds, TypeOK
  <2> QED
    BY <2>2, <2>3
<1> QED
  BY <1>3, <1>4 DEF Next, Refused, vars, ballotVars, officeVars, PROPOSAL, EXECUTION, VETO,
     VOTE, LAW, AMENDMENT, IMPEACHMENT, OpenELECTION, CloseELECTION, REFERENDUM, DELEGATION,
     CABINET

\* A proposal that turns to executed was open, had its quorum and a yes.
LEMMA ExecutedBy ==
  ASSUME TypeOK, [Next]_vars, NEW p \in ProposalIds,
         status[p] # "executed", status'[p] = "executed"
  PROVE  quorum_met[p] /\ Said(p, "yes") # {} /\ UNCHANGED <<votes, required, laws, removed_by>>
<1>1. CASE status' = status
  BY <1>1
<1>2. ASSUME NEW q \in ProposalIds, EXECUTION(q)
      PROVE quorum_met[p] /\ Said(p, "yes") # {} /\ UNCHANGED <<votes, required, laws, removed_by>>
  <2>1. q = p
    BY <1>2 DEF EXECUTION, TypeOK
  <2>2. Cardinality(Said(p, "yes")) > Cardinality(Said(p, "no"))
    BY <1>2, <2>1 DEF EXECUTION
  <2>3. Said(p, "yes") # {}
    <3>1. Cardinality(Said(p, "no")) \in Nat
      BY BallotsFinite
    <3>2. Cardinality({}) = 0
      BY FS_EmptySet
    <3> QED
      BY <2>2, <3>1, <3>2
  <2> QED
    BY <1>2, <2>1, <2>3 DEF EXECUTION, officeVars
<1>3. ASSUME NEW q \in ProposalIds, PROPOSAL(q) \/ VETO(q)
      PROVE FALSE
  BY <1>3 DEF PROPOSAL, VETO, TypeOK
<1> QED
  BY <1>1, <1>2, <1>3 DEF Next, Refused, vars, ballotVars, officeVars, QUORUM,
     VOTE, LAW, AMENDMENT, IMPEACHMENT, OpenELECTION, CloseELECTION, REFERENDUM, DELEGATION,
     CABINET

\* The yes of an executed proposal stays.
LEMMA YesStep == TypeOK /\ ExecutedHasYes /\ [Next]_vars => ExecutedHasYes'
<1> SUFFICES ASSUME TypeOK, ExecutedHasYes, [Next]_vars, NEW p \in ProposalIds,
                    status'[p] = "executed"
             PROVE  Said(p, "yes")' # {}
  BY DEF ExecutedHasYes, Said
<1>1. Said(p, "yes") # {}
  BY ExecutedBy DEF ExecutedHasYes
<1> QED
  BY <1>1, BallotsGrow DEF BallotIds

\* A proposal once carried stays so: nothing reopens it.
LEMMA CarriedStep ==
  ASSUME TypeOK, [Next]_vars, NEW p \in ProposalIds, Carried(p)
  PROVE  Carried(p)'
<1>1. Said(p, "yes")' # {}
  BY BallotsGrow DEF BallotIds, Carried
<1>2. status'[p] \in {"executed", "vetoed"}
  BY DEF Carried, TypeOK, Next, Refused, vars, ballotVars, officeVars, PROPOSAL, EXECUTION, VETO,
     QUORUM, VOTE, LAW, AMENDMENT, IMPEACHMENT, OpenELECTION, CloseELECTION, REFERENDUM,
     DELEGATION, CABINET
<1> QED
  BY <1>1, <1>2 DEF Carried

\* What is done in the name of a proposal is done when it is executed, so
\* LawsCarried is preserved.
LEMMA LawsStep == GovInv /\ [Next]_vars => LawsCarried'
<1> SUFFICES ASSUME GovInv, [Next]_vars PROVE LawsCarried'
  OBVIOUS
<1> USE DEF GovInv
<1>1. \A p \in ProposalIds : is_executed(p) => Carried(p)
  BY DEF is_executed, Carried, ExecutedHasYes
<1>2. \A p \in ProposalIds : Carried(p) => Carried(p)'
  BY CarriedStep
<1>3. ASSUME NEW l \in LawIds, NEW p \in {laws'[l].proposal_id, laws'[l].amended_by} \ {None}
      PROVE Carried(p)'
  <2>1. CASE p \in {laws[l].proposal_id, laws[l].amended_by}
    <3>1. p \in ProposalIds /\ Carried(p)
      BY <1>3, <2>1 DEF LawsCarried, TypeOK, Law
    <3> QED
      BY <3>1, <1>2
  <2>2. CASE p \notin {laws[l].proposal_id, laws[l].amended_by}
    <3>1. laws'[l] # laws[l]
      BY <1>3, <2>2
    <3>2. PICK k \in LawIds, q \in ProposalIds : LAW(k, q) \/ AMENDMENT(k, q)
      BY <3>1 DEF Next, Refused, vars, ballotVars, officeVars, PROPOSAL, EXECUTION, VETO,
         QUORUM, VOTE, IMPEACHMENT, OpenELECTION, CloseELECTION, REFERENDUM, DELEGATION, CABINET
    <3>3. is_executed(q)
      BY <3>2 DEF LAW, AMENDMENT
    <3>4. k = l
      BY <3>1, <3>2 DEF LAW, AMENDMENT, TypeOK
    <3>5. laws'[l] = [proposal_id |-> q, amended_by |-> None]
          \/ laws'[l] = [proposal_id |-> laws[l].proposal_id, amended_by |-> q]
      BY <3>2, <3>4 DEF LAW, AMENDMENT, TypeOK
    <3>6. p = q
      BY <3>5, <1>3, <2>2
    <3> QED
      BY <1>1, <1>2, <3>3, <3>6
  <2> QED
    BY <2>1, <2>2
<1>4. ASSUME NEW p \in removed_by'
      PROVE Carried(p)'
  <2>1. CASE p \in removed_by
    BY <2>1, <1>2 DEF LawsCarried, TypeOK
  <2>2. CASE p \notin removed_by
    <3>1. PICK o \in Officials, q \in ProposalIds : IMPEACHMENT(o, q)
      BY <1>4, <2>2 DEF Next, Refused, vars, ballotVars, officeVars, PROPOSAL, EXECUTION, VETO,
         QUORUM, VOTE, LAW, AMENDMENT, OpenELECTION, CloseELECTION, REFERENDUM, DELEGATION,
         CABINET
    <3>2. p = q /\ is_executed(q)
      BY <3>1, <1>4, <2>2 DEF IMPEACHMENT
    <3> QED
      BY <3>2, <1>1, <1>2
  <2> QED
    BY <2>1, <2>2
<1> QED
  BY <1>3, <1>4 DEF LawsCarried, Carried, Said

-----------------------------------------------------------------------------
(* The theorems.                                                            *)

LEMMA GovInitInv == Init => GovInv
<1> SUFFICES ASSUME Init PROVE GovInv
  OBVIOUS
<1>1. TypeOK
  BY DEF Init, TypeOK, Statuses, Law
<1>2. QuorumHolds /\ ExecutedHasYes
  BY DEF Init, QuorumHolds, ExecutedHasYes
<1>3. LawsCarried
  BY DEF Init, LawsCarried
<1> QED
  BY <1>1, <1>2, <1>3 DEF GovInv

LEMMA GovStepInv == GovInv /\ [Next]_vars => GovInv'
BY TypeStep, QuorumStep, YesStep, LawsStep DEF GovInv

\* The tables of the government always hold what their readers expect.
THEOREM TypeCorrect == Spec => []TypeOK
<1>1. GovInv => TypeOK
  BY DEF GovInv
<1> QED
  BY GovInitInv, GovStepInv, <1>1, PTL DEF Spec

\* Every law, amendment and impeachment goes back to a proposal that was
\* executed and that somebody voted for.
THEOREM LawsAreCarried == Spec => []LawsCarried
<1>1. GovInv => LawsCarried
  BY DEF GovInv
<1> QED
  BY GovInitInv, GovStepInv, <1>1, PTL DEF Spec

\* No proposal is executed with fewer votes than its last QUORUM asked for.
THEOREM ExecutionHasQuorum == Spec => ExecutedWithQuorum
<1>1. GovInv /\ [Next]_vars =>
        [\A p \in ProposalIds :
           status[p] # "executed" /\ status'[p] = "executed" =>
             /\ required[p] >= 1
             /\ Cardinality(Cast(p)) >= required[p]]_vars
  <2> SUFFICES ASSUME GovInv, [Next]_vars, NEW p \in ProposalIds,
                      status[p] # "executed", status'[p] = "executed"
               PROVE  required[p] >= 1 /\ Cardinality(Cast(p)) >= required[p]
    OBVIOUS
  <2> QED
    BY ExecutedBy DEF GovInv, QuorumHolds
<1> QED
  BY GovInitInv, GovStepInv, <1>1, PTL DEF Spec, ExecutedWithQuorum

\* A vote that is cast is never changed, and a delegator casts none.
THEOREM CastVotesStand == Spec => VotesStand
<1>1. GovInv /\ [Next]_vars =>
        [\A b \in BallotIds, v \in Voters :
           votes[b][v] # None \/ v \in delegations => votes'[b][v] = votes[b][v]]_vars
  BY VotesStandStep DEF GovInv
<1> QED
  BY GovInitInv, GovStepInv, <1>1, PTL DEF Spec, VotesStand

-----------------------------------------------------------------------------
(* Programs and Ase.                                                        *)

\* Stakes are natural numbers, and so are balances while no negative payment was
\* made; a running program has a sender, and a genesis flaw that was paid out
\* left its mark.
EconomyInv ==
  /\ ase_balance \in [Addresses -> Int]
  /\ staked \in [Addresses -> Nat]
  /\ negatives \in Nat
  /\ negatives = 0 => ase_balance \in [Addresses -> Nat]
  /\ running => current_sender \in Addresses
  /\ minted = 0 \/ (minted = 1 /\ genesis_used)
  /\ gone \in Int

\* An integer written to one entry leaves integers; if they were natural numbers
\* and it is one, they still are.
LEMMA WrittenInt ==
  ASSUME NEW balance \in [Addresses -> Int], NEW a \in Addresses, NEW v \in Int,
         NEW after, after = [balance EXCEPT ![a] = v]
  PROVE  /\ after \in [Addresses -> Int]
         /\ balance \in [Addresses -> Nat] /\ v >= 0 => after \in [Addresses -> Nat]
<1>1. after \in [Addresses -> Int]
  OBVIOUS
<1>2. ASSUME balance \in [Addresses -> Nat], v \in Nat
      PROVE  after \in [Addresses -> Nat]
  BY <1>2
<1>3. v >= 0 => v \in Nat
  OBVIOUS
<1> QED
  BY <1>1, <1>2, <1>3

\* A debit and a credit, of one address or of two, leave integers; if the
\* balances were natural numbers and the debit was covered they still are.
LEMMA MovedInt ==
  ASSUME NEW balance \in [Addresses -> Int], NEW from \in Addresses, NEW to \in Addresses,
         NEW debit \in Int, NEW credit \in Int, NEW after,
         after = [[balance EXCEPT ![from] = @ - debit] EXCEPT ![to] = @ + credit]
  PROVE  /\ after \in [Addresses -> Int]
         /\ balance \in [Addresses -> Nat] /\ balance[from] >= debit /\ credit >= 0
              => after \in [Addresses -> Nat]
<1> DEFINE left == balance[from] - debit
           debited == [balance EXCEPT ![from] = left]
           paid == debited[to] + credit
<1>1. after = [debited EXCEPT ![to] = paid]
  OBVIOUS
<1>2. left \in Int /\ (balance[from] >= debit => left >= 0)
  <2>1. balance[from] \in Int
    OBVIOUS
  <2> QED
    BY <2>1
<1>3. debited = [balance EXCEPT ![from] = left]
  OBVIOUS
<1> HIDE DEF left, debited
<1>4. /\ debited \in [Addresses -> Int]
      /\ balance \in [Addresses -> Nat] /\ left >= 0 => debited \in [Addresses -> Nat]
  BY <1>2, <1>3, WrittenInt
<1>5. paid \in Int /\ (debited \in [Addresses -> Nat] /\ credit >= 0 => paid >= 0)
  <2>1. debited[to] \in Int /\ (debited \in [Addresses -> Nat] => debited[to] \in Nat)
    BY <1>4
  <2> QED
    BY <2>1
<1> HIDE DEF paid
<1>6. /\ after \in [Addresses -> Int]
      /\ debited \in [Addresses -> Nat] /\ paid >= 0 => after \in [Addresses -> Nat]
  BY <1>1, <1>4, <1>5, WrittenInt
<1> QED
  BY <1>2, <1>4, <1>5, <1>6

LEMMA EconomyInitInv == Economy!Init => EconomyInv
BY OsoVmAssumption DEF Economy!Init, EconomyInv

LEMMA EconomyStepInv == EconomyInv /\ [Economy!Next]_(Economy!vars) => EconomyInv'
<1> SUFFICES ASSUME EconomyInv, [Economy!Next]_(Economy!vars) PROVE EconomyInv'
  OBVIOUS
<1> USE OsoVmAssumption DEF EconomyInv, Economy!control, Economy!context, Economy!history
<1>1. CASE UNCHANGED <<running, current_sender, ase_balance, staked, genesis_used, Economy!history>>
  BY <1>1
<1>2. ASSUME NEW a \in Addresses, Economy!BeginProgram(a)
      PROVE EconomyInv'
  BY <1>2 DEF Economy!BeginProgram
<1>3. CASE Economy!EndProgram \/ Economy!HALT \/ Economy!NotCritical \/ Economy!REQUIRE
  BY <1>3 DEF Economy!EndProgram, Economy!HALT, Economy!NotCritical, Economy!REQUIRE
<1>4. ASSUME NEW to \in Addresses, NEW n \in Amounts, Economy!TRANSFER(to, n)
      PROVE EconomyInv'
  <2>1. n \in Nat /\ n \in Int /\ current_sender \in Addresses
        /\ ase_balance[current_sender] >= n
    BY <1>4 DEF Economy!TRANSFER, Economy!InBatch, Economy!transferable
  <2>2. ase_balance' =
          [[ase_balance EXCEPT ![current_sender] = @ - n] EXCEPT ![to] = @ + n]
    BY <1>4 DEF Economy!TRANSFER, Economy!moved
  <2>3. /\ ase_balance' \in [Addresses -> Int]
        /\ ase_balance \in [Addresses -> Nat] => ase_balance' \in [Addresses -> Nat]
    <3>1. ase_balance \in [Addresses -> Int] /\ n >= 0
      BY <2>1
    <3> HIDE DEF EconomyInv
    <3> QED
      BY <2>1, <2>2, <3>1, MovedInt
  <2> QED
    BY <1>4, <2>3 DEF Economy!TRANSFER
<1>5. ASSUME NEW n \in Amounts, Economy!STAKE(n) \/ Economy!UNSTAKE(n)
      PROVE EconomyInv'
  <2>1. n \in Nat /\ current_sender \in Addresses
    BY <1>5 DEF Economy!STAKE, Economy!UNSTAKE, Economy!InBatch
  <2>2. /\ ase_balance' \in [Addresses -> Int] /\ staked' \in [Addresses -> Nat]
        /\ ase_balance \in [Addresses -> Nat] => ase_balance' \in [Addresses -> Nat]
    <3>1. CASE Economy!STAKE(n)
      BY <3>1, <2>1 DEF Economy!STAKE
    <3>2. CASE Economy!UNSTAKE(n)
      BY <3>2, <2>1 DEF Economy!UNSTAKE
    <3> QED
      BY <1>5, <3>1, <3>2
  <2> QED
    BY <1>5, <2>2 DEF Economy!STAKE, Economy!UNSTAKE
<1>6. CASE Economy!GENESIS_FLAW_TOKEN
  <2>1. current_sender \in Addresses /\ minted = 0
    BY <1>6 DEF Economy!GENESIS_FLAW_TOKEN, Economy!InBatch
  <2> QED
    BY <1>6, <2>1 DEF Economy!GENESIS_FLAW_TOKEN
<1>7. CASE Economy!EMIT
  BY <1>7 DEF Economy!EMIT
<1>8. ASSUME NEW n \in Int, Economy!Spend(n)
      PROVE EconomyInv'
  <2>1. current_sender \in Addresses /\ ase_balance[current_sender] >= n
    BY <1>8 DEF Economy!Spend, Economy!Pays, Economy!InBatch
  <2>2. negatives' \in Nat /\ (negatives' = 0 => negatives = 0 /\ n >= 0)
    BY <1>8 DEF Economy!Spend, Economy!Pays
  <2> QED
    BY <1>8, <2>1, <2>2 DEF Economy!Spend, Economy!Pays
<1>9. ASSUME NEW n \in Int, NEW c \in Addresses, Economy!JOB_PAYMENT(n, c)
      PROVE EconomyInv'
  <2>1. current_sender \in Addresses /\ ase_balance[current_sender] >= n
    BY <1>9 DEF Economy!JOB_PAYMENT, Economy!Pays, Economy!InBatch
  <2>2. negatives' \in Nat /\ (negatives' = 0 => negatives = 0 /\ n >= 0)
    BY <1>9 DEF Economy!JOB_PAYMENT, Economy!Pays
  <2>3. Economy!creator_share(n) \in Int /\ (n >= 0 => Economy!creator_share(n) >= 0)
    BY DEF Economy!creator_share
  <2>4. /\ ase_balance' \in [Addresses -> Int]
        /\ ase_balance \in [Addresses -> Nat] /\ n >= 0
             => ase_balance' \in [Addresses -> Nat]
    <3>1. ase_balance \in [Addresses -> Int]
      OBVIOUS
    <3>2. ase_balance' =
            [[ase_balance EXCEPT ![current_sender] = @ - n] EXCEPT ![c] = @ + Economy!creator_share(n)]
      BY <1>9 DEF Economy!JOB_PAYMENT
    <3> HIDE DEF EconomyInv
    <3> QED
      BY <2>1, <2>3, <3>1, <3>2, MovedInt
  <2> QED
    BY <1>9, <2>2, <2>4 DEF Economy!JOB_PAYMENT, Economy!Pays
<1> QED
  BY <1>1, <1>2, <1>3, <1>4, <1>5, <1>6, <1>7, <1>8, <1>9
  DEF Economy!Next, Economy!Refused, Economy!vars, Economy!AdvanceBlock, Economy!AGENT_BIRTH, Economy!AGENT_CONVERT, Economy!RegisterAgent,
      Economy!JOB_PAYMENTtoNobody, Economy!RefusedJOB_PAYMENT

\* The sum in VmEconomy is the one of Sums.
LEMMA EconomyTotal == ASSUME NEW f PROVE Economy!Total(f) = SumFunctionOnSet(f, Addresses)
BY DEF Economy!Total, Economy!SumFunctionOnSet, Economy!FoldFunctionOnSet,
       Economy!MapThenFoldSet, SumFunctionOnSet, FoldFunctionOnSet, MapThenFoldSet

LEMMA EconomyCardinality == ASSUME NEW S PROVE Economy!Cardinality(S) = Cardinality(S)
BY DEF Economy!Cardinality, Cardinality

\* Every Ase is accounted for at the start ...
LEMMA AccountedInit == Economy!Init => Economy!AseAccounted
<1> SUFFICES ASSUME Economy!Init PROVE Economy!AseAccounted
  OBVIOUS
<1>1. /\ \A a \in Addresses : ase_balance[a] = InitialBalance /\ staked[a] = 0
      /\ gone = 0 /\ minted = 0
  BY DEF Economy!Init
<1>2. InitialBalance \in Int /\ 0 \in Int /\ IsFiniteSet(Addresses)
  BY OsoVmAssumption
<1>3. SumFunctionOnSet(ase_balance, Addresses) = InitialBalance * Cardinality(Addresses)
  BY <1>1, <1>2, SumConstant
<1>4. SumFunctionOnSet(staked, Addresses) = 0 * Cardinality(Addresses)
  BY <1>1, <1>2, SumConstant
<1>5. PICK n \in Int : n = Cardinality(Addresses)
  BY <1>2, FS_CardinalityType
<1>6. InitialBalance * n + 0 * n + 0 = n * InitialBalance + 0
  BY <1>2
<1> QED
  BY <1>1, <1>3, <1>4, <1>5, <1>6, EconomyTotal, EconomyCardinality DEF Economy!AseAccounted

\* ... and what balances and stakes change by, whatever the step, is what leaves or
\* what the genesis flaw adds.
LEMMA AccountedStep ==
  EconomyInv /\ Economy!AseAccounted /\ [Economy!Next]_(Economy!vars) => Economy!AseAccounted'
<1> SUFFICES ASSUME EconomyInv, Economy!AseAccounted, [Economy!Next]_(Economy!vars)
             PROVE  Economy!AseAccounted'
  OBVIOUS
<1> DEFINE inBalances == SumFunctionOnSet(ase_balance, Addresses)
           inStakes == SumFunctionOnSet(staked, Addresses)
           start == Cardinality(Addresses) * InitialBalance
<1>1. IsFiniteSet(Addresses) /\ start \in Int
  <2>1. Cardinality(Addresses) \in Nat
    BY OsoVmAssumption, FS_CardinalityType
  <2> QED
    BY <2>1, OsoVmAssumption
<1>2. /\ ase_balance \in [Addresses -> Int] /\ staked \in [Addresses -> Int]
      /\ gone \in Int /\ minted \in Int
  BY DEF EconomyInv
<1>3. inBalances \in Int /\ inStakes \in Int
  BY <1>1, <1>2, SumType
<1>4. inBalances + inStakes + gone = start + minted
  BY EconomyTotal, EconomyCardinality DEF Economy!AseAccounted
<1>5. SUFFICES inBalances' + inStakes' + gone' = start + minted'
  BY EconomyTotal, EconomyCardinality DEF Economy!AseAccounted
<1>6. EconomyInv'
  BY EconomyStepInv
<1>7. ase_balance' \in [Addresses -> Int] /\ staked' \in [Addresses -> Int]
  BY <1>6 DEF EconomyInv
<1> USE DEF Economy!control, Economy!context, Economy!history
<1>a. CASE UNCHANGED <<ase_balance, staked, gone, minted>>
  BY <1>a, <1>4
<1>b. ASSUME NEW to \in Addresses, NEW n \in Amounts, Economy!TRANSFER(to, n)
      PROVE inBalances' + inStakes' + gone' = start + minted'
  <2>1. n \in Int /\ current_sender \in Addresses
    BY <1>b, OsoVmAssumption DEF Economy!TRANSFER, Economy!InBatch, EconomyInv
  <2>2. Moved(ase_balance', ase_balance, Addresses, current_sender, n, to, n)
    BY <1>b, <1>2, <1>7, <2>1 DEF Economy!TRANSFER, Economy!moved, Moved
  <2>3. inBalances' = inBalances - n + n
    BY <1>1, <2>2, SumMoved
  <2>4. UNCHANGED <<inStakes, gone, minted>>
    BY <1>b DEF Economy!TRANSFER
  <2> HIDE DEF inBalances, inStakes, start
  <2> QED
    BY <1>2, <1>3, <1>4, <2>1, <2>3, <2>4
<1>c. ASSUME NEW n \in Amounts, Economy!STAKE(n)
      PROVE inBalances' + inStakes' + gone' = start + minted'
  <2>1. n \in Int /\ 0 - n \in Int /\ current_sender \in Addresses
    BY <1>c, OsoVmAssumption DEF Economy!STAKE, Economy!InBatch, EconomyInv
  <2>2. Changed(ase_balance', ase_balance, Addresses, current_sender, 0 - n)
    BY <1>c, <1>2, <1>7, <2>1 DEF Economy!STAKE, Changed
  <2>3. Changed(staked', staked, Addresses, current_sender, n)
    BY <1>c, <1>2, <1>7, <2>1 DEF Economy!STAKE, Changed
  <2>4. inBalances' = inBalances + (0 - n) /\ inStakes' = inStakes + n
    BY <1>1, <2>2, <2>3, SumChanged
  <2>5. UNCHANGED <<gone, minted>>
    BY <1>c DEF Economy!STAKE
  <2> HIDE DEF inBalances, inStakes, start
  <2> QED
    BY <1>2, <1>3, <1>4, <2>1, <2>4, <2>5
<1>d. ASSUME NEW n \in Amounts, Economy!UNSTAKE(n)
      PROVE inBalances' + inStakes' + gone' = start + minted'
  <2>1. n \in Int /\ 0 - n \in Int /\ current_sender \in Addresses
    BY <1>d, OsoVmAssumption DEF Economy!UNSTAKE, Economy!InBatch, EconomyInv
  <2>2. Changed(ase_balance', ase_balance, Addresses, current_sender, n)
    BY <1>d, <1>2, <1>7, <2>1 DEF Economy!UNSTAKE, Changed
  <2>3. Changed(staked', staked, Addresses, current_sender, 0 - n)
    BY <1>d, <1>2, <1>7, <2>1 DEF Economy!UNSTAKE, Changed
  <2>4. inBalances' = inBalances + n /\ inStakes' = inStakes + (0 - n)
    BY <1>1, <2>2, <2>3, SumChanged
  <2>5. UNCHANGED <<gone, minted>>
    BY <1>d DEF Economy!UNSTAKE
  <2> HIDE DEF inBalances, inStakes, start
  <2> QED
    BY <1>2, <1>3, <1>4, <2>1, <2>4, <2>5
<1>e. CASE Economy!GENESIS_FLAW_TOKEN
  <2>1. current_sender \in Addresses
    BY <1>e DEF Economy!GENESIS_FLAW_TOKEN, Economy!InBatch, EconomyInv
  <2>2. Changed(ase_balance', ase_balance, Addresses, current_sender, 1)
    BY <1>e, <1>2, <1>7, <2>1 DEF Economy!GENESIS_FLAW_TOKEN, Changed
  <2>3. inBalances' = inBalances + 1
    BY <1>1, <2>2, SumChanged
  <2>4. UNCHANGED <<inStakes, gone>> /\ minted' = minted + 1
    BY <1>e DEF Economy!GENESIS_FLAW_TOKEN
  <2> HIDE DEF inBalances, inStakes, start
  <2> QED
    BY <1>1, <1>2, <1>3, <1>4, <2>3, <2>4
<1>f. ASSUME NEW n \in Int, Economy!Spend(n)
      PROVE inBalances' + inStakes' + gone' = start + minted'
  <2>1. 0 - n \in Int /\ current_sender \in Addresses
    BY <1>f DEF Economy!Spend, Economy!Pays, Economy!InBatch, EconomyInv
  <2>2. Changed(ase_balance', ase_balance, Addresses, current_sender, 0 - n)
    BY <1>f, <1>2, <1>7, <2>1 DEF Economy!Spend, Changed
  <2>3. inBalances' = inBalances + (0 - n)
    BY <1>1, <2>1, <2>2, SumChanged
  <2>4. UNCHANGED <<inStakes, minted>> /\ gone' = gone + n
    BY <1>f DEF Economy!Spend, Economy!Pays
  <2> HIDE DEF inBalances, inStakes, start
  <2> QED
    BY <1>2, <1>3, <1>4, <2>3, <2>4
<1>g. ASSUME NEW n \in Int, NEW c \in Addresses, Economy!JOB_PAYMENT(n, c)
      PROVE inBalances' + inStakes' + gone' = start + minted'
  <2>1. PICK k \in Int : k = Economy!creator_share(n)
    BY DEF Economy!creator_share
  <2>2. current_sender \in Addresses
    BY <1>g DEF Economy!JOB_PAYMENT, Economy!Pays, Economy!InBatch, EconomyInv
  <2>3. Moved(ase_balance', ase_balance, Addresses, current_sender, n, c, k)
    BY <1>g, <1>2, <1>7, <2>1, <2>2 DEF Economy!JOB_PAYMENT, Moved
  <2>4. inBalances' = inBalances - n + k
    BY <1>1, <2>1, <2>3, SumMoved
  <2>5. UNCHANGED <<inStakes, minted>> /\ gone' = gone + n - k
    BY <1>g, <2>1 DEF Economy!JOB_PAYMENT, Economy!Pays
  <2> HIDE DEF inBalances, inStakes, start
  <2> QED
    BY <1>2, <1>3, <1>4, <2>1, <2>4, <2>5
<1>h. CASE \E n \in Int : Economy!Spend(n) \/ \E c \in Addresses : Economy!JOB_PAYMENT(n, c)
  BY <1>f, <1>g, <1>h
<1> HIDE DEF inBalances, inStakes, start
<1> QED
  BY <1>a, <1>b, <1>c, <1>d, <1>e, <1>h, OsoVmAssumption
  DEF Economy!Next, Economy!Refused, Economy!vars, Economy!AdvanceBlock, Economy!AGENT_BIRTH,
      Economy!AGENT_CONVERT, Economy!RegisterAgent, Economy!JOB_PAYMENTtoNobody,
      Economy!RefusedJOB_PAYMENT, Economy!BeginProgram, Economy!EndProgram, Economy!HALT,
      Economy!NotCritical, Economy!REQUIRE, Economy!EMIT

\* Balances, stakes and what was spent always add up to what there was at the start
\* and from the genesis flaw; and nobody is overdrawn, in balance or stake,
\* whatever amounts programs name, as long as no payment is negative.
THEOREM ProgramsAccount == Economy!Spec => []AseAccounted
<1>1. Economy!Init => EconomyInv /\ Economy!AseAccounted
  BY EconomyInitInv, AccountedInit
<1>2. EconomyInv /\ Economy!AseAccounted /\ [Economy!Next]_(Economy!vars)
        => EconomyInv' /\ Economy!AseAccounted'
  BY EconomyStepInv, AccountedStep
<1>3. EconomyInv /\ Economy!AseAccounted => AseAccounted
  BY DEF EconomyInv, AseAccounted, Economy!NoOverdraft
<1> QED
  BY <1>1, <1>2, <1>3, PTL DEF Economy!Spec

\* The genesis flaw is paid at most once in the life of a VM.
THEOREM GenesisPaidOnce == Economy!Spec => []Economy!GenesisOnce
<1>1. EconomyInv => Economy!GenesisOnce
  BY DEF EconomyInv, Economy!GenesisOnce
<1> QED
  BY EconomyInitInv, EconomyStepInv, <1>1, PTL DEF Economy!Spec

-----------------------------------------------------------------------------
(* Blocks of vm_core.jl.                                                    *)

State == [balances : [Addresses -> Int], staked : [Addresses -> Int], halted : BOOLEAN,
          agents_born_today : Int, total_locked_for_births : Int, total_burned : Int,
          royalties_pending : Int]

\* What the copy a block works on no longer has of the Ase of the state it was given
\* is on the block's receipts; between blocks the copy is that state.  On the
\* Sabbath a block is passive, and all it can have done is to halt the machine.
CoreInv ==
  /\ s \in State /\ block_state \in State
  /\ passive \in BOOLEAN
  /\ receipts \in Int /\ block_receipts \in Int
  /\ Core!Circulating(s) + block_receipts = Core!Circulating(block_state)
  /\ ~in_block => s = block_state /\ block_receipts = 0
  /\ in_block /\ Core!is_sabbath(day) => passive
  /\ in_block /\ passive => [s EXCEPT !.halted = block_state.halted] = block_state

LEMMA CoreTotal == ASSUME NEW f PROVE Core!Total(f) = SumFunctionOnSet(f, Addresses)
BY DEF Core!Total, Core!SumFunctionOnSet, Core!FoldFunctionOnSet, Core!MapThenFoldSet,
       SumFunctionOnSet, FoldFunctionOnSet, MapThenFoldSet

\* A record with the fields of a state.
IsRecord(r) ==
  r = [balances |-> r.balances, staked |-> r.staked, halted |-> r.halted,
       agents_born_today |-> r.agents_born_today,
       total_locked_for_births |-> r.total_locked_for_births, total_burned |-> r.total_burned,
       royalties_pending |-> r.royalties_pending]

LEMMA StateIs ==
  ASSUME NEW r, IsRecord(r), r.balances \in [Addresses -> Int], r.staked \in [Addresses -> Int],
         r.halted \in BOOLEAN, r.agents_born_today \in Int, r.total_locked_for_births \in Int,
         r.total_burned \in Int, r.royalties_pending \in Int
  PROVE  r \in State
BY DEF State, IsRecord

\* What a state accounts for is a sum of integers.
LEMMA CirculatingType ==
  ASSUME NEW st \in State
  PROVE  /\ SumFunctionOnSet(st.balances, Addresses) \in Int
         /\ SumFunctionOnSet(st.staked, Addresses) \in Int
         /\ Core!Circulating(st) =
              SumFunctionOnSet(st.balances, Addresses) + SumFunctionOnSet(st.staked, Addresses)
                + st.total_locked_for_births + st.total_burned + st.royalties_pending
<1>1. st.balances \in [Addresses -> Int] /\ st.staked \in [Addresses -> Int]
  BY DEF State
<1>2. IsFiniteSet(Addresses)
  BY OsoVmAssumption
<1>3. /\ SumFunctionOnSet(st.balances, Addresses) \in Int
      /\ SumFunctionOnSet(st.staked, Addresses) \in Int
  BY <1>1, <1>2, SumType
<1> QED
  BY <1>3, CoreTotal DEF Core!Circulating

\* So it is an integer.
LEMMA CirculatingInt == ASSUME NEW st \in State PROVE Core!Circulating(st) \in Int
<1>1. /\ st.total_locked_for_births \in Int /\ st.total_burned \in Int
      /\ st.royalties_pending \in Int
  BY DEF State
<1> QED
  BY <1>1, CirculatingType

\* Halting the machine moves no Ase.
LEMMA HaltedCirculates ==
  ASSUME NEW st \in State, NEW new, new = [st EXCEPT !.halted = TRUE]
  PROVE  new \in State /\ Core!Circulating(new) = Core!Circulating(st)
BY DEF State, Core!Circulating

\* An instruction that moves Ase leaves a state that has as much, but for what its
\* receipt tells of.
Instruction(a) ==
  \/ Core!op_agent_birth(a)
  \/ \E n \in BlockAmounts :
       \/ Core!op_stake(a, n) \/ Core!op_unstake(a, n)
       \/ Core!op_agent_convert(a, n) \/ Core!op_job_payment(a, n)
       \/ \E b \in Addresses : Core!op_transfer(a, b, n)

LEMMA InstructionAccounts ==
  ASSUME s \in State, block_receipts \in Int, NEW a \in Addresses, Instruction(a)
  PROVE  /\ s' \in State /\ block_receipts' \in Int
         /\ Core!Circulating(s') + block_receipts' = Core!Circulating(s) + block_receipts
         /\ ~passive /\ UNCHANGED <<block_state, receipts, day, in_block, passive>>
<1> DEFINE inBalances == SumFunctionOnSet(s.balances, Addresses)
           inStakes == SumFunctionOnSet(s.staked, Addresses)
<1>1. /\ s.balances \in [Addresses -> Int] /\ s.staked \in [Addresses -> Int]
      /\ s.halted \in BOOLEAN /\ s.agents_born_today \in Int
      /\ s.total_locked_for_births \in Int /\ s.total_burned \in Int
      /\ s.royalties_pending \in Int /\ block_receipts \in Int
  BY DEF State
<1>2. IsFiniteSet(Addresses) /\ AgentBirthFee \in Int /\ BlockAmounts \subseteq Int
  BY OsoVmAssumption
<1>3. /\ inBalances \in Int /\ inStakes \in Int
      /\ Core!Circulating(s) = inBalances + inStakes + s.total_locked_for_births + s.total_burned
                               + s.royalties_pending
  BY CirculatingType
<1>4. ~passive /\ UNCHANGED <<block_state, receipts, day, in_block, passive>>
  BY DEF Instruction, Core!Plain, Core!op_agent_birth, Core!op_stake, Core!op_unstake,
     Core!op_agent_convert, Core!op_job_payment, Core!op_transfer, Core!Active, Core!Executes
<1>5. CASE Core!op_agent_birth(a)
  <2>1. Core!born_before \in Int
    BY <1>1 DEF Core!born_before
  <2>2. s' = [s EXCEPT !.balances = s'.balances,
                       !.total_locked_for_births = @ + AgentBirthFee,
                       !.agents_born_today = Core!born_before + 1]
        /\ s'.balances = [s.balances EXCEPT ![a] = @ - AgentBirthFee]
    BY <1>5 DEF Core!op_agent_birth, State
  <2>3. s'.balances \in [Addresses -> Int]
    BY <2>2, <1>1, <1>2
  <2>4. s' \in State
    <3>1. IsRecord(s')
      BY <2>2 DEF State, IsRecord
    <3>2. /\ s'.staked = s.staked
          /\ s'.agents_born_today = Core!born_before + 1
          /\ s'.total_locked_for_births = s.total_locked_for_births + AgentBirthFee
          /\ s'.total_burned = s.total_burned
          /\ s'.royalties_pending = s.royalties_pending
          /\ s'.halted = s.halted
      BY <2>2 DEF State
    <3>3. Core!born_before + 1 \in Int /\ s.total_locked_for_births + AgentBirthFee \in Int
      BY <2>1, <1>1, <1>2
    <3> QED
      BY <1>1, <2>3, <3>1, <3>2, <3>3, StateIs
  <2>5. Changed(s'.balances, s.balances, Addresses, a, 0 - AgentBirthFee)
    BY <2>2, <2>3, <1>1, <1>2 DEF Changed
  <2>6. SumFunctionOnSet(s'.balances, Addresses) = inBalances + (0 - AgentBirthFee)
    BY <2>5, <1>2, SumChanged
  <2>7. /\ s'.staked = s.staked /\ s'.total_burned = s.total_burned
        /\ s'.total_locked_for_births = s.total_locked_for_births + AgentBirthFee
        /\ s'.royalties_pending = s.royalties_pending
    BY <2>2 DEF State
  <2>8. Core!Circulating(s') = SumFunctionOnSet(s'.balances, Addresses) + inStakes
                               + s'.total_locked_for_births + s'.total_burned
                               + s'.royalties_pending
    BY <2>4, <2>7, CirculatingType
  <2>20. block_receipts' = block_receipts
    BY <1>5 DEF Core!op_agent_birth, Core!Plain
  <2> HIDE DEF inBalances, inStakes
  <2> QED
    BY <1>1, <1>2, <1>3, <1>4, <2>4, <2>6, <2>7, <2>8, <2>20
<1>6. ASSUME NEW n \in BlockAmounts, Core!op_stake(a, n)
      PROVE  /\ s' \in State /\ block_receipts' \in Int
             /\ Core!Circulating(s') + block_receipts' = Core!Circulating(s) + block_receipts
  <2>1. n \in Int /\ 0 - n \in Int
    BY <1>2
  <2>2. /\ s'.balances = [s.balances EXCEPT ![a] = @ - n]
        /\ s'.staked = [s.staked EXCEPT ![a] = @ + n]
        /\ s' = [s EXCEPT !.balances = s'.balances, !.staked = s'.staked]
    BY <1>6 DEF Core!op_stake, State
  <2>3. s'.balances \in [Addresses -> Int] /\ s'.staked \in [Addresses -> Int]
    BY <2>1, <2>2, <1>1
  <2>4. s' \in State
    BY <2>2, <2>3 DEF State
  <2>5. /\ Changed(s'.balances, s.balances, Addresses, a, 0 - n)
        /\ Changed(s'.staked, s.staked, Addresses, a, n)
    BY <2>1, <2>2, <2>3, <1>1 DEF Changed
  <2>6. /\ SumFunctionOnSet(s'.balances, Addresses) = inBalances + (0 - n)
        /\ SumFunctionOnSet(s'.staked, Addresses) = inStakes + n
    BY <2>5, <1>2, SumChanged
  <2>7. /\ s'.total_locked_for_births = s.total_locked_for_births
        /\ s'.total_burned = s.total_burned
        /\ s'.royalties_pending = s.royalties_pending
    BY <2>2 DEF State
  <2>8. Core!Circulating(s') = SumFunctionOnSet(s'.balances, Addresses)
                               + SumFunctionOnSet(s'.staked, Addresses)
                               + s'.total_locked_for_births + s'.total_burned
                               + s'.royalties_pending
    BY <2>4, CirculatingType
  <2>20. block_receipts' = block_receipts
    BY <1>6 DEF Core!op_stake, Core!Plain
  <2> HIDE DEF inBalances, inStakes
  <2> QED
    BY <1>1, <1>3, <2>1, <2>4, <2>6, <2>7, <2>8, <2>20
<1>7. ASSUME NEW n \in BlockAmounts, Core!op_unstake(a, n)
      PROVE  /\ s' \in State /\ block_receipts' \in Int
             /\ Core!Circulating(s') + block_receipts' = Core!Circulating(s) + block_receipts
  <2>1. n \in Int /\ 0 - n \in Int
    BY <1>2
  <2>2. /\ s'.balances = [s.balances EXCEPT ![a] = @ + n]
        /\ s'.staked = [s.staked EXCEPT ![a] = @ - n]
        /\ s' = [s EXCEPT !.balances = s'.balances, !.staked = s'.staked]
    BY <1>7 DEF Core!op_unstake, State
  <2>3. s'.balances \in [Addresses -> Int] /\ s'.staked \in [Addresses -> Int]
    BY <2>1, <2>2, <1>1
  <2>4. s' \in State
    BY <2>2, <2>3 DEF State
  <2>5. /\ Changed(s'.balances, s.balances, Addresses, a, n)
        /\ Changed(s'.staked, s.staked, Addresses, a, 0 - n)
    BY <2>1, <2>2, <2>3, <1>1 DEF Changed
  <2>6. /\ SumFunctionOnSet(s'.balances, Addresses) = inBalances + n
        /\ SumFunctionOnSet(s'.staked, Addresses) = inStakes + (0 - n)
    BY <2>5, <1>2, SumChanged
  <2>7. /\ s'.total_locked_for_births = s.total_locked_for_births
        /\ s'.total_burned = s.total_burned
        /\ s'.royalties_pending = s.royalties_pending
    BY <2>2 DEF State
  <2>8. Core!Circulating(s') = SumFunctionOnSet(s'.balances, Addresses)
                               + SumFunctionOnSet(s'.staked, Addresses)
                               + s'.total_locked_for_births + s'.total_burned
                               + s'.royalties_pending
    BY <2>4, CirculatingType
  <2>20. block_receipts' = block_receipts
    BY <1>7 DEF Core!op_unstake, Core!Plain
  <2> HIDE DEF inBalances, inStakes
  <2> QED
    BY <1>1, <1>3, <2>1, <2>4, <2>6, <2>7, <2>8, <2>20
<1>8. ASSUME NEW n \in BlockAmounts, Core!op_agent_convert(a, n)
      PROVE  /\ s' \in State /\ block_receipts' \in Int
             /\ Core!Circulating(s') + block_receipts' = Core!Circulating(s) + block_receipts
  <2>1. n \in Int /\ 0 - n \in Int
    BY <1>2
  <2>2. /\ s'.balances = [s.balances EXCEPT ![a] = @ - n]
        /\ s' = [s EXCEPT !.balances = s'.balances, !.total_burned = @ + n]
    BY <1>8 DEF Core!op_agent_convert, State
  <2>3. s'.balances \in [Addresses -> Int]
    BY <2>1, <2>2, <1>1
  <2>4. s' \in State
    <3>1. IsRecord(s')
      BY <2>2 DEF State, IsRecord
    <3>2. /\ s'.staked = s.staked
          /\ s'.agents_born_today = s.agents_born_today
          /\ s'.total_locked_for_births = s.total_locked_for_births
          /\ s'.total_burned = s.total_burned + n
          /\ s'.royalties_pending = s.royalties_pending
          /\ s'.halted = s.halted
      BY <2>2 DEF State
    <3>3. s.total_burned + n \in Int
      BY <2>1, <1>1
    <3> QED
      BY <1>1, <2>3, <3>1, <3>2, <3>3, StateIs
  <2>5. Changed(s'.balances, s.balances, Addresses, a, 0 - n)
    BY <2>1, <2>2, <2>3, <1>1 DEF Changed
  <2>6. SumFunctionOnSet(s'.balances, Addresses) = inBalances + (0 - n)
    BY <2>5, <1>2, SumChanged
  <2>7. /\ s'.staked = s.staked /\ s'.total_burned = s.total_burned + n
        /\ s'.total_locked_for_births = s.total_locked_for_births
        /\ s'.royalties_pending = s.royalties_pending
    BY <2>2 DEF State
  <2>8. Core!Circulating(s') = SumFunctionOnSet(s'.balances, Addresses) + inStakes
                               + s'.total_locked_for_births + s'.total_burned
                               + s'.royalties_pending
    BY <2>4, <2>7, CirculatingType
  <2>20. block_receipts' = block_receipts
    BY <1>8 DEF Core!op_agent_convert, Core!Plain
  <2> HIDE DEF inBalances, inStakes
  <2> QED
    BY <1>1, <1>3, <2>1, <2>4, <2>6, <2>7, <2>8, <2>20
<1>9. ASSUME NEW n \in BlockAmounts, Core!op_job_payment(a, n)
      PROVE  /\ s' \in State /\ block_receipts' \in Int
             /\ Core!Circulating(s') + block_receipts' = Core!Circulating(s) + block_receipts
  <2>1. n \in Int /\ 0 - n \in Int
    BY <1>2
  <2>2. PICK k \in Int, b \in Int, t \in Int :
          k = Core!royalty_amount(n) /\ b = Core!protocol_burn(n) /\ t = Core!ase_treasury(n)
    BY <2>1 DEF Core!royalty_amount, Core!protocol_burn, Core!ase_treasury, Core!agent_share
  <2>3. Core!agent_share(n) = n - k - b
    BY <2>2 DEF Core!agent_share
  <2>4. /\ s'.balances = [s.balances EXCEPT ![a] = @ - n]
        /\ s' = [s EXCEPT !.balances = s'.balances, !.royalties_pending = @ + k,
                          !.total_burned = @ + b + (n - k - b) - t]
    BY <1>9, <2>2, <2>3 DEF Core!op_job_payment, State
  <2>5. s'.balances \in [Addresses -> Int]
    BY <2>1, <2>4, <1>1
  <2>6. s' \in State
    <3>1. IsRecord(s')
      BY <2>4 DEF State, IsRecord
    <3>2. /\ s'.staked = s.staked
          /\ s'.agents_born_today = s.agents_born_today
          /\ s'.total_locked_for_births = s.total_locked_for_births
          /\ s'.total_burned = s.total_burned + b + (n - k - b) - t
          /\ s'.royalties_pending = s.royalties_pending + k
          /\ s'.halted = s.halted
      BY <2>4 DEF State
    <3>3. /\ s.total_burned + b + (n - k - b) - t \in Int /\ s.royalties_pending + k \in Int
      BY <2>1, <2>2, <1>1
    <3> QED
      BY <1>1, <2>5, <3>1, <3>2, <3>3, StateIs
  <2>7. Changed(s'.balances, s.balances, Addresses, a, 0 - n)
    BY <2>1, <2>4, <2>5, <1>1 DEF Changed
  <2>8. SumFunctionOnSet(s'.balances, Addresses) = inBalances + (0 - n)
    BY <2>7, <1>2, SumChanged
  <2>9. /\ s'.staked = s.staked /\ s'.total_burned = s.total_burned + b + (n - k - b) - t
        /\ s'.total_locked_for_births = s.total_locked_for_births
        /\ s'.royalties_pending = s.royalties_pending + k
    BY <2>4 DEF State
  <2>10. Core!Circulating(s') = SumFunctionOnSet(s'.balances, Addresses) + inStakes
                                + s'.total_locked_for_births + s'.total_burned
                                + s'.royalties_pending
    BY <2>6, <2>9, CirculatingType
  <2>20. block_receipts' = block_receipts + t
    BY <1>9, <2>2 DEF Core!op_job_payment
  <2> HIDE DEF inBalances, inStakes
  <2> QED
    BY <1>1, <1>3, <2>1, <2>2, <2>6, <2>8, <2>9, <2>10, <2>20
<1>10. ASSUME NEW n \in BlockAmounts, NEW b \in Addresses, Core!op_transfer(a, b, n)
       PROVE  /\ s' \in State /\ block_receipts' \in Int
             /\ Core!Circulating(s') + block_receipts' = Core!Circulating(s) + block_receipts
  <2>1. n \in Int
    BY <1>2
  <2>2. /\ s'.balances = [[s.balances EXCEPT ![a] = @ - n] EXCEPT ![b] = @ + n]
        /\ s' = [s EXCEPT !.balances = s'.balances]
    <3> DEFINE bal == [[s.balances EXCEPT ![a] = @ - n] EXCEPT ![b] = @ + n]
    <3>1. s' = [s EXCEPT !.balances = bal]
      BY <1>10 DEF Core!op_transfer, Core!moved
    <3> HIDE DEF bal
    <3>2. s'.balances = bal /\ s' = [s EXCEPT !.balances = s'.balances]
      BY <3>1 DEF State
    <3> QED
      BY <3>2 DEF bal
  <2>3. s'.balances \in [Addresses -> Int]
    BY <2>1, <2>2, <1>1
  <2>4. s' \in State
    BY <2>2, <2>3 DEF State
  <2>5. Moved(s'.balances, s.balances, Addresses, a, n, b, n)
    BY <2>1, <2>2, <2>3, <1>1 DEF Moved
  <2>6. SumFunctionOnSet(s'.balances, Addresses) = inBalances - n + n
    BY <2>5, <1>2, SumMoved
  <2>7. /\ s'.staked = s.staked /\ s'.total_burned = s.total_burned
        /\ s'.total_locked_for_births = s.total_locked_for_births
        /\ s'.royalties_pending = s.royalties_pending
    BY <2>2 DEF State
  <2>8. Core!Circulating(s') = SumFunctionOnSet(s'.balances, Addresses) + inStakes
                               + s'.total_locked_for_births + s'.total_burned
                               + s'.royalties_pending
    BY <2>4, <2>7, CirculatingType
  <2>20. block_receipts' = block_receipts
    BY <1>10 DEF Core!op_transfer, Core!Plain
  <2> HIDE DEF inBalances, inStakes
  <2> QED
    BY <1>1, <1>3, <2>1, <2>4, <2>6, <2>7, <2>8, <2>20
<1> QED
  BY <1>4, <1>5, <1>6, <1>7, <1>8, <1>9, <1>10 DEF Instruction

LEMMA CoreInitInv == Core!Init => CoreInv
<1> SUFFICES ASSUME Core!Init PROVE CoreInv
  OBVIOUS
<1>1. PICK b \in [Addresses -> {2 * InitialBalance}] : block_state = Core!InitialState(b)
  BY DEF Core!Init
<1>2. block_state \in State
  BY <1>1, OsoVmAssumption DEF Core!InitialState, State
<1>3. s = block_state /\ receipts = 0 /\ block_receipts = 0 /\ in_block = FALSE /\ passive = FALSE
  BY DEF Core!Init
<1>4. Core!Circulating(block_state) \in Int
  BY <1>2, CirculatingInt
<1>5. Core!Circulating(s) + block_receipts = Core!Circulating(block_state)
  BY <1>3, <1>4
<1>7. receipts \in Int /\ block_receipts \in Int
  BY <1>3
<1>6. s \in State /\ passive \in BOOLEAN /\ ~in_block
  BY <1>2, <1>3, Zenon
<1> QED
  BY <1>2, <1>3, <1>5, <1>6, <1>7, Zenon DEF CoreInv

\* Every step keeps the invariant, and the books; on the Sabbath all it may do to
\* the copy is halt the machine.
LEMMA CoreStep ==
  ASSUME CoreInv, [Core!Next]_(Core!vars)
  PROVE  /\ CoreInv'
         /\ Core!Circulating(block_state') + receipts' = Core!Circulating(block_state) + receipts
         /\ Core!is_sabbath(day) /\ in_block => [s' EXCEPT !.halted = s.halted] = s
<1>0. s = [s EXCEPT !.halted = s.halted] /\ block_state = [block_state EXCEPT !.halted = @]
  BY DEF CoreInv, State
<1>i. Core!Circulating(s) \in Int /\ Core!Circulating(block_state) \in Int
  BY CirculatingInt DEF CoreInv
<1>1. CASE UNCHANGED Core!vars
  BY <1>1, <1>0 DEF CoreInv, Core!vars, Core!Circulating, Core!Total, Core!is_sabbath
<1>2. ASSUME NEW d \in Core!Days, Core!BeginBlock(d)
      PROVE  CoreInv' /\ UNCHANGED <<s, block_state, receipts>>
  <2>1. /\ ~in_block /\ in_block' /\ day' = d /\ passive' = Core!is_sabbath(d)
        /\ UNCHANGED <<s, block_state, receipts, block_receipts>>
    BY <1>2 DEF Core!BeginBlock, Core!BeginsBlock, Core!restricted
  <2>2. passive' \in BOOLEAN
    BY <2>1 DEF Core!is_sabbath
  <2> QED
    BY <1>0, <2>1, <2>2 DEF CoreInv, Core!Circulating, Core!Total, Core!is_sabbath
<1>3. ASSUME NEW d \in Core!Days, Core!SabbathBlock(d)
      PROVE  CoreInv' /\ UNCHANGED <<s, block_state, receipts>>
  BY <1>3 DEF Core!SabbathBlock, Core!BeginsBlock, CoreInv, Core!Circulating, Core!Total
<1>4. CASE Core!EndBlock
  <2>1. /\ block_state' = s /\ receipts' = receipts + block_receipts /\ block_receipts' = 0
        /\ ~in_block' /\ UNCHANGED <<s, passive>>
    BY <1>4 DEF Core!EndBlock
  <2>2. Core!Circulating(block_state') = Core!Circulating(s)
        /\ Core!Circulating(s') = Core!Circulating(s)
    BY <2>1
  <2>3. CoreInv'
    BY <2>1, <2>2, <1>i DEF CoreInv, Core!Circulating, Core!Total
  <2> QED
    BY <1>0, <1>i, <2>1, <2>2, <2>3 DEF CoreInv
<1>5. CASE Core!ThrowBlock
  <2>1. /\ s' = block_state /\ block_receipts' = 0 /\ in_block /\ ~in_block'
        /\ UNCHANGED <<block_state, receipts, day, passive>>
    BY <1>5 DEF Core!ThrowBlock, Core!kept
  <2>2. CoreInv' /\ Core!Circulating(block_state') = Core!Circulating(block_state)
    BY <1>i, <2>1 DEF CoreInv, Core!Circulating, Core!Total
  <2>3. passive => [block_state EXCEPT !.halted = s.halted] = s
    BY <2>1 DEF CoreInv, State
  <2> QED
    BY <2>1, <2>2, <2>3 DEF CoreInv
<1>6. CASE Core!op_halt
  <2>1. s' = [s EXCEPT !.halted = TRUE] /\ in_block
        /\ UNCHANGED <<block_state, receipts, block_receipts, day, in_block, passive>>
    BY <1>6 DEF Core!op_halt, Core!Executes
  <2>2. s' \in State /\ Core!Circulating(s') = Core!Circulating(s)
    BY <2>1, HaltedCirculates DEF CoreInv
  <2>3. [s' EXCEPT !.halted = s.halted] = s
        /\ [s' EXCEPT !.halted = block_state.halted] = [s EXCEPT !.halted = block_state.halted]
    BY <2>1 DEF CoreInv, State
  <2>4. Core!Circulating(block_state') = Core!Circulating(block_state)
    BY <2>1
  <2> QED
    BY <2>1, <2>2, <2>3, <2>4 DEF CoreInv, Core!is_sabbath
<1>7. CASE Core!op_noop
  BY <1>7, <1>0 DEF Core!op_noop, Core!Executes, CoreInv, Core!Circulating, Core!Total,
     Core!is_sabbath
<1>8. ASSUME NEW a \in Addresses, Instruction(a)
      PROVE  CoreInv' /\ UNCHANGED <<block_state, receipts>> /\ ~(Core!is_sabbath(day) /\ in_block)
  <2>1. /\ s' \in State /\ block_receipts' \in Int
        /\ Core!Circulating(s') + block_receipts' = Core!Circulating(s) + block_receipts
        /\ ~passive /\ UNCHANGED <<block_state, receipts, day, in_block, passive>>
    BY <1>8, InstructionAccounts DEF CoreInv
  <2>2. in_block
    BY <1>8 DEF Instruction, Core!Plain, Core!op_agent_birth, Core!op_stake, Core!op_unstake,
       Core!op_agent_convert, Core!op_job_payment, Core!op_transfer, Core!Active, Core!Executes
  <2>3. Core!Circulating(block_state') = Core!Circulating(block_state)
    BY <2>1
  <2> QED
    BY <2>1, <2>2, <2>3 DEF CoreInv, Core!is_sabbath
<1>9. CASE Core!RefuseBlock
  BY <1>1, <1>9 DEF Core!RefuseBlock
<1>10. CASE \E d \in Core!Days : Core!BeginBlock(d) \/ Core!SabbathBlock(d)
  BY <1>0, <1>2, <1>3, <1>10
<1>11. CASE \E a \in Addresses : Instruction(a)
  BY <1>8, <1>11
<1> QED
  BY <1>1, <1>4, <1>5, <1>6, <1>7, <1>9, <1>10, <1>11 DEF Core!Next, Instruction

\* The Ase that leaves the states that blocks return is exactly what their receipts
\* tell agents they keep: for any amounts, also when a block throws after a payment.
THEOREM LossIsOnReceipts == Core!Spec => LossIsReceipted
<1>1. CoreInv /\ [Core!Next]_(Core!vars) => CoreInv'
  BY CoreStep
<1>2. CoreInv /\ [Core!Next]_(Core!vars) =>
        [Core!Circulating(block_state') + receipts'
           = Core!Circulating(block_state) + receipts]_(Core!vars)
  BY CoreStep
<1> QED
  BY CoreInitInv, <1>1, <1>2, PTL DEF Core!Spec, LossIsReceipted, Core!LossIsReceipted

\* On the Sabbath a block can at most halt the machine, also when it throws.
THEOREM SabbathIsKept == Core!Spec => SabbathRests
<1>1. CoreInv /\ [Core!Next]_(Core!vars) => CoreInv'
  BY CoreStep
<1>2. CoreInv /\ [Core!Next]_(Core!vars) =>
        [Core!is_sabbath(day) /\ in_block => [s' EXCEPT !.halted = s.halted] = s]_(Core!vars)
  BY CoreStep
<1> QED
  BY CoreInitInv, <1>1, <1>2, PTL DEF Core!Spec, SabbathRests, Core!SabbathRests

-----------------------------------------------------------------------------
(* Inheritance wallets.                                                     *)

Approvers(w, candidate) == {m \in Council : <<w, m, candidate>> \in approvals}

\* The mask of a wallet that waits for its council says whom its approvals were for:
\* for the candidate it has now.
InheritInv ==
  /\ state \in [Wallets -> {"OPEN", "PENDING", "COUNCIL_READY", "AWARDED"}]
  /\ pending \in [Wallets -> Shrines \cup {NoShrine}]
  /\ winner_of \in [Wallets -> Shrines \cup {NoShrine}]
  /\ approvals_mask \in [Wallets -> SUBSET Council]
  /\ \A w \in Wallets :
       /\ state[w] \in {"PENDING", "COUNCIL_READY"} =>
            approvals_mask[w] \subseteq Approvers(w, pending[w])
       /\ state[w] = "COUNCIL_READY" => Cardinality(approvals_mask[w]) >= ApprovalsNeeded
       /\ winner_of[w] # NoShrine =>
            Cardinality(Approvers(w, winner_of[w])) >= ApprovalsNeeded

LEMMA InheritCardinality == ASSUME NEW S PROVE Inherit!Cardinality(S) = Cardinality(S)
BY DEF Inherit!Cardinality, Cardinality

\* Of two sets of members the larger has no fewer.
LEMMA MoreMembers ==
  ASSUME NEW S \in SUBSET Council, NEW T \in SUBSET S,
         Cardinality(T) >= ApprovalsNeeded
  PROVE  Cardinality(S) >= ApprovalsNeeded
<1>1. IsFiniteSet(S)
  BY OsoVmAssumption, FS_Subset
<1>2. IsFiniteSet(T) /\ Cardinality(T) <= Cardinality(S)
  BY <1>1, FS_Subset
<1>3. Cardinality(T) \in Nat /\ Cardinality(S) \in Nat
  BY <1>1, <1>2, FS_CardinalityType
<1> QED
  BY <1>2, <1>3, OsoVmAssumption

LEMMA InheritInitInv == Inherit!Init => InheritInv
BY DEF Inherit!Init, Inherit!OnWallets, InheritInv

LEMMA InheritStepInv == InheritInv /\ [Inherit!Next]_(Inherit!vars) => InheritInv'
<1> SUFFICES ASSUME InheritInv, [Inherit!Next]_(Inherit!vars) PROVE InheritInv'
  OBVIOUS
<1> USE DEF Inherit!walletVars, Inherit!vaultVars
<1>1. CASE UNCHANGED <<state, pending, approvals_mask, winner_of, approvals>>
  BY <1>1 DEF InheritInv, Approvers
<1>2. ASSUME NEW w \in Wallets, NEW shrine \in Shrines, Inherit!CANDIDATE_APPLY(w, shrine)
      PROVE  InheritInv'
  BY <1>2 DEF Inherit!CANDIDATE_APPLY, InheritInv, Approvers
<1>3. ASSUME NEW w \in Wallets, NEW shrine \in Shrines, Inherit!ReapplyCANDIDATE(w, shrine)
      PROVE  InheritInv'
  <2>1. pending' = pending /\ UNCHANGED <<state, approvals_mask, winner_of, approvals>>
    BY <1>3 DEF Inherit!ReapplyCANDIDATE, Inherit!is_candidate, InheritInv
  <2> QED
    BY <2>1, <1>1
<1>4. ASSUME NEW w \in Wallets, NEW m \in Council, Inherit!COUNCIL_APPROVE(w, m)
      PROVE  InheritInv'
  <2> DEFINE mask == approvals_mask[w] \cup {m}
             ready == Cardinality(mask) >= ApprovalsNeeded
  <2>1. /\ state[w] \in {"PENDING", "COUNCIL_READY"}
        /\ approvals_mask' = [approvals_mask EXCEPT ![w] = mask]
        /\ approvals' = approvals \cup {<<w, m, pending[w]>>}
        /\ UNCHANGED <<pending, winner_of>>
    BY <1>4 DEF Inherit!COUNCIL_APPROVE
  <2>2. mask \in SUBSET Council /\ approvals_mask[w] \in SUBSET mask
    BY DEF InheritInv
  <2>3. approvals_mask'[w] = mask
    BY <2>1 DEF InheritInv
  <2>4. state' = [state EXCEPT ![w] = IF ready THEN "COUNCIL_READY" ELSE state[w]]
    BY <1>4, <2>3, InheritCardinality DEF Inherit!COUNCIL_APPROVE
  <2>5. state[w] = "COUNCIL_READY" => ready
    BY <2>2, MoreMembers DEF InheritInv
  <2>6. \A v \in Wallets : \A c : Approvers(v, c) \subseteq Approvers(v, c)'
    BY <2>1 DEF Approvers
  <2>7. \A v \in Wallets : winner_of'[v] # NoShrine =>
          Cardinality(Approvers(v, winner_of[v])') >= ApprovalsNeeded
    <3> SUFFICES ASSUME NEW v \in Wallets, winner_of'[v] # NoShrine
                 PROVE  Cardinality(Approvers(v, winner_of[v])') >= ApprovalsNeeded
      OBVIOUS
    <3>1. Cardinality(Approvers(v, winner_of[v])) >= ApprovalsNeeded
      BY <2>1 DEF InheritInv
    <3>2. Approvers(v, winner_of[v])' \in SUBSET Council
          /\ Approvers(v, winner_of[v]) \in SUBSET (Approvers(v, winner_of[v])')
      BY <2>1, <2>6 DEF Approvers
    <3> QED
      BY <3>1, <3>2, MoreMembers
  <2>8. mask \subseteq Approvers(w, pending[w])'
    <3>1. m \in Approvers(w, pending[w])'
      BY <2>1 DEF Approvers
    <3>2. approvals_mask[w] \subseteq Approvers(w, pending[w])
      BY <2>1 DEF InheritInv
    <3> QED
      BY <2>1, <3>1, <3>2, <2>6
  <2>9. \A v \in Wallets :
          /\ state'[v] \in {"PENDING", "COUNCIL_READY"} =>
               approvals_mask'[v] \subseteq Approvers(v, pending[v])'
          /\ state'[v] = "COUNCIL_READY" => Cardinality(approvals_mask'[v]) >= ApprovalsNeeded
    <3> SUFFICES ASSUME NEW v \in Wallets
                 PROVE  /\ state'[v] \in {"PENDING", "COUNCIL_READY"} =>
                             approvals_mask'[v] \subseteq Approvers(v, pending[v])'
                        /\ state'[v] = "COUNCIL_READY" =>
                             Cardinality(approvals_mask'[v]) >= ApprovalsNeeded
      OBVIOUS
    <3>1. CASE v = w
      <4>1. state'[w] = "COUNCIL_READY" => ready
        BY <2>4, <2>5 DEF InheritInv
      <4> HIDE DEF mask
      <4> QED
        BY <3>1, <4>1, <2>1, <2>3, <2>8
    <3>2. CASE v # w
      <4>1. state'[v] = state[v] /\ approvals_mask'[v] = approvals_mask[v]
        BY <3>2, <2>1, <2>4 DEF InheritInv
      <4> QED
        BY <4>1, <2>1, <2>6 DEF InheritInv
    <3> QED
      BY <3>1, <3>2
  <2>10. /\ state' \in [Wallets -> {"OPEN", "PENDING", "COUNCIL_READY", "AWARDED"}]
         /\ approvals_mask' \in [Wallets -> SUBSET Council]
         /\ pending' = pending /\ winner_of' = winner_of
    <3> HIDE DEF mask, ready
    <3> QED
      BY <2>1, <2>2, <2>4 DEF InheritInv
  <2> QED
    BY <2>7, <2>9, <2>10 DEF InheritInv, Approvers
<1>5. ASSUME NEW w \in Wallets, Inherit!FINAL_SIGN(w)
      PROVE  InheritInv'
  <2>1. /\ state[w] = "COUNCIL_READY"
        /\ state' = [state EXCEPT ![w] = "AWARDED"]
        /\ winner_of' = [winner_of EXCEPT ![w] = pending[w]]
        /\ UNCHANGED <<pending, approvals_mask, approvals>>
    BY <1>5 DEF Inherit!FINAL_SIGN
  <2>2. Cardinality(Approvers(w, pending[w])) >= ApprovalsNeeded
    <3>1. /\ approvals_mask[w] \in SUBSET Approvers(w, pending[w])
          /\ Cardinality(approvals_mask[w]) >= ApprovalsNeeded
      BY <2>1 DEF InheritInv
    <3>2. Approvers(w, pending[w]) \in SUBSET Council
      BY DEF Approvers
    <3> QED
      BY <3>1, <3>2, MoreMembers
  <2>3. \A v \in Wallets : \A c : Approvers(v, c)' = Approvers(v, c)
    BY <2>1 DEF Approvers
  <2>4. \A v \in Wallets : winner_of'[v] # NoShrine =>
          Cardinality(Approvers(v, winner_of'[v])) >= ApprovalsNeeded
    BY <2>1, <2>2 DEF InheritInv
  <2>5. \A v \in Wallets :
          /\ state'[v] \in {"PENDING", "COUNCIL_READY"} =>
               approvals_mask'[v] \subseteq Approvers(v, pending'[v])
          /\ state'[v] = "COUNCIL_READY" => Cardinality(approvals_mask'[v]) >= ApprovalsNeeded
    BY <2>1 DEF InheritInv
  <2>6. /\ state' \in [Wallets -> {"OPEN", "PENDING", "COUNCIL_READY", "AWARDED"}]
        /\ winner_of' \in [Wallets -> Shrines \cup {NoShrine}]
        /\ pending' \in [Wallets -> Shrines \cup {NoShrine}]
        /\ approvals_mask' \in [Wallets -> SUBSET Council]
    BY <2>1 DEF InheritInv
  <2> QED
    BY <2>1, <2>4, <2>5, <2>6 DEF InheritInv, Approvers
<1> QED
  BY <1>1, <1>2, <1>3, <1>4, <1>5 DEF Inherit!Next, Inherit!Tick, Inherit!DISTRIBUTE_OFFERING,
     Inherit!Refused, Inherit!vars

\* Whoever is awarded a wallet was approved for it by as many members of the
\* council as are needed.
THEOREM AwardsAreApproved == Inherit!Spec => []AwardedByCouncil
<1>1. InheritInv => AwardedByCouncil
  BY InheritCardinality DEF InheritInv, Approvers, AwardedByCouncil, Inherit!AwardedByCouncil
<1> QED
  BY InheritInitInv, InheritStepInv, <1>1, PTL DEF Inherit!Spec

-----------------------------------------------------------------------------
(* The whole.                                                               *)

\* Together the parts behave as each does alone, so what is proved of a part
\* holds of the whole that TLC runs.
THEOREM VmKeepsItsParts == VmSpec => Spec /\ Inherit!Spec /\ Economy!Spec /\ Core!Spec
<1>1. VmInit => Init /\ Inherit!Init /\ Economy!Init /\ Core!Init
  BY DEF VmInit
<1>2. [VmNext]_allVars => /\ [Next]_vars /\ [Inherit!Next]_(Inherit!vars)
                          /\ [Economy!Next]_(Economy!vars) /\ [Core!Next]_(Core!vars)
  BY DEF VmNext, GovernmentStep, InheritanceStep, EconomyStep, BlockStep, allVars,
     inheritVars, economyVars, coreVars, Inherit!vars, Economy!vars, Core!vars
<1> QED
  BY <1>1, <1>2, PTL DEF VmSpec, Spec, Inherit!Spec, Economy!Spec, Core!Spec

\* In particular everything that is checked of the whole.
THEOREM VmCorrect ==
  VmSpec => /\ []LawsCarried /\ ExecutedWithQuorum
            /\ []AwardedByCouncil /\ []AseAccounted
            /\ LossIsReceipted /\ SabbathRests
BY VmKeepsItsParts, LawsAreCarried, ExecutionHasQuorum, AwardsAreApproved, ProgramsAccount,
   LossIsOnReceipts, SabbathIsKept

=============================================================================
