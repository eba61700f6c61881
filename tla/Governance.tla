----------------------------- MODULE Governance -----------------------------
(***************************************************************************)
(* The Quadrinity Government opcodes 0x40-0x48, 0x4a, 0x4c and 0x4e of       *)
(* oso_vm.jl: proposals, elections and referendums, the votes cast on them,  *)
(* and what an executed proposal lets happen: laws, amendments, impeachments.*)
(* One instruction is one step; an instruction that is refused returns an    *)
(* error and changes nothing.  The three kinds of ballot have a table each   *)
(* and may use the same id; votes are kept by id alone.  An argument that    *)
(* names a voter need not be the sender, so the voter is any.                *)
(***************************************************************************)
EXTENDS Integers, FiniteSets, Functions

CONSTANTS
  ProposalIds, ElectionIds, ReferendumIds,   \* ids, which may coincide
  Voters,
  Choices,        \* what a ballot may say: "yes", "no", a candidate
  Officials, LawIds,
  CouncilSize,    \* length(vm.council)
  None

ASSUME GovernanceAssumption ==
  /\ IsFiniteSet(Voters)
  /\ CouncilSize \in Nat
  /\ {"yes", "no"} \subseteq Choices
  /\ None \notin Choices \cup ProposalIds

VARIABLES
  status,        \* of a proposal
  quorum_met,    \* the result of the last QUORUM, kept with the proposal
  elections, winner, referendums,
  votes,         \* votes[ballot][voter]
  delegations,   \* those who have delegated
  cabinet,
  laws,          \* the proposals that enacted a law and last amended it
  required,      \* (history) what the last QUORUM asked for
  removed_by     \* (history) the proposals that officials were impeached under

vars == <<status, quorum_met, elections, winner, referendums, votes, delegations, cabinet,
          laws, required, removed_by>>
ballotVars == <<status, quorum_met, elections, winner, referendums, required>>
officeVars == <<cabinet, laws, removed_by>>

BallotIds == ProposalIds \cup ElectionIds \cup ReferendumIds
Statuses == {"none", "open", "executed", "vetoed"}
Law == [proposal_id : ProposalIds \cup {None}, amended_by : ProposalIds \cup {None}]

Max2(a, b) == IF a >= b THEN a ELSE b

Init ==
  /\ status = [p \in ProposalIds |-> "none"]
  /\ quorum_met = [p \in ProposalIds |-> FALSE]
  /\ elections = [e \in ElectionIds |-> "none"]
  /\ winner = [e \in ElectionIds |-> None]
  /\ referendums = {}
  /\ votes = [b \in BallotIds |-> [v \in Voters |-> None]]
  /\ delegations = {}
  /\ cabinet = {}
  /\ laws = [l \in LawIds |-> [proposal_id |-> None, amended_by |-> None]]
  /\ required = [p \in ProposalIds |-> 0]
  /\ removed_by = {}

is_known(b) ==
  \/ b \in ProposalIds /\ status[b] # "none"
  \/ b \in ElectionIds /\ elections[b] # "none"
  \/ b \in referendums

Cast(b) == {v \in Voters : votes[b][v] # None}
Said(b, choice) == {v \in Voters : votes[b][v] = choice}

-----------------------------------------------------------------------------
(* Ballots.                                                                 *)

PROPOSAL(p) ==
  /\ status[p] = "none"
  /\ status' = [status EXCEPT ![p] = "open"]
  /\ UNCHANGED <<quorum_met, elections, winner, referendums, required, votes, delegations,
                 officeVars>>

REFERENDUM(r) ==
  /\ r \notin referendums
  /\ referendums' = referendums \cup {r}
  /\ UNCHANGED <<status, quorum_met, elections, winner, required, votes, delegations,
                 officeVars>>

OpenELECTION(e) ==
  /\ elections[e] = "none"
  /\ elections' = [elections EXCEPT ![e] = "open"]
  /\ UNCHANGED <<status, quorum_met, winner, referendums, required, votes, delegations,
                 officeVars>>

\* argmax(tally): some choice nobody outvotes, a candidate or not.
leading(e) ==
  {c \in Choices : Said(e, c) # {} /\
     \A d \in Choices : Cardinality(Said(e, d)) <= Cardinality(Said(e, c))}

CloseELECTION(e) ==
  /\ elections[e] = "open"
  /\ Cast(e) # {}
  /\ elections' = [elections EXCEPT ![e] = "closed"]
  /\ \E c \in leading(e) : winner' = [winner EXCEPT ![e] = c]
  /\ UNCHANGED <<status, quorum_met, referendums, required, votes, delegations, officeVars>>

may_vote(v, b) == v \notin delegations /\ votes[b][v] = None

VOTE(v, b, choice) ==
  /\ is_known(b)
  /\ may_vote(v, b)
  /\ votes' = [votes EXCEPT ![b][v] = choice]
  /\ UNCHANGED <<ballotVars, delegations, officeVars>>

\* A delegation is recorded and takes the right to vote; nobody's vote counts
\* for more because of it, and votes already cast stay.
DELEGATION(delegator, delegate) ==
  /\ delegate # delegator
  /\ delegator \notin delegations
  /\ delegations' = delegations \cup {delegator}
  /\ UNCHANGED <<ballotVars, votes, officeVars>>

\* ceil(council_size * threshold) for a threshold in (0, 1].
Thresholds == 1..Max2(CouncilSize, 1)

met(b, needed) == Cardinality(Cast(b)) >= needed
kept_quorum_for_good(p, needed) == quorum_met[p] \/ met(p, needed)
kept_quorum(p, needed) == met(p, needed)

QUORUM(b, needed) ==
  /\ status[b] # "none"   \* of another kind of ballot nothing is kept
  /\ quorum_met' = [quorum_met EXCEPT ![b] = kept_quorum(b, needed)]
  /\ required' = [required EXCEPT ![b] = needed]
  /\ UNCHANGED <<status, elections, winner, referendums, votes, delegations, officeVars>>

EXECUTION(p) ==
  /\ status[p] = "open"
  /\ quorum_met[p]
  /\ Cardinality(Said(p, "yes")) > Cardinality(Said(p, "no"))
  /\ status' = [status EXCEPT ![p] = "executed"]
  /\ UNCHANGED <<quorum_met, elections, winner, referendums, required, votes, delegations,
                 officeVars>>

\* The final signer vetoes a proposal, also one that is executed already.
VETO(p) ==
  /\ status[p] \in {"open", "executed"}
  /\ status' = [status EXCEPT ![p] = "vetoed"]
  /\ UNCHANGED <<quorum_met, elections, winner, referendums, required, votes, delegations,
                 officeVars>>

-----------------------------------------------------------------------------
(* What an executed proposal allows.                                        *)

is_not_vetoed(p) == status[p] \in {"open", "executed"}
is_executed(p) == status[p] = "executed"

LAW(l, p) ==
  /\ laws[l].proposal_id = None
  /\ is_executed(p)
  /\ laws' = [laws EXCEPT ![l] = [proposal_id |-> p, amended_by |-> None]]
  /\ UNCHANGED <<ballotVars, votes, delegations, cabinet, removed_by>>

AMENDMENT(l, p) ==
  /\ laws[l].proposal_id # None
  /\ is_executed(p)
  /\ laws' = [laws EXCEPT ![l] = [proposal_id |-> laws[l].proposal_id, amended_by |-> p]]
  /\ UNCHANGED <<ballotVars, votes, delegations, cabinet, removed_by>>

\* Appointed by the final signer.
CABINET(official) ==
  /\ official \notin cabinet
  /\ cabinet' = cabinet \cup {official}
  /\ UNCHANGED <<ballotVars, votes, delegations, laws, removed_by>>

IMPEACHMENT(official, p) ==
  /\ official \in cabinet
  /\ is_executed(p)
  /\ cabinet' = cabinet \ {official}
  /\ removed_by' = removed_by \cup {p}
  /\ UNCHANGED <<ballotVars, votes, delegations, laws>>

\* An instruction that is refused, or that only reports.
Refused == UNCHANGED vars

Next ==
  \/ \E p \in ProposalIds :
       \/ PROPOSAL(p) \/ EXECUTION(p) \/ VETO(p)
       \/ \E needed \in Thresholds : QUORUM(p, needed)
       \/ \E l \in LawIds : LAW(l, p) \/ AMENDMENT(l, p)
       \/ \E o \in Officials : IMPEACHMENT(o, p)
  \/ \E e \in ElectionIds : OpenELECTION(e) \/ CloseELECTION(e)
  \/ \E r \in ReferendumIds : REFERENDUM(r)
  \/ \E v \in Voters, b \in BallotIds, choice \in Choices : VOTE(v, b, choice)
  \/ \E v, d \in Voters : DELEGATION(v, d)
  \/ \E o \in Officials : CABINET(o)
  \/ Refused

Spec == Init /\ [][Next]_vars

-----------------------------------------------------------------------------
(* Properties.                                                              *)

TypeOK ==
  /\ status \in [ProposalIds -> Statuses]
  /\ quorum_met \in [ProposalIds -> BOOLEAN]
  /\ votes \in [BallotIds -> [Voters -> Choices \cup {None}]]
  /\ laws \in [LawIds -> Law]
  /\ required \in [ProposalIds -> Nat]
  /\ removed_by \subseteq ProposalIds
  /\ delegations \subseteq Voters

\* A proposal is executed only while as many votes are cast on it as the last
\* QUORUM asked for.  EXECUTION reads the answer that QUORUM left with the
\* proposal; any number of votes, delegations and later checks lie between.
ExecutedWithQuorum ==
  [][\A p \in ProposalIds :
       status[p] # "executed" /\ status'[p] = "executed" =>
         /\ required[p] >= 1
         /\ Cardinality(Cast(p)) >= required[p]]_vars

\* Whatever was done in the name of a proposal - a law in force, its last
\* amendment, an official removed - somebody voted yes for the proposal, and it
\* was executed: it still is, or a veto came later, which undoes nothing.
Carried(p) == status[p] \in {"executed", "vetoed"} /\ Said(p, "yes") # {}

LawsCarried ==
  /\ \A l \in LawIds : \A p \in {laws[l].proposal_id, laws[l].amended_by} \ {None} :
       Carried(p)
  /\ \A p \in removed_by : Carried(p)

\* A vote that is cast stands: it is never changed or withdrawn, not by a
\* second VOTE and not by delegating; and who has delegated casts no more.
VotesStand ==
  [][\A b \in BallotIds, v \in Voters :
       votes[b][v] # None \/ v \in delegations => votes'[b][v] = votes[b][v]]_vars

=============================================================================
