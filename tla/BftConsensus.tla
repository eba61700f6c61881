---------------------------- MODULE BftConsensus ----------------------------
(***************************************************************************)
(* The voting of one node of the native chain (BFTConsensus in               *)
(* blockchain/consensus/src/consensus.rs).  round, phase and votes are each  *)
(* behind a read-write lock of their own: next_round takes them in the order *)
(* round, phase, votes and keeps each until it returns, add_prevote and      *)
(* add_precommit take votes and then phase.  A step here is what happens     *)
(* between two acquisitions; a read takes no time of its own.               *)
(*                                                                         *)
(* What calls these functions is not in the repository, so any number of     *)
(* callers call any of them at any time, and hand in votes under any name:   *)
(* add_prevote and add_precommit ask neither whether the name is that of a   *)
(* validator, nor for which block or round the vote was cast.  A vote is     *)
(* counted in the round that is current when it gets the lock.  A caller     *)
(* that wants to know which round a commit belongs to has current_round and  *)
(* has_commit for it; it asks for the round before and after.               *)
(***************************************************************************)
EXTENDS Integers, FiniteSets, Functions

CONSTANTS
  Callers,            \* tasks that call into the engine
  Names,              \* what they call the voters
  Validators,
  VotingPower,        \* of each validator
  Threshold,          \* ValidatorSet::threshold
  Free,               \* nobody holds the lock
  MaxRound            \* bound of the model on the rounds

Setting ==
  /\ Free \notin Callers /\ IsFiniteSet(Names)
  /\ MaxRound \in Nat /\ Threshold \in Nat

Locks == {"round", "phase", "votes"}
VoteKinds == {"Prevote", "Precommit"}

\* ValidatorSet::new refuses a threshold that is not over two thirds of the power.
ThresholdAccepted == Threshold >= (SumFunction(VotingPower) * 2) \div 3 + 1

NoVote == [kind |-> "none", validator |-> "none"]

VARIABLES
  round,
  phase,
  prevotes, precommits,  \* the names counted
  lock,                  \* who writes under each lock
  pc,                    \* where each caller is, "idle" outside a call
  vote,                  \* the vote a caller hands in
  seen,                  \* the round a caller has read
  precommitted,          \* (history) the names that were counted while round stood at r
  confirmed              \* (history) the rounds that a caller knows to have committed

stateVars == <<round, phase, prevotes, precommits>>
historyVars == <<precommitted, confirmed>>
vars == <<stateVars, lock, pc, vote, seen, historyVars>>

Init ==
  /\ ThresholdAccepted
  /\ round = 0 /\ phase = "NewRound"
  /\ prevotes = {} /\ precommits = {}
  /\ lock = [l \in Locks |-> Free]
  /\ pc = [c \in Callers |-> "idle"]
  /\ vote = [c \in Callers |-> NoVote]
  /\ seen = [c \in Callers |-> 0]
  /\ precommitted = [r \in 0..MaxRound |-> {}] /\ confirmed = {}

goto(c, from, to) == pc[c] = from /\ pc' = [pc EXCEPT ![c] = to]

released(c) == [l \in Locks |-> IF lock[l] = c THEN Free ELSE lock[l]]

\* Votes are counted by heads, whatever their weight.
has_commit == Cardinality(precommits) >= Threshold

-----------------------------------------------------------------------------
\* next_round.  Mutant: the round is raised in a statement of its own, which gives the
\* lock back at its end.
round_taken_briefly(c) == lock

round_taken(c) == [lock EXCEPT !["round"] = c]

BeginNextRound(c) ==
  /\ goto(c, "idle", "next_phase")
  /\ lock["round"] = Free
  /\ round < MaxRound
  /\ round' = round + 1
  /\ lock' = round_taken(c)
  /\ UNCHANGED <<phase, prevotes, precommits, vote, seen, historyVars>>

NextRoundPhase(c) ==
  /\ goto(c, "next_phase", "next_votes")
  /\ lock["phase"] = Free
  /\ phase' = "NewRound"
  /\ lock' = [lock EXCEPT !["phase"] = c]
  /\ UNCHANGED <<round, prevotes, precommits, vote, seen, historyVars>>

\* Mutant: precommits are carried over into the next round.
reset_precommits_keep == precommits

reset_precommits == {}

NextRoundReset(c) ==
  /\ goto(c, "next_votes", "idle")
  /\ lock["votes"] = Free
  /\ prevotes' = {}
  /\ precommits' = reset_precommits
  /\ lock' = released(c)
  /\ UNCHANGED <<round, phase, vote, seen, historyVars>>

-----------------------------------------------------------------------------
\* add_prevote and add_precommit: one is called, ...
AddVote(c, kind, validator) ==
  /\ goto(c, "idle", "add_votes")
  /\ vote' = [vote EXCEPT ![c] = [kind |-> kind, validator |-> validator]]
  /\ UNCHANGED <<stateVars, lock, seen, historyVars>>

\* ... counts the name, ...
CountVote(c) ==
  /\ goto(c, "add_votes", "add_phase")
  /\ lock["votes"] = Free
  /\ lock' = [lock EXCEPT !["votes"] = c]
  /\ \/ /\ vote[c].kind = "Prevote"
        /\ prevotes' = prevotes \cup {vote[c].validator}
        /\ UNCHANGED <<precommits, precommitted>>
     \/ /\ vote[c].kind = "Precommit"
        /\ precommits' = precommits \cup {vote[c].validator}
        /\ precommitted' = [precommitted EXCEPT ![round] = @ \cup {vote[c].validator}]
        /\ UNCHANGED prevotes
  /\ UNCHANGED <<round, phase, vote, seen, confirmed>>

\* ... says in which phase that was, and returns.
VotePhase(c) ==
  /\ goto(c, "add_phase", "idle")
  /\ lock["phase"] = Free
  /\ phase' = vote[c].kind
  /\ vote' = [vote EXCEPT ![c] = NoVote]
  /\ lock' = released(c)
  /\ UNCHANGED <<round, prevotes, precommits, seen, historyVars>>

-----------------------------------------------------------------------------
\* current_round, before ...
ReadRound(c) ==
  /\ goto(c, "idle", "has_commit")
  /\ lock["round"] = Free
  /\ seen' = [seen EXCEPT ![c] = round]
  /\ UNCHANGED <<stateVars, lock, vote, historyVars>>

\* ... has_commit ...
AskCommit(c) ==
  /\ lock["votes"] = Free
  /\ \/ has_commit /\ goto(c, "has_commit", "round_again") /\ UNCHANGED seen
     \/ ~has_commit /\ goto(c, "has_commit", "idle") /\ seen' = [seen EXCEPT ![c] = 0]
  /\ UNCHANGED <<stateVars, lock, vote, historyVars>>

\* ... and current_round after it: if it is the same, that round has committed.
ReadRoundAgain(c) ==
  /\ goto(c, "round_again", "idle")
  /\ lock["round"] = Free
  /\ confirmed' = confirmed \cup ({round} \cap {seen[c]})
  /\ seen' = [seen EXCEPT ![c] = 0]
  /\ UNCHANGED <<stateVars, lock, vote, precommitted>>

InCall(c) == NextRoundPhase(c) \/ NextRoundReset(c) \/ CountVote(c) \/ VotePhase(c)

Next ==
  \E c \in Callers :
    \/ BeginNextRound(c) \/ NextRoundPhase(c) \/ NextRoundReset(c)
    \/ \E kind \in VoteKinds, validator \in Names : AddVote(c, kind, validator)
    \/ CountVote(c) \/ VotePhase(c)
    \/ ReadRound(c) \/ AskCommit(c) \/ ReadRoundAgain(c)

\* A caller goes on with what it has called: the locks are eventually fair, so one
\* that is free again and again is its at some time.
Spec == Init /\ [][Next]_vars /\ \A c \in Callers : SF_vars(InCall(c))

-----------------------------------------------------------------------------
\* Locks are held by callers that are in a call.
TypeOK ==
  /\ round \in 0..MaxRound /\ phase \in VoteKinds \cup {"NewRound"}
  /\ prevotes \subseteq Names /\ precommits \subseteq Names
  /\ lock \in [Locks -> Callers \cup {Free}]
  /\ pc \in [Callers -> {"idle", "next_phase", "next_votes", "add_votes", "add_phase",
                         "has_commit", "round_again"}]
  /\ \A l \in Locks : lock[l] # Free => pc[lock[l]] # "idle"
  /\ seen \in [Callers -> 0..MaxRound]
  /\ precommitted \in [0..MaxRound -> SUBSET Names] /\ confirmed \subseteq 0..MaxRound

\* A commit that is found between two readings of the same round is one of that round:
\* Threshold names were handed in as precommits since it began.  No vote of an earlier
\* round is among those counted, although rounds change and votes come in at any
\* point of the three calls.
CommitOfTheRound == \A r \in confirmed : Cardinality(precommitted[r]) >= Threshold

\* A call to add_prevote or add_precommit gets its vote recorded and returns.
VotesRecorded == \A c \in Callers : pc[c] = "add_votes" ~> pc[c] = "idle"

=============================================================================
