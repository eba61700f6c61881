--------------------------- MODULE MCNativeChain ---------------------------
(***************************************************************************)
(* The ledger and the voting of the native chain, for TLC.  They share no    *)
(* state, so what their interleaving can reach is what each can reach by     *)
(* itself: a behaviour is one component's, chosen at the start.              *)
(***************************************************************************)
EXTENDS MCChainState, TLC

CONSTANTS Voting, Names, Validators, VotingPower, Threshold, Free, MaxRound

VARIABLES
  part,   \* the component whose behaviour this is
  round, phase, prevotes, precommits, lock, pc, vote, seen, precommitted, confirmed

Bft == INSTANCE BftConsensus WITH Callers <- Voting

ASSUME BftSetting == Bft!Setting

bftVars == <<round, phase, prevotes, precommits, lock, pc, vote, seen, precommitted,
             confirmed>>
allVars == <<part, chainVars, bftVars>>

\* Which caller the ledger has does not matter to a behaviour of the voting.
ChainInit ==
  /\ part \in {"ledger", "voting"}
  /\ Init
  /\ Bft!Init
  /\ part = "voting" => caller = "any"

LedgerStep == part = "ledger" /\ Next /\ UNCHANGED <<part, bftVars>>
VotingStep == part = "voting" /\ Bft!Next /\ UNCHANGED <<part, chainVars>>

ChainNext == LedgerStep \/ VotingStep

ChainSpec == ChainInit /\ [][ChainNext]_allVars

-----------------------------------------------------------------------------
\* Callers of the voting are interchangeable.
Symmetric == Permutations(Voting)

\* Voting power 1 each, the default of Validator::new.
UnitPower == [v \in Validators |-> 1]

-----------------------------------------------------------------------------
(* The properties of the voting, in this module's variables.                *)

\* A commit found between two readings of a round is one of that round; see
\* BftConsensus.
CommitOfTheRound == Bft!CommitOfTheRound

=============================================================================
