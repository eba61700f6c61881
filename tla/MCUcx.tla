-------------------------------- MODULE MCUcx --------------------------------
(***************************************************************************)
(* The ledgers that an execution is paid from, each agent by the client it   *)
(* works for; the components of the UCX integration; and the GPU pool.  They *)
(* share no state, so what their interleaving can reach is what each can     *)
(* reach by itself: a behaviour is one component's, chosen at the start.     *)
(***************************************************************************)
EXTENDS TocRefinement, TLC

CONSTANTS
  Callers, MeterJobs, Utilizations, MaxSessions, MaxTime,
  Runners, LockIds, UcxAgents, Estimates, Actuals, InitialBalance,
  Contribution, MaxContributions,
  Dids, Units, Burns, TitheNum, TitheDen, DecayNum, DecayDen, GpuPerSynapse,
  MaxRecords, MaxNegativeBurns, MaxDay,
  m1, m2, o1, o2

VARIABLES
  part,   \* the component whose behaviour this is
  now, session, started, sessions, stage, entry,
  synapse_balance, lock_table, issued, step, call,
  gpu_seconds, pending_synapse, contribution_count, drained,
  records, gpu_balances, syn_balances, total_gpu_minted, total_eshu_tithe,
  synapse_minted, last_decay_epoch_day, negative_burns

Meter == INSTANCE UcxJobMeter WITH Jobs <- MeterJobs, registry <- sessions, pc <- stage
Preflight == INSTANCE UcxPreflight WITH Clients <- Runners, Agents <- UcxAgents, pc <- step
Resource == INSTANCE UcxResourceMeter WITH Agents <- UcxAgents
Pool == INSTANCE GpuPool

\* A contribution to the meter is a number of ticks (record_contribution ignores
\* one that is not positive), and so are estimates, bills and balances of Synapse.
\* What the pool is given is of either sign; its decay takes no more than there is.
ASSUME UcxAssumption ==
  /\ Meter!Setting
  /\ Contribution \in Nat
  /\ IsFiniteSet(Dids) /\ Units \subseteq Int /\ Burns \subseteq Int
  /\ TitheNum \in Nat /\ TitheDen \in Nat \ {0}
  /\ GpuPerSynapse \in Nat \ {0}
  /\ DecayNum \in Nat /\ DecayDen \in Nat \ {0} /\ DecayNum <= DecayDen
  /\ IsFiniteSet(Runners) /\ IsFiniteSet(LockIds) /\ None \notin Preflight!Ticket
  /\ Estimates \subseteq Nat /\ Actuals \subseteq Nat /\ InitialBalance \in Nat

meterVars == <<now, session, started, sessions, stage, entry>>
preflightVars == <<synapse_balance, lock_table, issued, step, call>>
resourceVars == <<gpu_seconds, pending_synapse, contribution_count, drained>>
poolVars == <<records, gpu_balances, syn_balances, total_gpu_minted, total_eshu_tithe,
              synapse_minted, last_decay_epoch_day, negative_burns>>
allVars == <<part, vars, meterVars, preflightVars, resourceVars, poolVars>>

UcxInit ==
  /\ part \in {"meter", "preflight", "resource", "pool", "ledgers"}
  /\ Init /\ Meter!Init /\ Preflight!Init /\ Resource!Init /\ Pool!Init

MeterStep ==
  part = "meter" /\ Meter!Next /\ UNCHANGED <<part, vars, preflightVars, resourceVars, poolVars>>
PreflightStep ==
  part = "preflight" /\ Preflight!Next /\ UNCHANGED <<part, vars, meterVars, resourceVars, poolVars>>
ResourceStep ==
  part = "resource" /\ Resource!Next /\ UNCHANGED <<part, vars, meterVars, preflightVars, poolVars>>
PoolStep ==
  part = "pool" /\ Pool!Next /\ UNCHANGED <<part, vars, meterVars, preflightVars, resourceVars>>
TocStep ==
  part = "ledgers" /\ Next /\ UNCHANGED <<part, meterVars, preflightVars, resourceVars, poolVars>>

UcxNext == MeterStep \/ PreflightStep \/ ResourceStep \/ PoolStep \/ TocStep

UcxSpec == UcxInit /\ [][UcxNext]_allVars

\* Two clients, each with an agent of its own.
OwnMints == (m1 :> {o1}) @@ (m2 :> {o2})

\* Callers, runners and lock_ids are interchangeable.
Symmetric == Permutations(Callers) \cup Permutations(Runners) \cup Permutations(LockIds)

\* Idle, in use, and a reading the clamp has to cut.
SomeUtilizations == {-10, 50, 130}

\* What a contribution claims and a burn asks for, of either sign: a burn that makes
\* whole Synapse and one that does not.
SomeUnits == {-5, 7}
SomeBurns == {-3, 3, 4}

-----------------------------------------------------------------------------
(* The properties of the components, in this module's variables.            *)

\* A job is billed no more than the time it took, and its final reading is final;
\* see UcxJobMeter.
BilledWithinWallTime == Meter!BilledWithinWallTime
ReadingFinal == Meter!ReadingFinal

\* Reservations stay within one balance per client; see UcxPreflight.
OverReserveBounded == Preflight!OverReserveBounded

\* No GPU time is lost, handed out twice, or paid for twice in the books of the
\* resource meter; nor is it in those of the pool, but for what rounding gives away
\* to a negative burn; see UcxResourceMeter and GpuPool.
GpuTimeConserved ==
  /\ Resource!TicksConserved /\ Resource!PendingBacked
  /\ Pool!SynapseBacked /\ Pool!SynapsePaidFor

=============================================================================
