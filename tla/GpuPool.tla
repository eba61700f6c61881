------------------------------- MODULE GpuPool -------------------------------
(***************************************************************************)
(* The GPU contribution pool (src/toc/gpu_pool.jl): contributions mint GPU   *)
(* units less a tithe, GPU units burn into Synapse, and Synapse decays once  *)
(* a day.  Every operation holds the pool's lock throughout, so an action is *)
(* a whole operation.                                                       *)
(*                                                                         *)
(* Rates are fractions (369/10000 and 100/10000 in the code); amounts are    *)
(* micro-units small enough not to reach the width of Int64.  No operation   *)
(* looks at the sign of what it is given: a negative contribution takes GPU  *)
(* units away, and a negative burn is granted whenever the balance is not    *)
(* below it, which gives GPU units and takes Synapse.                       *)
(***************************************************************************)
EXTENDS Integers, Functions

CONSTANTS
  Dids,                 \* contributors
  Units,                \* compute_units a contribution may claim, of either sign
  Burns,                \* gpu_amount a burn may ask for, of either sign
  TitheNum, TitheDen,   \* ESHU_TITHE_BPS
  DecayNum, DecayDen,   \* DECAY_BPS_PER_DAY
  GpuPerSynapse,        \* GPU_PER_SYNAPSE_BURN
  MaxRecords,           \* bound of the model on the number of contributions
  MaxNegativeBurns,     \* bound of the model on negative_burns
  MaxDay                \* bound of the model on the epoch day

VARIABLES
  records,              \* the length of contributions
  gpu_balances, syn_balances,
  total_gpu_minted, total_eshu_tithe, synapse_minted,
  last_decay_epoch_day,
  negative_burns        \* (history) how many burns were of a negative amount

vars == <<records, gpu_balances, syn_balances, total_gpu_minted,
          total_eshu_tithe, synapse_minted, last_decay_epoch_day, negative_burns>>

Init ==
  /\ records = 0
  /\ gpu_balances = [d \in Dids |-> 0]
  /\ syn_balances = [d \in Dids |-> 0]
  /\ total_gpu_minted = 0
  /\ total_eshu_tithe = 0
  /\ synapse_minted = 0
  /\ last_decay_epoch_day = 0
  /\ negative_burns = 0

\* Julia's div: it rounds towards zero, where \div rounds down.
truncated(n, den) == IF n >= 0 THEN n \div den ELSE -((-n) \div den)

eshu_tithe(units) == truncated(units * TitheNum, TitheDen)

gpu_net(units) == units - eshu_tithe(units)

\* contribute!: total_gpu_minted grows by the gross amount.
Contribute(d, units) ==
  /\ records < MaxRecords
  /\ records' = records + 1
  /\ gpu_balances' = [gpu_balances EXCEPT ![d] = @ + gpu_net(units)]
  /\ total_gpu_minted' = total_gpu_minted + units
  /\ total_eshu_tithe' = total_eshu_tithe + eshu_tithe(units)
  /\ UNCHANGED <<syn_balances, synapse_minted, last_decay_epoch_day, negative_burns>>

\* Mutant: a burn short of one Synapse still pays one.
synapses_rounded_up(gpu_amount) == truncated(gpu_amount + GpuPerSynapse - 1, GpuPerSynapse)

synapses(gpu_amount) == truncated(gpu_amount, GpuPerSynapse)

negative(gpu_amount) == IF gpu_amount < 0 THEN 1 ELSE 0

\* burn_for_synapse!: the whole amount is burned, what does not make a Synapse
\* with it.
BurnForSynapse(d, gpu_amount) ==
  /\ negative_burns + negative(gpu_amount) <= MaxNegativeBurns
  /\ negative_burns' = negative_burns + negative(gpu_amount)
  /\ gpu_balances[d] >= gpu_amount
  /\ gpu_balances' = [gpu_balances EXCEPT ![d] = @ - gpu_amount]
  /\ syn_balances' = [syn_balances EXCEPT ![d] = @ + synapses(gpu_amount)]
  /\ synapse_minted' = synapse_minted + synapses(gpu_amount)
  /\ UNCHANGED <<records, total_gpu_minted, total_eshu_tithe, last_decay_epoch_day>>

RefuseBurn(d, gpu_amount) == gpu_balances[d] < gpu_amount /\ UNCHANGED vars

decayed_today(epoch_day) == last_decay_epoch_day >= epoch_day

decayed(bal) == bal - truncated(bal * DecayNum, DecayDen)

\* apply_daily_decay!: one day's decay, however many days have passed.
ApplyDailyDecay(epoch_day) ==
  /\ ~decayed_today(epoch_day)
  /\ last_decay_epoch_day' = epoch_day
  /\ syn_balances' = [d \in Dids |-> decayed(syn_balances[d])]
  /\ UNCHANGED <<records, gpu_balances, total_gpu_minted, total_eshu_tithe,
                 synapse_minted, negative_burns>>

SkipDecay(epoch_day) == decayed_today(epoch_day) /\ UNCHANGED vars

Next ==
  \/ \E d \in Dids, units \in Units : Contribute(d, units)
  \/ \E d \in Dids, gpu_amount \in Burns : BurnForSynapse(d, gpu_amount) \/ RefuseBurn(d, gpu_amount)
  \/ \E epoch_day \in 1..MaxDay : ApplyDailyDecay(epoch_day) \/ SkipDecay(epoch_day)

Spec == Init /\ [][Next]_vars

-----------------------------------------------------------------------------
Total(balances) == SumFunction(balances)

\* What has left the balances for good, net of what came back: minted, and neither
\* the tithe's nor anybody's.
burned == total_gpu_minted - total_eshu_tithe - Total(gpu_balances)

\* Each Synapse ever minted was paid for with GpuPerSynapse burned units, but for
\* what negative burns give away: each of them rounds in its caller's favour, by
\* less than the price of one Synapse, and by no more than that.
SynapsePaidFor ==
  synapse_minted * GpuPerSynapse <= burned + negative_burns * (GpuPerSynapse - 1)

\* The Synapse in balances was minted: decay only takes away.  Once a negative burn
\* has left somebody with a negative balance that is no longer so, because such a
\* balance decays upwards.
SynapseBacked == negative_burns = 0 => Total(syn_balances) <= synapse_minted

=============================================================================
