-------------------------- MODULE UcxResourceMeter --------------------------
(***************************************************************************)
(* Accumulated GPU time per agent (integrations/ucx/resource_meter.jl,       *)
(* module ResourceMeter).  Every operation holds the module's lock, so an    *)
(* action is a whole operation; between drain_for_mint and the TOC_MINT it   *)
(* announces, the drained amount is in the hands of the caller.             *)
(*                                                                         *)
(* GPU time is counted in ticks, TicksPerSynapse of them to one Synapse, and *)
(* the mint floor is one Synapse (0.001 hours at 1000 per hour).            *)
(***************************************************************************)
EXTENDS Integers, FiniteSets

CONSTANTS
  Agents,
  Contribution,      \* the ticks one contribution reports
  TicksPerSynapse,
  MaxContributions   \* bound of the model on the contributions of an agent

VARIABLES
  gpu_seconds,        \* accumulated and not yet drained, in ticks
  pending_synapse,    \* announced to TOC_MINT; decays, and is never taken off
  contribution_count,
  drained             \* what the callers of drain_for_mint took away, in ticks

vars == <<gpu_seconds, pending_synapse, contribution_count, drained>>

Init ==
  /\ gpu_seconds = [a \in Agents |-> 0]
  /\ pending_synapse = [a \in Agents |-> 0]
  /\ contribution_count = [a \in Agents |-> 0]
  /\ drained = [a \in Agents |-> 0]

RecordContribution(a) ==
  /\ contribution_count[a] < MaxContributions
  /\ gpu_seconds' = [gpu_seconds EXCEPT ![a] = @ + Contribution]
  /\ contribution_count' = [contribution_count EXCEPT ![a] = @ + 1]
  /\ UNCHANGED <<pending_synapse, drained>>

\* Mutant: the remainder that makes no whole Synapse stays for the next drain,
\* and is handed to the caller as well.
left_after_drain_remainder(a) == gpu_seconds[a] % TicksPerSynapse

left_after_drain(a) == 0

synapse_estimate(a) == gpu_seconds[a] \div TicksPerSynapse

DrainForMint(a) ==
  /\ gpu_seconds[a] >= TicksPerSynapse
  /\ drained' = [drained EXCEPT ![a] = @ + gpu_seconds[a]]
  /\ pending_synapse' = [pending_synapse EXCEPT ![a] = @ + synapse_estimate(a)]
  /\ gpu_seconds' = [gpu_seconds EXCEPT ![a] = left_after_drain(a)]
  /\ UNCHANGED contribution_count

\* An unknown agent, or one below the mint floor, is given nothing.
RefuseDrain(a) == gpu_seconds[a] < TicksPerSynapse /\ UNCHANGED vars

ApplyDecay(a) ==
  /\ pending_synapse[a] # 0
  /\ pending_synapse' = [pending_synapse EXCEPT ![a] = (@ * 99) \div 100]
  /\ UNCHANGED <<gpu_seconds, contribution_count, drained>>

Next ==
  \E a \in Agents :
    RecordContribution(a) \/ DrainForMint(a) \/ RefuseDrain(a) \/ ApplyDecay(a)

Spec == Init /\ [][Next]_vars

-----------------------------------------------------------------------------
\* Every tick contributed is either accumulated or was handed out once:
\* concurrent drains neither lose one nor hand it out twice.
TicksConserved ==
  \A a \in Agents :
    gpu_seconds[a] + drained[a] = contribution_count[a] * Contribution

\* The Synapse announced to TOC_MINT is covered by the ticks handed out for it.
PendingBacked ==
  \A a \in Agents : pending_synapse[a] * TicksPerSynapse <= drained[a]

=============================================================================
