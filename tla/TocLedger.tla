------------------------------ MODULE TocLedger ------------------------------
(***************************************************************************)
(* The Token-of-Compute ledgers of src/oso_vm.jl: module-level dictionaries *)
(* that outlive a request, each behind a lock of its own, written by the    *)
(* handlers GPU_CONTRIBUTION (0x3f), TOC_MINT (0x54) and TOC_DECAY (0x55).   *)
(*                                                                         *)
(* The server gives every request a task (docker-compose.yml runs Julia     *)
(* with JULIA_NUM_THREADS=auto) and handle_run gives it a fresh VM, so the  *)
(* handlers interleave at every lock.  One action is one critical section   *)
(* together with the task-local code around it.                             *)
(*                                                                         *)
(* A client has at most one request in flight; a client that times out and  *)
(* sends its request again counts as two clients.  Clients in InProcess do  *)
(* not go through the server: they run their instructions one after the     *)
(* other on a VM that they keep (execute_ir, the tests).                    *)
(*                                                                         *)
(* GPU time is counted in ticks, TicksPerSynapse of them to one Synapse     *)
(* (3.6 seconds in the code).                                               *)
(***************************************************************************)
EXTENDS Integers, FiniteSets

CONSTANTS
  Clients,            \* callers of the VM
  InProcess,          \* the clients that keep their VM between instructions
  Agents,             \* agent_id
  Jobs,               \* job_id, the key of the repeat-limit ledger
  Receipts,           \* receipt_hash
  MintsFor,           \* MintsFor[c]: the agents client c requests mints for
  TicksPerSynapse,    \* the mint floor, and the price of one Synapse
  DopaminePerSynapse, \* the factor 10 in TOC_MINT
  EpochCap,           \* TokenGuards.PER_AGENT_EPOCH_CAP
  RepeatLimit,        \* TokenGuards.REPEAT_LIMIT
  Amounts,            \* the contributions a request may report, in ticks
  MaxTicks,           \* bound of the model on an agent's contributions
  None                \* no receipt under a hash, no request in a client

Receipt == [agent_id : Agents, gpu_ticks : Nat]

ASSUME ClientsAssumption == IsFiniteSet(Clients) /\ InProcess \subseteq Clients
ASSUME MintsForAssumption == MintsFor \in [Clients -> SUBSET Agents]
ASSUME RateAssumption == TicksPerSynapse \in Nat \ {0} /\ DopaminePerSynapse \in Nat
ASSUME GuardAssumption == EpochCap \in Nat /\ RepeatLimit \in Nat \ {0}
ASSUME AmountsAssumption == Amounts \subseteq Nat \ {0} /\ MaxTicks \in Nat
ASSUME NoneAssumption == None \notin Receipt

VARIABLES
  contributions,      \* _TOC_CONTRIBUTIONS_GLOBAL, never zeroed
  receipts,           \* _RECEIPT_STORE_GLOBAL
  minted,             \* _SYNAPSE_MINTED_GLOBAL, the watermark in ticks
  balance,            \* _SYNAPSE_BALANCE_GLOBAL
  tally,              \* _EPOCH_TALLY_GLOBAL
  count,              \* _EPOCH_COUNT_GLOBAL
  registry,           \* _AGENT_REGISTRY_GLOBAL
  vmBalance,          \* vm.synapse_balance of the VM an in-process client keeps
  pc,                 \* where the handler of each client stands
  req                 \* the local variables of that handler, None when idle

vars == <<contributions, receipts, minted, balance, tally, count, registry,
          vmBalance, pc, req>>

-----------------------------------------------------------------------------
(* The local variables of GPU_CONTRIBUTION and of TOC_MINT.                *)

Recording == [agent_id : Agents, gpu_ticks : Nat, receipt_hash : Receipts \cup {None}]

Minting == [agent_id : Agents, job_id : Jobs, accumulated : Nat,
            already_minted : Nat, capped_dopamine : Nat, new_balance : Nat]

MintSteps == {"read", "checked", "tallied", "marked", "credited"}

unminted(r) == r.accumulated - r.already_minted

\* Mutant: a started Synapse is paid in full.
minted_synapse_rounded_up(r) == (unminted(r) + TicksPerSynapse - 1) \div TicksPerSynapse

minted_synapse(r) == unminted(r) \div TicksPerSynapse

\* Mutant: the candidate is let through whole while the cap is not reached.
enforce_epoch_cap_unclamped(candidate, spent) ==
  IF spent < EpochCap THEN candidate ELSE 0

\* TokenGuards.enforce_epoch_cap: clamp the candidate to what the cap leaves.
enforce_epoch_cap(candidate, spent) ==
  LET remaining == IF spent < EpochCap THEN EpochCap - spent ELSE 0
  IN  IF candidate <= remaining THEN candidate ELSE remaining

\* Mutant: one submission too many.
enforce_repeat_limit_inclusive(submitted) == submitted <= RepeatLimit

\* TokenGuards.enforce_repeat_limit: deny once the limit is reached.
enforce_repeat_limit(submitted) == submitted < RepeatLimit

-----------------------------------------------------------------------------
Init ==
  /\ contributions = [a \in Agents |-> 0]
  /\ receipts = [h \in Receipts |-> None]
  /\ minted = [a \in Agents |-> 0]
  /\ balance = [a \in Agents |-> 0]
  /\ tally = [a \in Agents |-> 0]
  /\ count = [j \in Jobs |-> 0]
  /\ registry = {}
  /\ vmBalance = [c \in InProcess |-> [a \in Agents |-> 0]]
  /\ pc = [c \in Clients |-> "idle"]
  /\ req = [c \in Clients |-> None]

Goto(c, from, to) == pc[c] = from /\ pc' = [pc EXCEPT ![c] = to]

Return(c, from) == Goto(c, from, "idle") /\ req' = [req EXCEPT ![c] = None]

accumulated(a, n) == contributions[a] + n

\* GPU_CONTRIBUTION with an anchor that verifies: first the accumulator ...
GpuContribution(c, a, n, h) ==
  /\ contributions[a] + n <= MaxTicks
  /\ Goto(c, "idle", "contributed")
  /\ contributions' = [contributions EXCEPT ![a] = accumulated(a, n)]
  /\ req' = [req EXCEPT ![c] = [agent_id |-> a, gpu_ticks |-> n, receipt_hash |-> h]]
  /\ UNCHANGED <<receipts, minted, balance, tally, count, registry, vmBalance>>

\* ... then the receipt, under another lock, if the request names one; a hash
\* used before is overwritten.
StoreReceipt(c) ==
  /\ Return(c, "contributed")
  /\ receipts' =
       IF req[c].receipt_hash = None THEN receipts
       ELSE [receipts EXCEPT ![req[c].receipt_hash] =
              [agent_id |-> req[c].agent_id, gpu_ticks |-> req[c].gpu_ticks]]
  /\ UNCHANGED <<contributions, minted, balance, tally, count, registry, vmBalance>>

\* TOC_MINT refuses a request with less than one Synapse to mint.
RefuseMint(c, a) ==
  /\ pc[c] = "idle"
  /\ a \in MintsFor[c]
  /\ contributions[a] - minted[a] < TicksPerSynapse
  /\ UNCHANGED vars

\* TOC_MINT, 1: the accumulator and the watermark, read under one lock.
ReadLedger(c, a, j) ==
  /\ a \in MintsFor[c]
  /\ contributions[a] - minted[a] >= TicksPerSynapse
  /\ Goto(c, "idle", "read")
  /\ req' = [req EXCEPT ![c] =
              [agent_id |-> a, job_id |-> j, accumulated |-> contributions[a],
               already_minted |-> minted[a], capped_dopamine |-> 0, new_balance |-> 0]]
  /\ UNCHANGED <<contributions, receipts, minted, balance, tally, count, registry, vmBalance>>

\* TOC_MINT, 2: copies of the epoch ledgers, judged by the guards after unlock.
CheckGuards(c) ==
  /\ Goto(c, "read", "checked")
  /\ enforce_repeat_limit(count[req[c].job_id])
  /\ req' = [req EXCEPT ![c].capped_dopamine =
              enforce_epoch_cap(minted_synapse(req[c]) * DopaminePerSynapse,
                                tally[req[c].agent_id])]
  /\ UNCHANGED <<contributions, receipts, minted, balance, tally, count, registry, vmBalance>>

RepeatLimited(c) ==
  /\ Return(c, "read")
  /\ ~enforce_repeat_limit(count[req[c].job_id])
  /\ UNCHANGED <<contributions, receipts, minted, balance, tally, count, registry, vmBalance>>

\* TOC_MINT, 3: the epoch ledgers grow by what the guards allowed.
UpdateEpoch(c) ==
  /\ Goto(c, "checked", "tallied")
  /\ tally' = [tally EXCEPT ![req[c].agent_id] = @ + req[c].capped_dopamine]
  /\ count' = [count EXCEPT ![req[c].job_id] = @ + 1]
  /\ UNCHANGED <<contributions, receipts, minted, balance, registry, vmBalance, req>>

\* Mutants: the delta is added to the watermark as it is now, or the watermark is
\* left alone.
new_watermark_add(r) == minted[r.agent_id] + unminted(r)
new_watermark_skip(r) == minted[r.agent_id]

new_watermark(r) == r.already_minted + unminted(r)

\* TOC_MINT, 4: the watermark becomes what step 1 read, not what it is now.
AdvanceWatermark(c) ==
  /\ Goto(c, "tallied", "marked")
  /\ minted' = [minted EXCEPT ![req[c].agent_id] = new_watermark(req[c])]
  /\ UNCHANGED <<contributions, receipts, balance, tally, count, registry, vmBalance, req>>

\* Mutant: the credit replaces the balance.
credited_balance_replace(r) == minted_synapse(r)

credited_balance(r) == balance[r.agent_id] + minted_synapse(r)

\* TOC_MINT, 5: the balance grows by the Synapse computed in step 1.
CreditBalance(c) ==
  /\ Goto(c, "marked", "credited")
  /\ balance' = [balance EXCEPT ![req[c].agent_id] = credited_balance(req[c])]
  /\ req' = [req EXCEPT ![c].new_balance = credited_balance(req[c])]
  /\ UNCHANGED <<contributions, receipts, minted, tally, count, registry, vmBalance>>

registered(a) == registry \cup {a}
mirrored(c) == req[c].new_balance

\* TOC_MINT, 6: register the agent; the VM's mirror takes the global balance.
RegisterAgent(c) ==
  /\ Return(c, "credited")
  /\ registry' = registered(req[c].agent_id)
  /\ vmBalance' = IF c \in InProcess
                    THEN [vmBalance EXCEPT ![c][req[c].agent_id] = mirrored(c)]
                    ELSE vmBalance
  /\ UNCHANGED <<contributions, receipts, minted, balance, tally, count>>

\* TOC_DECAY touches the VM's own mirror only.  On the fresh VM of a request
\* the mirror is empty and the instruction changes nothing.
TocDecay(c, a) ==
  /\ pc[c] = "idle"
  /\ c \in InProcess
  /\ vmBalance[c][a] > 0
  /\ vmBalance' = [vmBalance EXCEPT ![c][a] = (@ * 99) \div 100]
  /\ UNCHANGED <<contributions, receipts, minted, balance, tally, count, registry, pc, req>>

TocMint(c) ==
  \/ \E a \in Agents : RefuseMint(c, a)
  \/ \E a \in Agents, j \in Jobs : ReadLedger(c, a, j)
  \/ CheckGuards(c)
  \/ RepeatLimited(c)
  \/ UpdateEpoch(c)
  \/ AdvanceWatermark(c)
  \/ CreditBalance(c)
  \/ RegisterAgent(c)

Next ==
  \E c \in Clients :
    \/ \E a \in Agents, n \in Amounts, h \in Receipts \cup {None} : GpuContribution(c, a, n, h)
    \/ StoreReceipt(c)
    \/ TocMint(c)
    \/ \E a \in Agents : TocDecay(c, a)

Spec == Init /\ [][Next]_vars

-----------------------------------------------------------------------------
(* Invariants.                                                             *)

\* Every variable has its type; an idle handler holds no request.
TypeOK ==
  /\ contributions \in [Agents -> Nat]
  /\ receipts \in [Receipts -> Receipt \cup {None}]
  /\ minted \in [Agents -> Nat]
  /\ balance \in [Agents -> Nat]
  /\ tally \in [Agents -> Nat]
  /\ count \in [Jobs -> Nat]
  /\ registry \in SUBSET Agents
  /\ vmBalance \in [InProcess -> [Agents -> Nat]]
  /\ pc \in [Clients -> MintSteps \cup {"idle", "contributed"}]
  /\ DOMAIN req = Clients
  /\ \A c \in Clients :
       /\ pc[c] = "contributed" => req[c] \in Recording
       /\ pc[c] \in MintSteps => /\ req[c] \in Minting
                                /\ req[c].already_minted <= req[c].accumulated

\* c is between the steps of a TOC_MINT for agent a.
MintInFlight(c, a) == pc[c] \in MintSteps /\ req[c].agent_id = a

Quiet(a) == \A c \in Clients : ~MintInFlight(c, a)

\* However the steps of concurrent mints interleave, the watermark of an agent
\* never passes what was contributed for it: a stale write can only set it back.
WatermarkBacked == \A a \in Agents : minted[a] <= contributions[a]

\* A stored receipt never claims more GPU time than its agent has on record:
\* COMPUTE_PROOF, which compares the two, finds the contribution when it finds
\* the receipt.
ReceiptBacked ==
  \A h \in Receipts :
    receipts[h] # None => receipts[h].gpu_ticks <= contributions[receipts[h].agent_id]

\* The repeat limit is judged on a copy: a job may pass it, but by no more than
\* the requests that were in flight when the limit was reached.
RepeatOvershootBounded ==
  \A j \in Jobs : count[j] <= RepeatLimit + Cardinality(Clients) - 1

\* The epoch cap is judged on a copy too: concurrent mints can each be granted
\* what is left of it, so the tally may reach the cap once per client, not more.
TallyOvershootBounded ==
  \A a \in Agents : tally[a] <= EpochCap * Cardinality(Clients)

\* The tally of an agent is never ahead of the Synapse issued to it: when no
\* mint for it is in flight, every unit of Dopamine on the tally has its Synapse.
TallyBacked ==
  \A a \in Agents : Quiet(a) => tally[a] <= DopaminePerSynapse * balance[a]

\* Agents are registered by minting and by nothing else: a registered agent
\* holds Synapse, and an agent that holds Synapse is registered once its mint
\* has returned, so that ase_transfer_guard knows it.
RegistryMatchesIssue ==
  \A a \in Agents :
    /\ a \in registry => balance[a] > 0
    /\ balance[a] > 0 /\ Quiet(a) => a \in registry

\* The ledgers that other guards consult agree with the Synapse issued.
LedgersAgree == TallyBacked /\ RegistryMatchesIssue

-----------------------------------------------------------------------------
(* What the ledger promises.  It holds when no two clients mint for the     *)
(* same agent; nothing in the code ensures that.                           *)

DisjointMints ==
  \A c, d \in Clients : c # d => MintsFor[c] \cap MintsFor[d] = {}

\* The Synapse issued to an agent was paid for with GPU time, each tick once.
IssuedWithinContribution ==
  \A a \in Agents : balance[a] * TicksPerSynapse <= minted[a]

-----------------------------------------------------------------------------
(* The strengthenings that make these invariants inductive.                *)

\* What a handler read or recorded, its agent still has on record.
RequestsBacked ==
  \A c \in Clients :
    /\ pc[c] = "contributed" => req[c].gpu_ticks <= contributions[req[c].agent_id]
    /\ pc[c] \in MintSteps => req[c].accumulated <= contributions[req[c].agent_id]

LedgerInv == TypeOK /\ WatermarkBacked /\ ReceiptBacked /\ RequestsBacked

\* The clients that the repeat limit has let pass and the ledger does not show.
Passed(j) == {c \in Clients : pc[c] = "checked" /\ req[c].job_id = j}

RepeatInv ==
  \A j \in Jobs :
    count[j] + Cardinality(Passed(j)) <= RepeatLimit + Cardinality(Clients) - 1

\* A mint takes effect when the balance is credited: until then the watermark
\* that the mint has already advanced does not count as settled.
Marking(a) == {c \in Clients : pc[c] = "marked" /\ req[c].agent_id = a}

Settled ==
  [a \in Agents |-> IF Marking(a) = {} THEN minted[a]
                    ELSE req[CHOOSE c \in Marking(a) : TRUE].already_minted]

\* With one client per agent, nobody moves the watermark under a mint in flight.
OwnRequests ==
  \A c \in Clients : pc[c] \in MintSteps =>
    LET a == req[c].agent_id IN
    /\ a \in MintsFor[c]
    /\ unminted(req[c]) >= TicksPerSynapse
    /\ minted[a] = IF pc[c] \in {"marked", "credited"} THEN req[c].accumulated
                                                      ELSE req[c].already_minted

OwnMintInv ==
  /\ OwnRequests
  /\ \A a \in Agents : balance[a] * TicksPerSynapse <= Settled[a]

=============================================================================
