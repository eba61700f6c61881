----------------------------- MODULE Ucx_proofs -----------------------------
(***************************************************************************)
(* Theorems about the Token-of-Compute ledgers, the components of the UCX    *)
(* integration and the GPU pool, for any number of clients, callers, agents, *)
(* jobs and contributors, and any amounts, rates, caps and limits.           *)
(*                                                                           *)
(* The ledgers: what is minted is backed, how far racing mints can overshoot *)
(* a limit, and that with one client per agent the six steps of a mint       *)
(* implement the atomic one of TocIssuance.                                  *)
(* The job meter: what is billed on a running session covers no time past    *)
(* its last sample, and a registered session has no stopper yet.  The books  *)
(* of the resource meter and of the pool: everything is rounded down.        *)
(* Preflight: the reservations of an agent together with the estimates of    *)
(* the clients that were admitted and have not inserted yet.                 *)
(***************************************************************************)
EXTENDS MCUcx, Sums

-----------------------------------------------------------------------------
(* Arithmetic of the mint.                                                 *)

\* Whole Synapse for n ticks cost no more than n ticks.
LEMMA FloorLemma ==
  ASSUME NEW n \in Nat
  PROVE  /\ n \div TicksPerSynapse \in Nat
         /\ (n \div TicksPerSynapse) * TicksPerSynapse <= n
BY RateAssumption, Z3

\* Synapse already paid for and Synapse paid for now add up.
LEMMA DistributeLemma ==
  ASSUME NEW m \in Nat, NEW n \in Nat
  PROVE  (m + n) * TicksPerSynapse = m * TicksPerSynapse + n * TicksPerSynapse
BY RateAssumption, Z3

\* The cap guard clamps: its result is natural and at most the candidate.
LEMMA EpochCapLemma ==
  ASSUME NEW candidate \in Nat, NEW spent \in Nat
  PROVE  /\ enforce_epoch_cap(candidate, spent) \in Nat
         /\ enforce_epoch_cap(candidate, spent) <= candidate
         /\ spent <= EpochCap => spent + enforce_epoch_cap(candidate, spent) <= EpochCap
BY GuardAssumption DEF enforce_epoch_cap

\* A mint in flight mints a natural number of Synapse.
LEMMA MintedLemma ==
  ASSUME NEW r \in Minting, r.already_minted <= r.accumulated
  PROVE  /\ unminted(r) \in Nat
         /\ minted_synapse(r) \in Nat
         /\ minted_synapse(r) * TicksPerSynapse <= unminted(r)
         /\ minted_synapse(r) * DopaminePerSynapse \in Nat
<1>1. r.accumulated \in Nat /\ r.already_minted \in Nat
  BY DEF Minting
<1>2. unminted(r) \in Nat
  BY <1>1 DEF unminted
<1>3. minted_synapse(r) \in Nat /\ minted_synapse(r) * TicksPerSynapse <= unminted(r)
  BY <1>2, FloorLemma DEF minted_synapse
<1>4. minted_synapse(r) * DopaminePerSynapse \in Nat
  BY <1>3, RateAssumption
<1>. QED
  BY <1>2, <1>3, <1>4

-----------------------------------------------------------------------------
(* Every variable keeps its type.                                          *)

LEMMA TypeStep == TypeOK /\ [Next]_vars => TypeOK'
<1> SUFFICES ASSUME TypeOK, [Next]_vars PROVE TypeOK'
  OBVIOUS
<1> USE ClientsAssumption DEF TypeOK, Goto, Return, MintSteps,
        new_watermark, credited_balance, registered, mirrored, accumulated
<1>1. ASSUME NEW c \in Clients, NEW a \in Agents, NEW n \in Amounts, NEW h \in Receipts \cup {None},
             GpuContribution(c, a, n, h)
      PROVE  TypeOK'
  <2>1. n \in Nat
    BY AmountsAssumption
  <2>2. [agent_id |-> a, gpu_ticks |-> n, receipt_hash |-> h] \in Recording
    BY <2>1 DEF Recording
  <2>. QED
    BY <1>1, <2>1, <2>2 DEF GpuContribution, accumulated
<1>2. ASSUME NEW c \in Clients, StoreReceipt(c)
      PROVE  TypeOK'
  <2>1. /\ req[c] \in Recording
        /\ [agent_id |-> req[c].agent_id, gpu_ticks |-> req[c].gpu_ticks] \in Receipt
    BY <1>2 DEF StoreReceipt, Recording, Receipt
  <2>. QED
    BY <1>2, <2>1 DEF StoreReceipt, Recording
<1>3. ASSUME NEW c \in Clients, NEW a \in Agents, RefuseMint(c, a)
      PROVE  TypeOK'
  BY <1>3 DEF RefuseMint, vars
<1>4. ASSUME NEW c \in Clients, NEW a \in Agents, NEW j \in Jobs, ReadLedger(c, a, j)
      PROVE  TypeOK'
  <2>1. /\ req'[c] \in Minting
        /\ req'[c].already_minted <= req'[c].accumulated
    BY <1>4, RateAssumption DEF ReadLedger, Minting
  <2>. QED
    BY <1>4, <2>1 DEF ReadLedger
<1>5. ASSUME NEW c \in Clients, CheckGuards(c)
      PROVE  TypeOK'
  <2>1. req[c] \in Minting /\ req[c].already_minted <= req[c].accumulated
    BY <1>5 DEF CheckGuards
  <2>2. minted_synapse(req[c]) * DopaminePerSynapse \in Nat
    BY <2>1, MintedLemma
  <2>3. tally[req[c].agent_id] \in Nat
    BY <2>1 DEF Minting
  <2>4. enforce_epoch_cap(minted_synapse(req[c]) * DopaminePerSynapse,
                          tally[req[c].agent_id]) \in Nat
    BY <2>2, <2>3, EpochCapLemma
  <2>5. /\ req'[c] \in Minting
        /\ req'[c].already_minted <= req'[c].accumulated
    BY <1>5, <2>1, <2>4 DEF CheckGuards, Minting
  <2>. QED
    BY <1>5, <2>5 DEF CheckGuards
<1>6. ASSUME NEW c \in Clients, RepeatLimited(c)
      PROVE  TypeOK'
  BY <1>6 DEF RepeatLimited
<1>7. ASSUME NEW c \in Clients, UpdateEpoch(c)
      PROVE  TypeOK'
  BY <1>7 DEF UpdateEpoch, Minting
<1>8. ASSUME NEW c \in Clients, AdvanceWatermark(c)
      PROVE  TypeOK'
  BY <1>8 DEF AdvanceWatermark, new_watermark, Minting, unminted
<1>9. ASSUME NEW c \in Clients, CreditBalance(c)
      PROVE  TypeOK'
  <2>1. req[c] \in Minting /\ req[c].already_minted <= req[c].accumulated
    BY <1>9 DEF CreditBalance, credited_balance
  <2>2. minted_synapse(req[c]) \in Nat
    BY <2>1, MintedLemma
  <2>3. balance[req[c].agent_id] + minted_synapse(req[c]) \in Nat
    BY <2>1, <2>2 DEF Minting
  <2>4. /\ req'[c] \in Minting
        /\ req'[c].already_minted <= req'[c].accumulated
    BY <1>9, <2>1, <2>3 DEF CreditBalance, credited_balance, Minting
  <2>. QED
    BY <1>9, <2>3, <2>4 DEF CreditBalance, credited_balance
<1>10. ASSUME NEW c \in Clients, RegisterAgent(c)
       PROVE  TypeOK'
  <2>1. req[c].agent_id \in Agents /\ req[c].new_balance \in Nat
    BY <1>10 DEF RegisterAgent, registered, mirrored, Minting
  <2>2. vmBalance' \in [InProcess -> [Agents -> Nat]]
    BY <1>10, <2>1 DEF RegisterAgent, registered, mirrored
  <2>. QED
    BY <1>10, <2>1, <2>2 DEF RegisterAgent, registered, mirrored
<1>11. ASSUME NEW c \in Clients, NEW a \in Agents, TocDecay(c, a)
       PROVE  TypeOK'
  <2>1. vmBalance[c][a] \in Nat
    BY <1>11 DEF TocDecay
  <2>2. (vmBalance[c][a] * 99) \div 100 \in Nat
    BY <2>1
  <2>. QED
    BY <1>11, <2>2 DEF TocDecay
<1>12. CASE UNCHANGED vars
  BY <1>12 DEF vars
<1>. QED
  BY <1>1, <1>2, <1>3, <1>4, <1>5, <1>6, <1>7, <1>8, <1>9, <1>10, <1>11, <1>12
     DEF Next, TocMint

\* Every reachable state is well typed.
THEOREM TypeCorrect == Spec => []TypeOK
<1>1. Init => TypeOK
  BY DEF Init, TypeOK, MintSteps
<1>. QED
  BY <1>1, TypeStep, PTL DEF Spec

-----------------------------------------------------------------------------
(* Contributions only grow, so what was read or recorded stays on record.  *)

LEMMA LedgerStep == LedgerInv /\ [Next]_vars => LedgerInv'
<1> SUFFICES ASSUME LedgerInv, [Next]_vars
             PROVE  WatermarkBacked' /\ ReceiptBacked' /\ RequestsBacked'
  BY TypeStep DEF LedgerInv
<1> TypeOK /\ TypeOK'
  BY TypeStep DEF LedgerInv
<1> USE ClientsAssumption
    DEF TypeOK, LedgerInv, WatermarkBacked, ReceiptBacked, RequestsBacked, Goto, Return,
        MintSteps,
        new_watermark, credited_balance, registered, mirrored, accumulated
<1>1. ASSUME NEW c \in Clients, NEW a \in Agents, NEW n \in Amounts, NEW h \in Receipts \cup {None},
             GpuContribution(c, a, n, h)
      PROVE  WatermarkBacked' /\ ReceiptBacked' /\ RequestsBacked'
  <2>1. \A b \in Agents : contributions[b] <= contributions'[b]
    BY <1>1, AmountsAssumption DEF GpuContribution, accumulated
  <2>2. WatermarkBacked'
    BY <1>1, <2>1 DEF GpuContribution, accumulated
  <2>3. ReceiptBacked'
    BY <1>1, <2>1, NoneAssumption DEF GpuContribution, accumulated, Receipt
  <2>4. RequestsBacked'
    <3>1. req'[c].gpu_ticks <= contributions'[req'[c].agent_id]
      BY <1>1, AmountsAssumption DEF GpuContribution, accumulated
    <3>2. ASSUME NEW d \in Clients, d # c
          PROVE  /\ pc'[d] = pc[d] /\ req'[d] = req[d]
                 /\ pc[d] = "contributed" => req[d].agent_id \in Agents /\ req[d].gpu_ticks \in Nat
                 /\ pc[d] \in MintSteps => req[d].agent_id \in Agents /\ req[d].accumulated \in Nat
      BY <1>1, <3>2 DEF GpuContribution, accumulated, Recording, Minting
    <3>3. pc'[c] = "contributed"
      BY <1>1 DEF GpuContribution, accumulated
    <3>. QED
      BY <2>1, <3>1, <3>2, <3>3
  <2>. QED
    BY <2>2, <2>3, <2>4
<1>2. ASSUME NEW c \in Clients, StoreReceipt(c)
      PROVE  WatermarkBacked' /\ ReceiptBacked' /\ RequestsBacked'
  <2>1. ReceiptBacked'
    BY <1>2 DEF StoreReceipt, Recording, Receipt
  <2>. QED
    BY <1>2, <2>1 DEF StoreReceipt
<1>3. ASSUME NEW c \in Clients, NEW a \in Agents, NEW j \in Jobs, ReadLedger(c, a, j)
      PROVE  WatermarkBacked' /\ ReceiptBacked' /\ RequestsBacked'
  BY <1>3 DEF ReadLedger
<1>4. ASSUME NEW c \in Clients, CheckGuards(c)
      PROVE  WatermarkBacked' /\ ReceiptBacked' /\ RequestsBacked'
  <2>1. req'[c].accumulated = req[c].accumulated /\ req'[c].agent_id = req[c].agent_id
    BY <1>4 DEF CheckGuards, Minting
  <2>. QED
    BY <1>4, <2>1 DEF CheckGuards
<1>5. ASSUME NEW c \in Clients, RepeatLimited(c)
      PROVE  WatermarkBacked' /\ ReceiptBacked' /\ RequestsBacked'
  BY <1>5 DEF RepeatLimited
<1>6. ASSUME NEW c \in Clients, UpdateEpoch(c)
      PROVE  WatermarkBacked' /\ ReceiptBacked' /\ RequestsBacked'
  BY <1>6 DEF UpdateEpoch
<1>7. ASSUME NEW c \in Clients, AdvanceWatermark(c)
      PROVE  WatermarkBacked' /\ ReceiptBacked' /\ RequestsBacked'
  <2>1. req[c].already_minted + unminted(req[c]) = req[c].accumulated
    BY <1>7 DEF AdvanceWatermark, new_watermark, Minting, unminted
  <2>. QED
    BY <1>7, <2>1 DEF AdvanceWatermark, new_watermark
<1>8. ASSUME NEW c \in Clients, CreditBalance(c)
      PROVE  WatermarkBacked' /\ ReceiptBacked' /\ RequestsBacked'
  <2>1. req'[c].accumulated = req[c].accumulated /\ req'[c].agent_id = req[c].agent_id
    BY <1>8 DEF CreditBalance, credited_balance, Minting
  <2>. QED
    BY <1>8, <2>1 DEF CreditBalance, credited_balance
<1>9. ASSUME NEW c \in Clients, RegisterAgent(c)
      PROVE  WatermarkBacked' /\ ReceiptBacked' /\ RequestsBacked'
  BY <1>9 DEF RegisterAgent, registered, mirrored
<1>10. ASSUME NEW c \in Clients, NEW a \in Agents, TocDecay(c, a)
       PROVE  WatermarkBacked' /\ ReceiptBacked' /\ RequestsBacked'
  BY <1>10 DEF TocDecay
<1>11. CASE UNCHANGED vars
  BY <1>11 DEF vars
<1>. QED
  BY <1>1, <1>2, <1>3, <1>4, <1>5, <1>6, <1>7, <1>8, <1>9, <1>10, <1>11
     DEF Next, TocMint, RefuseMint

LEMMA LedgerInvariant == Spec => []LedgerInv
<1>1. Init => LedgerInv
  BY DEF Init, LedgerInv, TypeOK, WatermarkBacked, ReceiptBacked, RequestsBacked, MintSteps
<1>. QED
  BY <1>1, LedgerStep, PTL DEF Spec

\* Concurrent mints never set a watermark beyond the contributions.
THEOREM WatermarkCorrect == Spec => []WatermarkBacked
BY LedgerInvariant, PTL DEF LedgerInv

\* Receipts are stored after the contribution they vouch for.
THEOREM ReceiptCorrect == Spec => []ReceiptBacked
BY LedgerInvariant, PTL DEF LedgerInv

-----------------------------------------------------------------------------
(* The repeat limit: who has passed it counts as much as who is counted.   *)

LEMMA PassedLemma ==
  ASSUME NEW j \in Jobs
  PROVE  /\ IsFiniteSet(Passed(j))
         /\ Cardinality(Passed(j)) \in Nat
         /\ Cardinality(Passed(j)) <= Cardinality(Clients)
         /\ Cardinality(Clients) \in Nat
<1>1. Passed(j) \subseteq Clients
  BY DEF Passed
<1>. QED
  BY <1>1, ClientsAssumption, FS_Subset, FS_CardinalityType

LEMMA RepeatStep == TypeOK /\ RepeatInv /\ [Next]_vars => RepeatInv'
<1> SUFFICES ASSUME TypeOK, RepeatInv, [Next]_vars, NEW j \in Jobs
             PROVE  count'[j] + Cardinality(Passed(j)')
                      <= RepeatLimit + Cardinality(Clients) - 1
  BY DEF RepeatInv
<1> DEFINE Kept == count'[j] = count[j] /\ Passed(j)' = Passed(j)
<1> USE DEF TypeOK, Goto, Return, MintSteps
<1>0. /\ count[j] \in Nat
      /\ count[j] + Cardinality(Passed(j)) <= RepeatLimit + Cardinality(Clients) - 1
  BY DEF RepeatInv
<1>1. ASSUME NEW c \in Clients, CheckGuards(c), req[c].job_id = j
      PROVE  count'[j] + Cardinality(Passed(j)') <= RepeatLimit + Cardinality(Clients) - 1
  <2>1. count'[j] = count[j] /\ count[j] < RepeatLimit
    BY <1>1 DEF CheckGuards, enforce_repeat_limit
  <2>2. Passed(j)' \subseteq Clients
    BY DEF Passed
  <2>3. Cardinality(Passed(j)') \in Nat /\ Cardinality(Passed(j)') <= Cardinality(Clients)
    BY <2>2, ClientsAssumption, FS_Subset, FS_CardinalityType
  <2>. QED
    BY <1>0, <2>1, <2>3, PassedLemma, GuardAssumption
<1>2. ASSUME NEW c \in Clients, CheckGuards(c), req[c].job_id # j
      PROVE  Kept
  <2>1. req'[c].job_id = req[c].job_id
    BY <1>2 DEF CheckGuards, Minting
  <2>2. count' = count /\ \A d \in Clients \ {c} : pc'[d] = pc[d] /\ req'[d] = req[d]
    BY <1>2 DEF CheckGuards
  <2>3. c \notin Passed(j) /\ c \notin Passed(j)'
    BY <1>2, <2>1 DEF Passed
  <2>4. \A d \in Clients \ {c} : d \in Passed(j)' <=> d \in Passed(j)
    BY <2>2 DEF Passed
  <2>5. \A d : d \in Passed(j)' => d \in Clients
    BY DEF Passed
  <2>6. Passed(j)' = Passed(j)
    <3>1. \A d : d \in Passed(j)' => d \in Passed(j)
      BY <2>3, <2>4, <2>5
    <3>2. \A d : d \in Passed(j) => d \in Passed(j)'
      BY <2>3, <2>4 DEF Passed
    <3>. QED
      BY <3>1, <3>2, Zenon
  <2>. QED
    BY <2>2, <2>6
<1>3. ASSUME NEW c \in Clients, UpdateEpoch(c), req[c].job_id = j
      PROVE  count'[j] + Cardinality(Passed(j)') <= RepeatLimit + Cardinality(Clients) - 1
  <2>0. /\ c \in Passed(j) /\ c \notin Passed(j)'
        /\ \A d \in Clients \ {c} : d \in Passed(j)' <=> d \in Passed(j)
    BY <1>3 DEF UpdateEpoch, Passed
  <2>1. c \in Passed(j) /\ Passed(j)' = Passed(j) \ {c}
    <3>1. Passed(j) \subseteq Clients /\ Passed(j)' \subseteq Clients
      BY DEF Passed
    <3>2. \A d : d \in Passed(j)' <=> d \in Passed(j) \ {c}
      BY <2>0, <3>1, Zenon
    <3>. QED
      BY <2>0, <3>2, Zenon
  <2>2. Cardinality(Passed(j)') = Cardinality(Passed(j)) - 1
    <3>1. IsFiniteSet(Passed(j))
      BY PassedLemma
    <3>2. \A S : IsFiniteSet(S) /\ c \in S => Cardinality(S \ {c}) = Cardinality(S) - 1
      BY FS_RemoveElement
    <3>. QED
      BY <2>1, <3>1, <3>2, Zenon
  <2>3. count'[j] = count[j] + 1
    BY <1>3 DEF UpdateEpoch
  <2>. QED
    BY <1>0, <2>2, <2>3, PassedLemma, GuardAssumption
<1>4. ASSUME NEW c \in Clients, UpdateEpoch(c), req[c].job_id # j
      PROVE  Kept
  BY <1>4 DEF UpdateEpoch, Passed
<1>5. ASSUME NEW c \in Clients, NEW a \in Agents, NEW n \in Amounts, NEW h \in Receipts \cup {None},
             GpuContribution(c, a, n, h)
      PROVE  Kept
  BY <1>5 DEF GpuContribution, accumulated, Passed
<1>6. ASSUME NEW c \in Clients, StoreReceipt(c)
      PROVE  Kept
  BY <1>6 DEF StoreReceipt, Passed
<1>7. ASSUME NEW c \in Clients, NEW a \in Agents, NEW k \in Jobs, ReadLedger(c, a, k)
      PROVE  Kept
  BY <1>7 DEF ReadLedger, Passed
<1>8. ASSUME NEW c \in Clients, RepeatLimited(c)
      PROVE  Kept
  BY <1>8 DEF RepeatLimited, Passed
<1>9. ASSUME NEW c \in Clients, AdvanceWatermark(c)
      PROVE  Kept
  BY <1>9 DEF AdvanceWatermark, new_watermark, Passed
<1>10. ASSUME NEW c \in Clients, CreditBalance(c)
       PROVE  Kept
  BY <1>10 DEF CreditBalance, credited_balance, Passed
<1>11. ASSUME NEW c \in Clients, RegisterAgent(c)
       PROVE  Kept
  BY <1>11 DEF RegisterAgent, registered, mirrored, Passed
<1>12. ASSUME NEW c \in Clients, NEW a \in Agents, TocDecay(c, a) \/ RefuseMint(c, a)
       PROVE  Kept
  BY <1>12 DEF TocDecay, RefuseMint, Passed, vars
<1>13. ASSUME UNCHANGED vars
       PROVE  Kept
  BY <1>13 DEF vars, Passed
<1>14. ASSUME Kept
       PROVE  count'[j] + Cardinality(Passed(j)') <= RepeatLimit + Cardinality(Clients) - 1
  BY <1>0, <1>14
<1> HIDE DEF Kept
<1>. QED
  BY <1>1, <1>2, <1>3, <1>4, <1>5, <1>6, <1>7, <1>8, <1>9, <1>10, <1>11, <1>12, <1>13,
     <1>14 DEF Next, TocMint

\* The repeat limit is overshot by at most one submission per other client.
THEOREM RepeatCorrect == Spec => []RepeatOvershootBounded
<1>1. Init => RepeatInv
  <2> SUFFICES ASSUME Init, NEW j \in Jobs
               PROVE  count[j] + Cardinality(Passed(j))
                        <= RepeatLimit + Cardinality(Clients) - 1
    BY DEF RepeatInv
  <2>1. count[j] = 0 /\ Passed(j) = {}
    BY DEF Init, Passed
  <2>. QED
    BY <2>1, FS_EmptySet, PassedLemma, GuardAssumption
<1>2. TypeOK /\ RepeatInv => RepeatOvershootBounded
  <2> SUFFICES ASSUME TypeOK, RepeatInv, NEW j \in Jobs
               PROVE  count[j] <= RepeatLimit + Cardinality(Clients) - 1
    BY DEF RepeatOvershootBounded
  <2>1. count[j] \in Nat
    BY DEF TypeOK
  <2>. QED
    BY <2>1, PassedLemma, GuardAssumption DEF RepeatInv
<1>. QED
  BY <1>1, <1>2, TypeCorrect, RepeatStep, PTL DEF Spec

-----------------------------------------------------------------------------
(* The epoch ledgers and the registry: what the mints in flight still owe.  *)

\* The Dopamine granted to the mints for agent a at some of their steps.
Granted(a, steps) ==
  [c \in Clients |-> IF pc[c] \in steps /\ req[c].agent_id = a
                       THEN req[c].capped_dopamine ELSE 0]

InFlight(a, steps) == SumFunctionOnSet(Granted(a, steps), Clients)

\* A grant is within the cap and within the Synapse it is granted for.
GrantsFit ==
  \A c \in Clients : pc[c] \in MintSteps =>
    /\ unminted(req[c]) >= TicksPerSynapse
    /\ req[c].capped_dopamine <= EpochCap
    /\ req[c].capped_dopamine <= minted_synapse(req[c]) * DopaminePerSynapse

\* What is granted and not yet on the tally counts as much as what is on it.
GrantsBounded ==
  \A a \in Agents : tally[a] + InFlight(a, {"checked"}) <= EpochCap * Cardinality(Clients)

\* What is on the tally has its Synapse, or is about to get it.
GrantsBacked ==
  \A a \in Agents :
    tally[a] <= DopaminePerSynapse * balance[a] + InFlight(a, {"tallied", "marked"})

\* An agent that holds Synapse is registered, or is about to be.
RegistryFollows ==
  /\ \A a \in registry : balance[a] > 0
  /\ \A c \in Clients : pc[c] = "credited" => balance[req[c].agent_id] > 0
  /\ \A a \in Agents : balance[a] > 0 =>
       a \in registry \/ \E c \in Clients : pc[c] = "credited" /\ req[c].agent_id = a

EpochInv == TypeOK /\ GrantsFit /\ GrantsBounded /\ GrantsBacked /\ RegistryFollows

LEMMA GrantedType ==
  ASSUME TypeOK, NEW a \in Agents, NEW steps \in SUBSET MintSteps
  PROVE  /\ Granted(a, steps) \in [Clients -> Nat]
         /\ InFlight(a, steps) \in Nat
<1>1. \A c \in Clients : Granted(a, steps)[c] \in Nat
  BY DEF Granted, TypeOK, Minting
<1>2. Granted(a, steps) \in [Clients -> Nat]
  BY <1>1 DEF Granted
<1>3. \A c \in Clients : Granted(a, steps)[c] \in Int /\ Granted(a, steps)[c] >= 0
  BY <1>1
<1>. QED
  BY <1>2, <1>3, ClientsAssumption, SumType DEF InFlight

\* A handler that moves on changes what is in flight by its own grant.
OnlyMoves(c) == \A d \in Clients : d # c => pc'[d] = pc[d] /\ req'[d] = req[d]

LEMMA InFlightChange ==
  ASSUME TypeOK, TypeOK', NEW c \in Clients, OnlyMoves(c),
         NEW a \in Agents, NEW steps \in SUBSET MintSteps
  PROVE  /\ Granted(a, steps)[c] \in Nat /\ (Granted(a, steps)[c])' \in Nat
         /\ InFlight(a, steps) \in Nat /\ InFlight(a, steps)' \in Nat
         /\ InFlight(a, steps)'
              = InFlight(a, steps) - Granted(a, steps)[c] + (Granted(a, steps)[c])'
<1>1. /\ Granted(a, steps) \in [Clients -> Nat] /\ InFlight(a, steps) \in Nat
      /\ Granted(a, steps)' \in [Clients -> Nat] /\ InFlight(a, steps)' \in Nat
  <2>1. /\ \A d \in Clients : (Granted(a, steps)[d])' \in Nat
        /\ Granted(a, steps)' = [d \in Clients |-> (Granted(a, steps)[d])']
    BY DEF Granted, TypeOK, Minting
  <2>2. /\ Granted(a, steps)' \in [Clients -> Nat]
        /\ \A d \in Clients : Granted(a, steps)'[d] \in Int /\ Granted(a, steps)'[d] >= 0
    BY <2>1
  <2>3. InFlight(a, steps)' \in Nat
    BY <2>2, ClientsAssumption, SumType DEF InFlight
  <2>. QED
    BY <2>2, <2>3, GrantedType
<1>2. PICK n \in Int : n = (Granted(a, steps)[c])' - Granted(a, steps)[c]
  BY <1>1
<1>3. \A d \in Clients : d # c => Granted(a, steps)'[d] = Granted(a, steps)[d]
  BY DEF OnlyMoves, Granted
<1>4. Changed(Granted(a, steps)', Granted(a, steps), Clients, c, n)
  BY <1>1, <1>2, <1>3 DEF Changed
<1>5. InFlight(a, steps)' = InFlight(a, steps) + n
  BY <1>4, ClientsAssumption, SumChanged DEF InFlight
<1>. QED
  BY <1>1, <1>2, <1>5

\* A step that has no part in the epoch ledgers or the registry.
Still == UNCHANGED <<tally, balance, registry, pc, req>>

Owing == {"checked", "tallied", "marked", "credited"}

Calm(c) ==
  /\ OnlyMoves(c)
  /\ UNCHANGED <<tally, balance, registry>>
  /\ pc[c] \notin Owing /\ pc'[c] \notin Owing
  /\ pc'[c] \in MintSteps => /\ unminted(req'[c]) >= TicksPerSynapse
                            /\ req'[c].capped_dopamine = 0

LEMMA EpochCases ==
  ASSUME TypeOK, [Next]_vars
  PROVE  \/ Still
         \/ \E c \in Clients : \/ Calm(c) \/ CheckGuards(c) \/ UpdateEpoch(c)
                               \/ AdvanceWatermark(c) \/ CreditBalance(c) \/ RegisterAgent(c)
<1> USE DEF TypeOK, Goto, Return, MintSteps, Calm, OnlyMoves, Owing
<1>1. ASSUME NEW c \in Clients, NEW a \in Agents, NEW n \in Amounts, NEW h \in Receipts \cup {None},
             GpuContribution(c, a, n, h)
      PROVE  Calm(c)
  BY <1>1 DEF GpuContribution
<1>2. ASSUME NEW c \in Clients, StoreReceipt(c) \/ RepeatLimited(c)
      PROVE  Calm(c)
  BY <1>2 DEF StoreReceipt, RepeatLimited
<1>3. ASSUME NEW c \in Clients, NEW a \in Agents, NEW j \in Jobs, ReadLedger(c, a, j)
      PROVE  Calm(c)
  BY <1>3 DEF ReadLedger, unminted
<1>4. ASSUME NEW c \in Clients, NEW a \in Agents, RefuseMint(c, a) \/ TocDecay(c, a)
      PROVE  Still
  BY <1>4 DEF RefuseMint, TocDecay, Still, vars
<1>5. CASE UNCHANGED vars
  BY <1>5 DEF vars, Still
<1> HIDE DEF Calm
<1>. QED
  BY <1>1, <1>2, <1>3, <1>4, <1>5 DEF Next, TocMint

LEMMA GrantsFitStep ==
  ASSUME TypeOK, TypeOK', GrantsFit, [Next]_vars
  PROVE  GrantsFit'
<1> USE DEF TypeOK, GrantsFit, Goto, Return, OnlyMoves
<1>1. CASE Still
  BY <1>1 DEF Still, minted_synapse, unminted
<1>2. ASSUME NEW c \in Clients, OnlyMoves(c),
             pc'[c] \in MintSteps => /\ unminted(req'[c]) >= TicksPerSynapse
                                    /\ req'[c].capped_dopamine <= EpochCap
                                    /\ req'[c].capped_dopamine
                                         <= minted_synapse(req'[c]) * DopaminePerSynapse
      PROVE  GrantsFit'
  <2>1. ASSUME NEW d \in Clients, d # c, pc'[d] \in MintSteps
        PROVE  /\ unminted(req'[d]) >= TicksPerSynapse
               /\ req'[d].capped_dopamine <= EpochCap
               /\ req'[d].capped_dopamine <= minted_synapse(req'[d]) * DopaminePerSynapse
    BY <1>2, <2>1
  <2>. QED
    BY <1>2, <2>1 DEF minted_synapse, unminted
<1>3. ASSUME NEW c \in Clients, Calm(c) PROVE GrantsFit'
  <2>1. OnlyMoves(c)
    BY <1>3 DEF Calm
  <2>2. ASSUME pc'[c] \in MintSteps
        PROVE  /\ unminted(req'[c]) >= TicksPerSynapse
               /\ req'[c].capped_dopamine = 0
               /\ minted_synapse(req'[c]) * DopaminePerSynapse \in Nat
    <3>1. req'[c] \in Minting /\ req'[c].already_minted <= req'[c].accumulated
      BY <2>2
    <3>. QED
      BY <1>3, <2>2, <3>1, MintedLemma DEF Calm
  <2>. QED
    BY <1>2, <2>1, <2>2, GuardAssumption
<1>4. ASSUME NEW c \in Clients, CheckGuards(c) PROVE GrantsFit'
  <2>1. /\ pc[c] = "read" /\ OnlyMoves(c)
        /\ req[c] \in Minting /\ req[c].already_minted <= req[c].accumulated
        /\ tally[req[c].agent_id] \in Nat
    BY <1>4 DEF CheckGuards, Minting, MintSteps
  <2> DEFINE candidate == minted_synapse(req[c]) * DopaminePerSynapse
             cap == enforce_epoch_cap(candidate, tally[req[c].agent_id])
  <2>2. /\ req'[c].capped_dopamine = cap
        /\ req'[c].accumulated = req[c].accumulated
        /\ req'[c].already_minted = req[c].already_minted
    BY <1>4, <2>1 DEF CheckGuards, Minting
  <2>3. candidate \in Nat /\ unminted(req[c]) >= TicksPerSynapse
    BY <2>1, MintedLemma DEF MintSteps
  <2>4. cap \in Nat /\ cap <= candidate /\ cap <= EpochCap
    <3> HIDE DEF candidate
    <3>. QED
      BY <2>1, <2>3, EpochCapLemma, GuardAssumption DEF enforce_epoch_cap
  <2>5. unminted(req'[c]) = unminted(req[c]) /\ minted_synapse(req'[c]) = minted_synapse(req[c])
    BY <2>2 DEF unminted, minted_synapse
  <2> HIDE DEF cap
  <2>. QED
    BY <1>2, <2>1, <2>2, <2>3, <2>4, <2>5
<1>5. ASSUME NEW c \in Clients, UpdateEpoch(c) \/ AdvanceWatermark(c) PROVE GrantsFit'
  <2>1. OnlyMoves(c) /\ pc[c] \in MintSteps /\ req' = req
    BY <1>5 DEF UpdateEpoch, AdvanceWatermark, MintSteps
  <2>. QED
    BY <1>2, <2>1
<1>6. ASSUME NEW c \in Clients, CreditBalance(c) PROVE GrantsFit'
  <2>1. /\ OnlyMoves(c) /\ pc[c] \in MintSteps
        /\ req'[c].accumulated = req[c].accumulated
        /\ req'[c].already_minted = req[c].already_minted
        /\ req'[c].capped_dopamine = req[c].capped_dopamine
    BY <1>6 DEF CreditBalance, MintSteps, Minting
  <2>2. unminted(req'[c]) = unminted(req[c]) /\ minted_synapse(req'[c]) = minted_synapse(req[c])
    BY <2>1 DEF unminted, minted_synapse
  <2>. QED
    BY <1>2, <2>1, <2>2
<1>7. ASSUME NEW c \in Clients, RegisterAgent(c) PROVE GrantsFit'
  <2>1. OnlyMoves(c) /\ pc'[c] \notin MintSteps
    BY <1>7 DEF RegisterAgent, MintSteps
  <2>. QED
    BY <1>2, <2>1
<1>. QED
  BY <1>1, <1>3, <1>4, <1>5, <1>6, <1>7, EpochCases

\* A mint that has not passed the guards leaves at most one cap per other client.
LEMMA OthersGranted ==
  ASSUME TypeOK, GrantsFit, NEW a \in Agents, NEW c \in Clients, pc[c] # "checked"
  PROVE  InFlight(a, {"checked"}) <= EpochCap * Cardinality(Clients) - EpochCap
<1> DEFINE most == [d \in Clients |-> EpochCap]
           others == [d \in Clients |-> IF d = c THEN 0 ELSE EpochCap]
<1>1. EpochCap \in Nat /\ IsFiniteSet(Clients) /\ {"checked"} \in SUBSET MintSteps
  BY GuardAssumption, ClientsAssumption DEF MintSteps
<1>2. \A d \in Clients : /\ Granted(a, {"checked"})[d] \in Int /\ others[d] \in Int
                         /\ Granted(a, {"checked"})[d] <= others[d]
  <2>1. \A d \in Clients : Granted(a, {"checked"})[d] \in Int
    BY <1>1, GrantedType
  <2>2. \A d \in Clients : Granted(a, {"checked"})[d] <= others[d]
    BY <1>1 DEF Granted, GrantsFit, MintSteps
  <2>. QED
    BY <1>1, <2>1, <2>2
<1>3. InFlight(a, {"checked"}) <= SumFunctionOnSet(others, Clients)
  <2> HIDE DEF others
  <2>. QED
    BY <1>1, <1>2, SumMonotone DEF InFlight
<1>4. SumFunctionOnSet(most, Clients) = EpochCap * Cardinality(Clients)
  <2>1. \A d \in Clients : most[d] = EpochCap
    OBVIOUS
  <2> HIDE DEF most
  <2>. QED
    BY <1>1, <2>1, SumConstant
<1>5. Changed(others, most, Clients, c, 0 - EpochCap)
  BY <1>1 DEF Changed
<1>6. /\ SumFunctionOnSet(most, Clients) \in Int
      /\ SumFunctionOnSet(others, Clients) = SumFunctionOnSet(most, Clients) + (0 - EpochCap)
  <2> HIDE DEF most, others
  <2>. QED
    BY <1>1, <1>5, SumChanged
<1>7. InFlight(a, {"checked"}) \in Nat
  BY <1>1, GrantedType
<1>8. PICK m \in Int, e \in Int : m = SumFunctionOnSet(most, Clients) /\ e = EpochCap
  BY <1>1, <1>6
<1> HIDE DEF most, others
<1>. QED
  BY <1>3, <1>4, <1>6, <1>7, <1>8

LEMMA GrantsBoundedStep ==
  ASSUME TypeOK, TypeOK', GrantsFit, GrantsBounded, [Next]_vars
  PROVE  GrantsBounded'
<1> SUFFICES ASSUME NEW a \in Agents
             PROVE  tally'[a] + InFlight(a, {"checked"})' <= EpochCap * Cardinality(Clients)
  BY DEF GrantsBounded
<1> DEFINE before == InFlight(a, {"checked"})
           after == InFlight(a, {"checked"})'
           own(c) == Granted(a, {"checked"})[c]
<1>b. PICK bound \in Int : bound = EpochCap * Cardinality(Clients)
  <2>1. Cardinality(Clients) \in Nat
    BY ClientsAssumption, FS_CardinalityType
  <2>. QED
    BY <2>1, GuardAssumption
<1>s. {"checked"} \in SUBSET MintSteps
  BY DEF MintSteps
<1>0. before \in Nat /\ tally[a] \in Nat /\ tally[a] + before <= bound
  BY <1>b, <1>s, GrantedType DEF GrantsBounded, TypeOK
<1>1. ASSUME NEW c \in Clients, OnlyMoves(c)
      PROVE  own(c) \in Nat /\ own(c)' \in Nat /\ after = before - own(c) + own(c)'
  BY <1>1, <1>s, InFlightChange
<1>2. ASSUME NEW c \in Clients, OnlyMoves(c), tally' = tally,
             pc[c] # "checked", pc'[c] # "checked"
      PROVE  tally'[a] + after <= bound
  <2>1. own(c) = 0 /\ own(c)' = 0
    BY <1>2 DEF Granted
  <2>2. after = before - own(c) + own(c)'
    BY <1>1, <1>2
  <2> HIDE DEF before, after, own
  <2>. QED
    BY <1>0, <1>2, <2>1, <2>2
<1>3. CASE Still
  <2>1. Granted(a, {"checked"})' = Granted(a, {"checked"})
    BY <1>3 DEF Still, Granted
  <2>. QED
    BY <1>0, <1>3, <1>b, <2>1 DEF Still, InFlight
<1>4. ASSUME NEW c \in Clients, Calm(c) \/ AdvanceWatermark(c) \/ CreditBalance(c) \/ RegisterAgent(c)
      PROVE  tally'[a] + after <= bound
  <2>1. /\ OnlyMoves(c) /\ tally' = tally /\ pc[c] # "checked" /\ pc'[c] # "checked"
    BY <1>4 DEF Calm, Owing, AdvanceWatermark, CreditBalance, RegisterAgent, Goto, Return,
       OnlyMoves, TypeOK
  <2>. QED
    BY <1>2, <2>1
<1>5. ASSUME NEW c \in Clients, CheckGuards(c)
      PROVE  tally'[a] + after <= bound
  <2>1. /\ OnlyMoves(c) /\ tally' = tally /\ pc[c] = "read" /\ pc'[c] = "checked"
        /\ req'[c].agent_id = req[c].agent_id
    BY <1>5 DEF CheckGuards, Goto, OnlyMoves, TypeOK, MintSteps, Minting
  <2>2. own(c) = 0 /\ after = before + own(c)'
    <3>1. own(c) = 0
      BY <2>1 DEF Granted
    <3>2. after = before - own(c) + own(c)' /\ own(c)' \in Nat
      BY <1>1, <2>1
    <3> HIDE DEF before, after, own
    <3>. QED
      BY <1>0, <3>1, <3>2
  <2>3. CASE req[c].agent_id # a
    <3>1. own(c)' = 0
      BY <2>1, <2>3 DEF Granted
    <3> HIDE DEF before, after, own
    <3>. QED
      BY <1>0, <2>1, <2>2, <3>1
  <2>4. CASE req[c].agent_id = a
    <3>1. PICK cap \in Nat : /\ own(c)' = cap
                             /\ tally[a] >= EpochCap => cap = 0
                             /\ tally[a] < EpochCap => tally[a] + cap <= EpochCap
      <4>1. own(c)' = enforce_epoch_cap(minted_synapse(req[c]) * DopaminePerSynapse, tally[a])
        BY <1>5, <2>1, <2>4 DEF CheckGuards, Granted, TypeOK, Minting, MintSteps
      <4>2. minted_synapse(req[c]) * DopaminePerSynapse \in Nat
        <5>1. req[c] \in Minting /\ req[c].already_minted <= req[c].accumulated
          BY <2>1 DEF TypeOK, MintSteps
        <5>. QED
          BY <5>1, MintedLemma
      <4>. QED
        BY <4>1, <4>2, <1>0, GuardAssumption DEF enforce_epoch_cap
    <3>2. before <= bound - EpochCap
      BY <2>1, <1>b, OthersGranted
    <3> HIDE DEF before, after, own
    <3>. QED
      BY <1>0, <2>1, <2>2, <3>1, <3>2, GuardAssumption
  <2>. QED
    BY <2>3, <2>4
<1>6. ASSUME NEW c \in Clients, UpdateEpoch(c)
      PROVE  tally'[a] + after <= bound
  <2>1. /\ OnlyMoves(c) /\ pc[c] = "checked" /\ pc'[c] = "tallied" /\ req[c] \in Minting
        /\ tally' = [tally EXCEPT ![req[c].agent_id] = @ + req[c].capped_dopamine]
    BY <1>6 DEF UpdateEpoch, Goto, OnlyMoves, TypeOK, MintSteps
  <2>2. own(c)' = 0 /\ own(c) \in Nat /\ after = before - own(c)
    <3>1. own(c)' = 0
      BY <2>1 DEF Granted
    <3>2. after = before - own(c) + own(c)' /\ own(c) \in Nat
      BY <1>1, <2>1
    <3> HIDE DEF before, after, own
    <3>. QED
      BY <1>0, <3>1, <3>2
  <2>3. tally'[a] = tally[a] + own(c)
    BY <2>1, <1>0 DEF Granted, TypeOK
  <2> HIDE DEF before, after, own
  <2>. QED
    BY <1>0, <2>2, <2>3
<1> HIDE DEF before, after, own
<1>. QED
  BY <1>3, <1>4, <1>5, <1>6, <1>b, EpochCases DEF after

LEMMA GrantsBackedStep ==
  ASSUME TypeOK, TypeOK', GrantsFit, GrantsBacked, [Next]_vars
  PROVE  GrantsBacked'
<1> DEFINE late == {"tallied", "marked"}
<1> SUFFICES ASSUME NEW a \in Agents
             PROVE  tally'[a] <= DopaminePerSynapse * balance'[a] + InFlight(a, late)'
  BY DEF GrantsBacked
<1> DEFINE before == InFlight(a, late)
           after == InFlight(a, late)'
           own(c) == Granted(a, late)[c]
<1>b. PICK paid \in Nat : paid = DopaminePerSynapse * balance[a]
  <2>1. balance[a] \in Nat
    BY DEF TypeOK
  <2>. QED
    BY <2>1, RateAssumption
<1>s. late \in SUBSET MintSteps
  BY DEF MintSteps
<1>0. before \in Nat /\ tally[a] \in Nat /\ tally[a] <= paid + before
  BY <1>b, <1>s, GrantedType DEF GrantsBacked, TypeOK
<1>1. ASSUME NEW c \in Clients, OnlyMoves(c)
      PROVE  own(c) \in Nat /\ own(c)' \in Nat /\ after = before - own(c) + own(c)'
  <2> HIDE DEF late
  <2>. QED
    BY <1>1, <1>s, InFlightChange
<1>2. ASSUME NEW c \in Clients, OnlyMoves(c), tally' = tally, balance' = balance,
             own(c)' = own(c)
      PROVE  tally'[a] <= DopaminePerSynapse * balance'[a] + after
  <2>1. after = before - own(c) + own(c)' /\ own(c) \in Nat
    BY <1>1, <1>2
  <2> HIDE DEF before, after, own
  <2>2. after = before
    BY <1>0, <1>2, <2>1
  <2>. QED
    BY <1>0, <1>b, <1>2, <2>2
<1>3. ASSUME Still
      PROVE  tally'[a] <= DopaminePerSynapse * balance'[a] + after
  <2>1. Granted(a, late)' = Granted(a, late)
    BY <1>3 DEF Still, Granted
  <2>2. after = before
    BY <2>1 DEF InFlight
  <2> HIDE DEF before, after, own
  <2>. QED
    BY <1>0, <1>3, <1>b, <2>2 DEF Still
<1>4. ASSUME NEW c \in Clients,
             Calm(c) \/ CheckGuards(c) \/ AdvanceWatermark(c) \/ RegisterAgent(c)
      PROVE  tally'[a] <= DopaminePerSynapse * balance'[a] + after
  <2>1. /\ OnlyMoves(c) /\ tally' = tally /\ balance' = balance
        /\ \/ pc[c] \notin late /\ pc'[c] \notin late
           \/ pc[c] \in late /\ pc'[c] \in late /\ req'[c] = req[c]
    BY <1>4 DEF Calm, Owing, CheckGuards, AdvanceWatermark, RegisterAgent, Goto, Return,
       OnlyMoves, TypeOK
  <2>2. own(c)' = own(c)
    BY <2>1 DEF Granted
  <2>. QED
    BY <1>2, <2>1, <2>2
<1>5. ASSUME NEW c \in Clients, UpdateEpoch(c)
      PROVE  tally'[a] <= DopaminePerSynapse * balance'[a] + after
  <2>1. /\ OnlyMoves(c) /\ pc[c] = "checked" /\ pc'[c] = "tallied" /\ req[c] \in Minting
        /\ tally' = [tally EXCEPT ![req[c].agent_id] = @ + req[c].capped_dopamine]
        /\ req' = req /\ balance' = balance
    BY <1>5 DEF UpdateEpoch, Goto, OnlyMoves, TypeOK, MintSteps
  <2>2. own(c) = 0 /\ own(c)' \in Nat /\ after = before + own(c)'
    <3>1. own(c) = 0
      BY <2>1 DEF Granted
    <3>2. after = before - own(c) + own(c)' /\ own(c)' \in Nat
      BY <1>1, <2>1
    <3> HIDE DEF before, after, own
    <3>. QED
      BY <1>0, <3>1, <3>2
  <2>3. tally'[a] = tally[a] + own(c)'
    BY <2>1, <1>0 DEF Granted, TypeOK
  <2> HIDE DEF before, after, own
  <2>. QED
    BY <1>0, <1>b, <2>1, <2>2, <2>3
<1>6. ASSUME NEW c \in Clients, CreditBalance(c)
      PROVE  tally'[a] <= DopaminePerSynapse * balance'[a] + after
  <2>1. /\ OnlyMoves(c) /\ pc[c] = "marked" /\ pc'[c] = "credited" /\ req[c] \in Minting
        /\ balance' = [balance EXCEPT ![req[c].agent_id] = @ + minted_synapse(req[c])]
        /\ tally' = tally /\ req[c].already_minted <= req[c].accumulated
    BY <1>6 DEF CreditBalance, credited_balance, Goto, OnlyMoves, TypeOK, MintSteps
  <2>2. own(c)' = 0 /\ own(c) \in Nat /\ after = before - own(c)
    <3>1. own(c)' = 0
      BY <2>1 DEF Granted
    <3>2. after = before - own(c) + own(c)' /\ own(c) \in Nat
      BY <1>1, <2>1
    <3> HIDE DEF before, after, own
    <3>. QED
      BY <1>0, <3>1, <3>2
  <2>3. CASE req[c].agent_id # a
    <3>1. own(c) = 0 /\ balance'[a] = balance[a]
      BY <2>1, <2>3 DEF Granted, TypeOK
    <3> HIDE DEF before, after, own
    <3>. QED
      BY <1>0, <1>b, <2>1, <2>2, <3>1
  <2>4. CASE req[c].agent_id = a
    <3>1. PICK m \in Nat : m = minted_synapse(req[c])
      BY <2>1, MintedLemma
    <3>2. own(c) <= m * DopaminePerSynapse
      BY <2>1, <2>4, <3>1 DEF Granted, GrantsFit, MintSteps
    <3>3. balance'[a] = balance[a] + m /\ balance[a] \in Nat
      BY <2>1, <2>4, <3>1 DEF TypeOK
    <3>4. PICK more \in Nat : more = m * DopaminePerSynapse
      BY RateAssumption
    <3>5. DopaminePerSynapse * balance'[a] = paid + more
      <4>1. PICK b \in Nat, d \in Nat : b = balance[a] /\ d = DopaminePerSynapse
        BY <3>3, RateAssumption
      <4>2. d * (b + m) = d * b + m * d
        OBVIOUS
      <4>. QED
        BY <1>b, <3>3, <3>4, <4>1, <4>2
    <3> HIDE DEF before, after, own
    <3>. QED
      BY <1>0, <2>1, <2>2, <3>2, <3>4, <3>5
  <2>. QED
    BY <2>3, <2>4
<1> HIDE DEF before, after, own
<1>. QED
  BY <1>3, <1>4, <1>5, <1>6, EpochCases DEF after

LEMMA RegistryStep ==
  ASSUME TypeOK, TypeOK', GrantsFit, RegistryFollows, [Next]_vars
  PROVE  RegistryFollows'
<1> USE DEF RegistryFollows
<1>1. CASE Still
  BY <1>1 DEF Still
<1>2. ASSUME NEW c \in Clients,
             Calm(c) \/ CheckGuards(c) \/ UpdateEpoch(c) \/ AdvanceWatermark(c)
      PROVE  RegistryFollows'
  <2>1. /\ OnlyMoves(c) /\ balance' = balance /\ registry' = registry
        /\ pc[c] # "credited" /\ pc'[c] # "credited"
    BY <1>2 DEF Calm, Owing, CheckGuards, UpdateEpoch, AdvanceWatermark, Goto, OnlyMoves,
       TypeOK
  <2>. QED
    BY <2>1 DEF OnlyMoves
<1>3. ASSUME NEW c \in Clients, CreditBalance(c)
      PROVE  RegistryFollows'
  <2>1. /\ OnlyMoves(c) /\ pc[c] = "marked" /\ pc'[c] = "credited" /\ req[c] \in Minting
        /\ req[c].already_minted <= req[c].accumulated
        /\ balance' = [balance EXCEPT ![req[c].agent_id] = @ + minted_synapse(req[c])]
        /\ registry' = registry /\ req'[c].agent_id = req[c].agent_id
    BY <1>3 DEF CreditBalance, credited_balance, Goto, OnlyMoves, TypeOK, MintSteps, Minting
  <2>2. minted_synapse(req[c]) \in Nat \ {0}
    <3>1. unminted(req[c]) \in Nat /\ minted_synapse(req[c]) \in Nat
      BY <2>1, MintedLemma
    <3>2. unminted(req[c]) >= TicksPerSynapse
      BY <2>1 DEF GrantsFit, MintSteps
    <3>3. ASSUME NEW n \in Nat, NEW t \in Nat, t > 0, n >= t
          PROVE  n \div t > 0
      <4>1. n < t * (n \div t) + t
        BY <3>3, Z3
      <4>2. n \div t # 0
        BY <3>3, <4>1
      <4>3. n \div t \in Nat
        BY <3>3, Z3
      <4>. QED
        BY <4>2, <4>3
    <3>. QED
      BY <3>1, <3>2, <3>3, RateAssumption DEF minted_synapse
  <2>3. req[c].agent_id \in Agents /\ balance'[req[c].agent_id] > 0
    BY <2>1, <2>2 DEF TypeOK, Minting
  <2>4. \A b \in Agents : b # req[c].agent_id => balance'[b] = balance[b]
    BY <2>1 DEF TypeOK
  <2>5. \A b \in Agents : balance[b] > 0 => balance'[b] > 0
    BY <2>3, <2>4
  <2>6. \A d \in Clients : pc[d] = "credited" => req[d].agent_id \in Agents
    BY DEF TypeOK, MintSteps, Minting
  <2>7. \A b \in registry' : balance'[b] > 0
    BY <2>1, <2>5 DEF TypeOK
  <2>8. \A d \in Clients : pc'[d] = "credited" => balance'[req'[d].agent_id] > 0
    BY <2>1, <2>3, <2>5, <2>6 DEF OnlyMoves
  <2>9. ASSUME NEW b \in Agents, balance'[b] > 0
        PROVE  b \in registry' \/ \E d \in Clients : pc'[d] = "credited" /\ req'[d].agent_id = b
    BY <2>1, <2>4, <2>9 DEF OnlyMoves
  <2>. QED
    BY <2>7, <2>8, <2>9
<1>4. ASSUME NEW c \in Clients, RegisterAgent(c)
      PROVE  RegistryFollows'
  <2>1. /\ OnlyMoves(c) /\ pc[c] = "credited" /\ pc'[c] = "idle" /\ balance' = balance
        /\ registry' = registry \cup {req[c].agent_id}
    BY <1>4 DEF RegisterAgent, registered, Return, Goto, OnlyMoves, TypeOK
  <2>. QED
    BY <2>1 DEF OnlyMoves
<1>. QED
  BY <1>1, <1>2, <1>3, <1>4, EpochCases

LEMMA EpochInvariant == Spec => []EpochInv
<1>1. Init => EpochInv
  <2> SUFFICES ASSUME Init PROVE EpochInv
    OBVIOUS
  <2>1. TypeOK /\ GrantsFit /\ RegistryFollows
    BY DEF Init, TypeOK, GrantsFit, RegistryFollows, MintSteps
  <2>2. ASSUME NEW a \in Agents, NEW steps \in SUBSET MintSteps
        PROVE  InFlight(a, steps) = 0
    <3>1. \A c \in Clients : Granted(a, steps)[c] = 0
      BY DEF Granted, Init, MintSteps
    <3>2. InFlight(a, steps) = 0 * Cardinality(Clients)
      BY <3>1, ClientsAssumption, SumConstant DEF InFlight
    <3>. QED
      BY <3>2, ClientsAssumption, FS_CardinalityType
  <2>3. \A a \in Agents : /\ tally[a] = 0 /\ balance[a] = 0
                          /\ InFlight(a, {"checked"}) = 0
                          /\ InFlight(a, {"tallied", "marked"}) = 0
    BY <2>2 DEF Init, MintSteps
  <2>4. 0 <= EpochCap * Cardinality(Clients) /\ DopaminePerSynapse * 0 = 0
    BY GuardAssumption, RateAssumption, ClientsAssumption, FS_CardinalityType
  <2>. QED
    BY <2>1, <2>3, <2>4 DEF EpochInv, GrantsBounded, GrantsBacked
<1>2. EpochInv /\ [Next]_vars => EpochInv'
  BY TypeStep, GrantsFitStep, GrantsBoundedStep, GrantsBackedStep, RegistryStep DEF EpochInv
<1>. QED
  BY <1>1, <1>2, PTL DEF Spec

\* However many mints read the tally before one of them writes it, the tally of an
\* agent stays within one cap per client.
THEOREM TallyCorrect == Spec => []TallyOvershootBounded
<1>1. EpochInv => TallyOvershootBounded
  <2> SUFFICES ASSUME EpochInv, NEW a \in Agents
               PROVE  tally[a] <= EpochCap * Cardinality(Clients)
    BY DEF TallyOvershootBounded
  <2>1. PICK bound \in Int : bound = EpochCap * Cardinality(Clients)
    BY GuardAssumption, ClientsAssumption, FS_CardinalityType
  <2>2. InFlight(a, {"checked"}) \in Nat /\ tally[a] \in Nat
    BY GrantedType DEF EpochInv, TypeOK, MintSteps
  <2>. QED
    BY <2>1, <2>2 DEF EpochInv, GrantsBounded
<1>. QED
  BY <1>1, EpochInvariant, PTL

\* Once the mints of an agent have returned, its tally is backed by Synapse, and it
\* is registered if and only if it holds any.
THEOREM LedgersCorrect == Spec => []LedgersAgree
<1>1. EpochInv => LedgersAgree
  <2> SUFFICES ASSUME EpochInv, NEW a \in Agents
               PROVE  /\ Quiet(a) => tally[a] <= DopaminePerSynapse * balance[a]
                      /\ a \in registry => balance[a] > 0
                      /\ balance[a] > 0 /\ Quiet(a) => a \in registry
    BY DEF LedgersAgree, TallyBacked, RegistryMatchesIssue
  <2>1. ASSUME Quiet(a) PROVE InFlight(a, {"tallied", "marked"}) = 0
    <3>1. \A c \in Clients : Granted(a, {"tallied", "marked"})[c] = 0
      BY <2>1 DEF Granted, Quiet, MintInFlight, MintSteps
    <3>2. InFlight(a, {"tallied", "marked"}) = 0 * Cardinality(Clients)
      BY <3>1, ClientsAssumption, SumConstant DEF InFlight
    <3>. QED
      BY <3>2, ClientsAssumption, FS_CardinalityType
  <2>2. DopaminePerSynapse * balance[a] \in Nat
    <3>1. balance[a] \in Nat
      BY DEF EpochInv, TypeOK
    <3>. QED
      BY <3>1, RateAssumption
  <2>3. Quiet(a) => tally[a] <= DopaminePerSynapse * balance[a]
    BY <2>1, <2>2 DEF EpochInv, GrantsBacked
  <2>4. balance[a] > 0 /\ Quiet(a) => a \in registry
    BY DEF EpochInv, RegistryFollows, Quiet, MintInFlight, MintSteps
  <2>. QED
    BY <2>3, <2>4 DEF EpochInv, RegistryFollows
<1>. QED
  BY <1>1, EpochInvariant, PTL

-----------------------------------------------------------------------------
(* One client per agent: the six steps of a mint amount to one.            *)

LEMMA OwnRequestsStep ==
  ASSUME DisjointMints
  PROVE  LedgerInv /\ OwnRequests /\ [Next]_vars => OwnRequests'
<1> SUFFICES ASSUME LedgerInv, OwnRequests, [Next]_vars
             PROVE  OwnRequests'
  OBVIOUS
<1> TypeOK
  BY DEF LedgerInv
<1> USE ClientsAssumption DEF TypeOK, OwnRequests, Goto, Return, MintSteps, unminted
<1>1. ASSUME NEW c \in Clients, NEW d \in Clients, c # d,
             pc[c] \in MintSteps, pc[d] \in MintSteps
      PROVE  req[c].agent_id # req[d].agent_id
  BY <1>1, MintsForAssumption DEF DisjointMints, Minting
<1>2. ASSUME NEW c \in Clients, NEW a \in Agents, NEW n \in Amounts, NEW h \in Receipts \cup {None},
             GpuContribution(c, a, n, h)
      PROVE  OwnRequests'
  BY <1>2 DEF GpuContribution, accumulated
<1>3. ASSUME NEW c \in Clients, StoreReceipt(c)
      PROVE  OwnRequests'
  BY <1>3 DEF StoreReceipt
<1>4. ASSUME NEW c \in Clients, NEW a \in Agents, NEW j \in Jobs, ReadLedger(c, a, j)
      PROVE  OwnRequests'
  BY <1>4 DEF ReadLedger
<1>5. ASSUME NEW c \in Clients, CheckGuards(c)
      PROVE  OwnRequests'
  <2>1. /\ req'[c].agent_id = req[c].agent_id
        /\ req'[c].accumulated = req[c].accumulated
        /\ req'[c].already_minted = req[c].already_minted
    BY <1>5 DEF CheckGuards, Minting
  <2>. QED
    BY <1>5, <2>1 DEF CheckGuards
<1>6. ASSUME NEW c \in Clients, RepeatLimited(c) \/ RegisterAgent(c)
      PROVE  OwnRequests'
  BY <1>6 DEF RepeatLimited, RegisterAgent
<1>7. ASSUME NEW c \in Clients, UpdateEpoch(c)
      PROVE  OwnRequests'
  BY <1>7 DEF UpdateEpoch
<1>8. ASSUME NEW c \in Clients, AdvanceWatermark(c)
      PROVE  OwnRequests'
  <2>1. req[c] \in Minting /\ pc[c] = "tallied" /\ pc' = [pc EXCEPT ![c] = "marked"]
    BY <1>8 DEF AdvanceWatermark, new_watermark
  <2>2. minted' = [minted EXCEPT ![req[c].agent_id] = req[c].accumulated]
    <3>1. req[c].already_minted + unminted(req[c]) = req[c].accumulated
      BY <2>1 DEF Minting
    <3>. QED
      BY <1>8, <3>1 DEF AdvanceWatermark, new_watermark
  <2>3. minted'[req[c].agent_id] = req[c].accumulated /\ req' = req
    BY <1>8, <2>1, <2>2 DEF AdvanceWatermark, new_watermark, Minting
  <2>4. ASSUME NEW d \in Clients, d # c, pc[d] \in MintSteps
        PROVE  minted'[req[d].agent_id] = minted[req[d].agent_id] /\ pc'[d] = pc[d]
    BY <1>1, <2>1, <2>2, <2>4 DEF Minting
  <2>. QED
    BY <2>1, <2>3, <2>4
<1>9. ASSUME NEW c \in Clients, CreditBalance(c)
      PROVE  OwnRequests'
  <2>1. /\ req'[c].agent_id = req[c].agent_id
        /\ req'[c].accumulated = req[c].accumulated
        /\ req'[c].already_minted = req[c].already_minted
    BY <1>9 DEF CreditBalance, credited_balance, Minting
  <2>. QED
    BY <1>9, <2>1 DEF CreditBalance, credited_balance
<1>10. ASSUME NEW c \in Clients, NEW a \in Agents, TocDecay(c, a)
       PROVE  OwnRequests'
  BY <1>10 DEF TocDecay
<1>11. CASE UNCHANGED vars
  BY <1>11 DEF vars
<1>. QED
  BY <1>2, <1>3, <1>4, <1>5, <1>6, <1>7, <1>8, <1>9, <1>10, <1>11
     DEF Next, TocMint, RefuseMint

\* What Settled is: a client that has marked the watermark hides it.
SettledFact ==
  \A a \in Agents :
    /\ Marking(a) = {} => Settled[a] = minted[a]
    /\ \A c \in Clients : pc[c] = "marked" /\ req[c].agent_id = a
         => Settled[a] = req[c].already_minted

LEMMA SettledLemma ==
  ASSUME DisjointMints
  PROVE  LedgerInv /\ OwnRequests => SettledFact
<1> SUFFICES ASSUME LedgerInv, OwnRequests, NEW a \in Agents,
                    NEW c \in Clients, pc[c] = "marked", req[c].agent_id = a
             PROVE  Settled[a] = req[c].already_minted
  BY DEF Settled, SettledFact
<1>1. \A d \in Marking(a) : d = c
  BY MintsForAssumption DEF Marking, OwnRequests, MintSteps, DisjointMints
<1>2. c \in Marking(a)
  BY DEF Marking
<1>3. (CHOOSE d \in Marking(a) : TRUE) = c
  BY <1>1, <1>2
<1>. QED
  BY <1>2, <1>3 DEF Settled

\* One step of the ledgers is a step of the abstract ledger or none.
LEMMA RefinementStep ==
  ASSUME DisjointMints
  PROVE  /\ LedgerInv /\ LedgerInv' /\ OwnRequests /\ OwnRequests'
         /\ SettledFact /\ SettledFact' /\ [Next]_vars
         => [Issuance!Next]_<<contributions, Settled, balance>>
<1> SUFFICES ASSUME LedgerInv, LedgerInv', OwnRequests, OwnRequests',
                    SettledFact, SettledFact', [Next]_vars
             PROVE  [Issuance!Next]_<<contributions, Settled, balance>>
  OBVIOUS
<1> TypeOK
  BY DEF LedgerInv
<1> USE ClientsAssumption DEF TypeOK, Goto, Return, MintSteps
<1>0. /\ Settled = [a \in Agents |-> Settled[a]]
      /\ Settled' = [a \in Agents |-> Settled'[a]]
  BY DEF Settled
<1> DEFINE Same == \A a \in Agents : Settled'[a] = Settled[a]
<1>same. Same => Settled' = Settled
  BY <1>0
\* A step in which no mint enters or leaves "marked" and no watermark moves.
<1>calm. ASSUME \A d \in Clients : pc[d] = "marked" <=> pc'[d] = "marked",
                \A d \in Clients : pc[d] = "marked" => req'[d] = req[d],
                minted' = minted
         PROVE  Settled' = Settled
  <2> SUFFICES ASSUME NEW a \in Agents PROVE Settled'[a] = Settled[a]
    BY <1>same
  <2>1. Marking(a)' = Marking(a)
    BY <1>calm DEF Marking
  <2>2. CASE Marking(a) = {}
    BY <1>calm, <2>1, <2>2 DEF SettledFact
  <2>3. CASE Marking(a) # {}
    <3>1. PICK d \in Clients : pc[d] = "marked" /\ req[d].agent_id = a
      BY <2>3 DEF Marking
    <3>. QED
      BY <1>calm, <3>1 DEF SettledFact
  <2>. QED
    BY <2>2, <2>3
<1> HIDE DEF Same
<1>1. ASSUME NEW c \in Clients, NEW a \in Agents, NEW n \in Amounts, NEW h \in Receipts \cup {None},
             GpuContribution(c, a, n, h)
      PROVE  Issuance!Next
  <2>1. Settled' = Settled
    BY <1>1, <1>calm DEF GpuContribution, accumulated
  <2>2. n \in 1..MaxTicks
    BY <1>1, AmountsAssumption DEF GpuContribution, accumulated
  <2>3. Issuance!Earn(a, n)
    BY <1>1, <2>1 DEF GpuContribution, accumulated, Issuance!Earn
  <2>. QED
    BY <2>2, <2>3 DEF Issuance!Next
<1>2. ASSUME NEW c \in Clients, StoreReceipt(c)
      PROVE  UNCHANGED <<contributions, Settled, balance>>
  BY <1>2, <1>calm DEF StoreReceipt
<1>3. ASSUME NEW c \in Clients, NEW a \in Agents, NEW j \in Jobs, ReadLedger(c, a, j)
      PROVE  UNCHANGED <<contributions, Settled, balance>>
  BY <1>3, <1>calm DEF ReadLedger
<1>4. ASSUME NEW c \in Clients, CheckGuards(c)
      PROVE  UNCHANGED <<contributions, Settled, balance>>
  BY <1>4, <1>calm DEF CheckGuards
<1>5. ASSUME NEW c \in Clients, RepeatLimited(c)
      PROVE  UNCHANGED <<contributions, Settled, balance>>
  BY <1>5, <1>calm DEF RepeatLimited
<1>6. ASSUME NEW c \in Clients, UpdateEpoch(c)
      PROVE  UNCHANGED <<contributions, Settled, balance>>
  BY <1>6, <1>calm DEF UpdateEpoch
<1>7. ASSUME NEW c \in Clients, AdvanceWatermark(c)
      PROVE  UNCHANGED <<contributions, Settled, balance>>
  <2> PICK a \in Agents : a = req[c].agent_id
    BY <1>7 DEF AdvanceWatermark, new_watermark, Minting
  <2>1. req[c] \in Minting /\ pc[c] = "tallied" /\ req' = req
        /\ pc' = [pc EXCEPT ![c] = "marked"]
    BY <1>7 DEF AdvanceWatermark, new_watermark, Minting
  <2>2. Settled'[a] = req[c].already_minted
    BY <2>1 DEF SettledFact
  <2>3. Marking(a) = {}
    BY <2>1, MintsForAssumption DEF Marking, OwnRequests, DisjointMints
  <2>4. Settled[a] = req[c].already_minted
    BY <2>1, <2>3 DEF SettledFact, OwnRequests
  <2>5. ASSUME NEW b \in Agents, b # a
        PROVE  Settled'[b] = Settled[b]
    <3>1. Marking(b)' = Marking(b) /\ minted'[b] = minted[b]
      BY <1>7, <2>1, <2>5 DEF Marking, AdvanceWatermark
    <3>2. CASE Marking(b) = {}
      BY <3>1, <3>2 DEF SettledFact
    <3>3. CASE Marking(b) # {}
      <4>1. PICK d \in Clients : pc[d] = "marked" /\ req[d].agent_id = b
        BY <3>3 DEF Marking
      <4>. QED
        BY <2>1, <4>1 DEF SettledFact
    <3>. QED
      BY <3>2, <3>3
  <2>6. Same
    BY <2>2, <2>4, <2>5 DEF Same
  <2>. QED
    BY <1>7, <1>same, <2>6 DEF AdvanceWatermark, new_watermark
<1>8. ASSUME NEW c \in Clients, CreditBalance(c)
      PROVE  Issuance!Next
  <2> PICK a \in Agents, upTo \in Nat : a = req[c].agent_id /\ upTo = req[c].accumulated
    BY <1>8 DEF CreditBalance, credited_balance, Minting
  <2>1. /\ req[c] \in Minting /\ pc[c] = "marked" /\ minted' = minted
        /\ pc' = [pc EXCEPT ![c] = "credited"] /\ contributions' = contributions
        /\ \A d \in Clients : d # c => req'[d] = req[d]
    BY <1>8 DEF CreditBalance, credited_balance, Minting
  <2>2. /\ Settled[a] = req[c].already_minted
        /\ minted[a] = upTo
        /\ upTo - req[c].already_minted >= TicksPerSynapse
        /\ upTo \in 1..contributions[a]
    <3>1. Settled[a] = req[c].already_minted
      BY <2>1 DEF SettledFact
    <3>2. minted[a] = upTo /\ upTo - req[c].already_minted >= TicksPerSynapse
      BY <2>1 DEF OwnRequests, unminted
    <3>3. upTo <= contributions[a]
      BY <2>1 DEF LedgerInv, RequestsBacked
    <3>. QED
      BY <2>1, <3>1, <3>2, <3>3, RateAssumption DEF Minting
  <2>3. ASSUME NEW b \in Agents
        PROVE  Settled'[b] = IF b = a THEN upTo ELSE Settled[b]
    <3>1. CASE b = a
      <4>1. Marking(a)' = {}
        BY <2>1, MintsForAssumption DEF Marking, OwnRequests, DisjointMints
      <4>. QED
        BY <2>1, <2>2, <3>1, <4>1 DEF SettledFact
    <3>2. CASE b # a
      <4>0. req'[c].agent_id = a
        BY <1>8, <2>1 DEF CreditBalance, credited_balance, Minting
      <4>1. Marking(b)' = Marking(b)
        BY <2>1, <3>2, <4>0 DEF Marking
      <4>2. CASE Marking(b) = {}
        BY <2>1, <3>2, <4>1, <4>2 DEF SettledFact
      <4>3. CASE Marking(b) # {}
        <5>1. PICK d \in Clients : pc[d] = "marked" /\ req[d].agent_id = b
          BY <4>3 DEF Marking
        <5>. QED
          BY <2>1, <3>2, <5>1 DEF SettledFact
      <4>. QED
        BY <4>2, <4>3
    <3>. QED
      BY <3>1, <3>2
  <2>4. Settled' = [Settled EXCEPT ![a] = upTo]
    BY <1>0, <2>1, <2>3
  <2>5. balance' = [balance EXCEPT ![a] = @ + (upTo - Settled[a]) \div TicksPerSynapse]
    BY <1>8, <2>1, <2>2 DEF CreditBalance, credited_balance, minted_synapse, unminted
  <2>6. Issuance!Issue(a, upTo)
    BY <2>1, <2>2, <2>4, <2>5 DEF Issuance!Issue
  <2>. QED
    BY <2>1, <2>2, <2>6 DEF Issuance!Next
<1>9. ASSUME NEW c \in Clients, RegisterAgent(c)
      PROVE  UNCHANGED <<contributions, Settled, balance>>
  BY <1>9, <1>calm DEF RegisterAgent, registered, mirrored
<1>10. ASSUME NEW c \in Clients, NEW a \in Agents, TocDecay(c, a)
       PROVE  UNCHANGED <<contributions, Settled, balance>>
  BY <1>10, <1>calm DEF TocDecay
<1>11. ASSUME UNCHANGED vars
       PROVE  UNCHANGED <<contributions, Settled, balance>>
  BY <1>11, <1>calm DEF vars
<1>. QED
  BY <1>1, <1>2, <1>3, <1>4, <1>5, <1>6, <1>7, <1>8, <1>9, <1>10, <1>11
     DEF Next, TocMint, RefuseMint

\* The abstract ledger never issues more than it settles.
LEMMA IssuedStep ==
  ASSUME contributions \in [Agents -> Nat], balance \in [Agents -> Nat],
         Settled \in [Agents -> Nat],
         \A a \in Agents : balance[a] * TicksPerSynapse <= Settled[a],
         [Issuance!Next]_<<contributions, Settled, balance>>
  PROVE  (\A a \in Agents : balance[a] * TicksPerSynapse <= Settled[a])'
<1>1. ASSUME NEW a \in Agents, NEW n \in 1..MaxTicks, Issuance!Earn(a, n)
      PROVE  (\A b \in Agents : balance[b] * TicksPerSynapse <= Settled[b])'
  BY <1>1 DEF Issuance!Earn
<1>2. ASSUME NEW a \in Agents, NEW upTo \in 1..contributions[a], Issuance!Issue(a, upTo)
      PROVE  (\A b \in Agents : balance[b] * TicksPerSynapse <= Settled[b])'
  <2> DEFINE delta == upTo - Settled[a]
             paid == delta \div TicksPerSynapse
  <2>1. delta \in Nat
    BY <1>2, RateAssumption DEF Issuance!Issue
  <2>2. paid \in Nat /\ paid * TicksPerSynapse <= delta
    BY <2>1, FloorLemma
  <2>3. (balance[a] + paid) * TicksPerSynapse
          = balance[a] * TicksPerSynapse + paid * TicksPerSynapse
    BY <2>2, DistributeLemma
  <2>4. /\ balance[a] * TicksPerSynapse \in Nat
        /\ paid * TicksPerSynapse \in Nat
    BY <2>2, RateAssumption
  <2> HIDE DEF paid
  <2>5. (balance[a] + paid) * TicksPerSynapse <= upTo
    BY <2>1, <2>2, <2>3, <2>4
  <2>6. balance' = [balance EXCEPT ![a] = balance[a] + paid]
    BY <1>2 DEF Issuance!Issue, paid
  <2>7. Settled' = [Settled EXCEPT ![a] = upTo]
    BY <1>2 DEF Issuance!Issue
  <2>. QED
    BY <2>5, <2>6, <2>7
<1>3. CASE UNCHANGED <<contributions, Settled, balance>>
  BY <1>3
<1>. QED
  BY <1>1, <1>2, <1>3 DEF Issuance!Next

LEMMA OwnMintStep ==
  ASSUME DisjointMints
  PROVE  LedgerInv /\ LedgerInv' /\ SettledFact /\ SettledFact' /\ OwnMintInv /\ [Next]_vars
         => OwnMintInv'
<1> SUFFICES ASSUME LedgerInv, LedgerInv', SettledFact, SettledFact', OwnMintInv, [Next]_vars
             PROVE  OwnMintInv'
  OBVIOUS
<1>1. OwnRequests'
  BY OwnRequestsStep DEF OwnMintInv
<1>2. [Issuance!Next]_<<contributions, Settled, balance>>
  BY <1>1, RefinementStep DEF OwnMintInv
<1>3. /\ contributions \in [Agents -> Nat]
      /\ balance \in [Agents -> Nat]
      /\ Settled \in [Agents -> Nat]
  <2>1. ASSUME NEW a \in Agents PROVE Settled[a] \in Nat
    <3>1. CASE Marking(a) = {}
      BY <3>1 DEF SettledFact, LedgerInv, TypeOK
    <3>2. CASE Marking(a) # {}
      <4>1. PICK c \in Clients : pc[c] = "marked" /\ req[c].agent_id = a
        BY <3>2 DEF Marking
      <4>. QED
        BY <4>1 DEF SettledFact, LedgerInv, TypeOK, MintSteps, Minting
    <3>. QED
      BY <3>1, <3>2
  <2>. QED
    BY <2>1 DEF LedgerInv, TypeOK, Settled
<1>. QED
  BY <1>1, <1>2, <1>3, IssuedStep DEF OwnMintInv

LEMMA OwnMintInit == Init => OwnMintInv
<1> SUFFICES ASSUME Init PROVE OwnMintInv
  OBVIOUS
<1>1. \A a \in Agents : Marking(a) = {}
  BY DEF Init, Marking
<1>2. \A a \in Agents : Settled[a] = 0 /\ balance[a] = 0
  BY <1>1 DEF Settled, Init
<1>. QED
  BY <1>2, RateAssumption DEF OwnMintInv, OwnRequests, Init, MintSteps

LEMMA OwnMintInvariant ==
  ASSUME DisjointMints
  PROVE  Spec => [](OwnMintInv /\ LedgerInv /\ SettledFact)
<1>1. LedgerInv /\ OwnMintInv => SettledFact
  BY SettledLemma DEF OwnMintInv
<1>2. OwnRequests' /\ LedgerInv' => SettledFact'
  BY SettledLemma, PTL
<1>3. LedgerInv /\ LedgerInv' /\ OwnMintInv /\ [Next]_vars => OwnMintInv'
  BY <1>1, <1>2, OwnMintStep, OwnRequestsStep DEF OwnMintInv
<1>. QED
  BY <1>1, <1>3, OwnMintInit, LedgerInvariant, PTL DEF Spec

\* When no two clients mint for the same agent, every Synapse in the ledger was
\* paid for with GPU time, and no tick was paid twice.
THEOREM IssuanceCorrect ==
  ASSUME DisjointMints
  PROVE  Spec => []IssuedWithinContribution
<1>1. OwnMintInv /\ LedgerInv /\ SettledFact => IssuedWithinContribution
  <2> SUFFICES ASSUME OwnMintInv, LedgerInv, SettledFact, NEW a \in Agents
               PROVE  balance[a] * TicksPerSynapse <= minted[a]
    BY DEF IssuedWithinContribution
  <2>1. Settled[a] \in Nat /\ Settled[a] <= minted[a]
    <3>1. CASE Marking(a) = {}
      BY <3>1 DEF SettledFact, LedgerInv, TypeOK
    <3>2. CASE Marking(a) # {}
      <4>1. PICK c \in Clients : pc[c] = "marked" /\ req[c].agent_id = a
        BY <3>2 DEF Marking
      <4>. QED
        BY <4>1 DEF SettledFact, OwnMintInv, OwnRequests, LedgerInv, TypeOK, MintSteps, Minting
    <3>. QED
      BY <3>1, <3>2
  <2>2. balance[a] * TicksPerSynapse \in Nat /\ minted[a] \in Nat
    BY RateAssumption DEF LedgerInv, TypeOK
  <2>. QED
    BY <2>1, <2>2 DEF OwnMintInv
<1>. QED
  BY <1>1, OwnMintInvariant, PTL

\* Under the same condition the six steps of TOC_MINT implement the atomic mint.
THEOREM IssuanceRefinement ==
  ASSUME DisjointMints
  PROVE  Spec => IssuanceSpec
<1>1. Init => Issuance!Init
  BY DEF Init, Issuance!Init, Settled, Marking
<1>2. /\ OwnMintInv /\ LedgerInv /\ SettledFact
      /\ (OwnMintInv /\ LedgerInv /\ SettledFact)'
      /\ [Next]_vars
      => [Issuance!Next]_<<contributions, Settled, balance>>
  BY RefinementStep DEF OwnMintInv
<1>. QED
  BY <1>1, <1>2, OwnMintInvariant, PTL DEF Spec, IssuanceSpec, Issuance!Spec

-----------------------------------------------------------------------------
(* The job meter.                                                           *)

\* A clamped sample bills at most the time it covers.
LEMMA ClampLemma ==
  ASSUME NEW d \in Nat, NEW u \in Int
  PROVE  d * Meter!clamp(u) \in Nat /\ d * Meter!clamp(u) <= d * Meter!Full
<1>1. Meter!clamp(u) \in 0..100
  BY DEF Meter!clamp, Meter!Full
<1>2. \A k \in 0..100 : d * k \in Nat /\ d * k <= d * 100
  BY Z3
<1>. QED
  BY <1>1, <1>2 DEF Meter!Full

\* What Meter!SampledInv says of one session.
SampledSession(s, t) ==
  /\ s.started_at <= s.last_sample_at
  /\ s.last_sample_at <= t
  /\ s.active => s.gpu_seconds_elapsed <= (s.last_sample_at - s.started_at) * Meter!Full
  /\ ~s.active => s.gpu_seconds_elapsed <= (t - s.started_at) * Meter!Full

\* A sample keeps the bill of a running session within the time it covers.
LEMMA SampledLemma ==
  ASSUME NEW x \in Meter!MeterSession, NEW u \in Int, NEW t \in Nat, t = now,
         SampledSession(x, t), x.active
  PROVE  /\ Meter!sampled(x, u) \in Meter!MeterSession
         /\ Meter!sampled(x, u).job_id = x.job_id
         /\ Meter!sampled(x, u).active
         /\ SampledSession(Meter!sampled(x, u), t)
<1> DEFINE d == t - x.last_sample_at
           billed == d * Meter!clamp(u)
<1>1. /\ x.started_at \in Nat /\ x.last_sample_at \in Nat /\ x.gpu_seconds_elapsed \in Nat
  BY DEF Meter!MeterSession
<1>2. d \in Nat
  BY <1>1 DEF SampledSession
<1>3. billed \in Nat /\ billed <= d * Meter!Full
  BY <1>2, ClampLemma
<1> HIDE DEF billed
<1> PICK bill \in Nat : bill = x.gpu_seconds_elapsed + billed
  BY <1>1, <1>3
<1>4. Meter!sampled(x, u) = [x EXCEPT !.gpu_seconds_elapsed = bill, !.last_sample_at = t]
  BY DEF Meter!sampled, billed
<1>5. bill <= (t - x.started_at) * Meter!Full
  BY <1>1, <1>2, <1>3 DEF SampledSession, Meter!Full
<1>6. /\ Meter!sampled(x, u) \in Meter!MeterSession
      /\ Meter!sampled(x, u).job_id = x.job_id
      /\ Meter!sampled(x, u).started_at = x.started_at
      /\ Meter!sampled(x, u).last_sample_at = t
      /\ Meter!sampled(x, u).gpu_seconds_elapsed = bill
      /\ Meter!sampled(x, u).active = x.active
  BY <1>4 DEF Meter!MeterSession
<1>. QED
  BY <1>1, <1>2, <1>5, <1>6 DEF SampledSession

\* Meter!Stopping a session bills no more than the time since it started.
LEMMA StoppedLemma ==
  ASSUME NEW x \in Meter!MeterSession, NEW t \in Nat, t = now, SampledSession(x, t), x.active
  PROVE  /\ Meter!stopped(x) \in Meter!MeterSession
         /\ Meter!stopped(x).job_id = x.job_id
         /\ ~Meter!stopped(x).active
         /\ SampledSession(Meter!stopped(x), t)
<1>1. /\ x.started_at \in Nat /\ x.last_sample_at \in Nat /\ x.gpu_seconds_elapsed \in Nat
  BY DEF Meter!MeterSession
<1> PICK bill \in Nat : bill = x.gpu_seconds_elapsed + (t - x.last_sample_at) * Meter!Full
  BY <1>1 DEF SampledSession, Meter!Full
<1>2. Meter!stopped(x) = [x EXCEPT !.active = FALSE, !.gpu_seconds_elapsed = bill]
  BY DEF Meter!stopped
<1>3. bill <= (t - x.started_at) * Meter!Full
  BY <1>1 DEF SampledSession, Meter!Full
<1>4. /\ Meter!stopped(x) \in Meter!MeterSession
      /\ Meter!stopped(x).job_id = x.job_id
      /\ Meter!stopped(x).started_at = x.started_at
      /\ Meter!stopped(x).last_sample_at = x.last_sample_at
      /\ Meter!stopped(x).gpu_seconds_elapsed = bill
      /\ Meter!stopped(x).active = FALSE
  BY <1>2 DEF Meter!MeterSession
<1>. QED
  BY <1>1, <1>3, <1>4 DEF SampledSession

LEMMA MeterInitInv == Meter!Init => Meter!MeterInv
BY UcxAssumption
   DEF Meter!Setting, Meter!Init, Meter!MeterInv, Meter!TypeOK, Meter!SampledInv, Meter!OneStop, Meter!Live, Meter!Stopping

\* Each action preserves the invariant and leaves stopped sessions alone.
LEMMA MeterStepInv ==
  Meter!MeterInv /\ [Meter!Next]_(Meter!vars)
    => Meter!MeterInv' /\ (\A s \in Meter!Live : ~session[s].active => session'[s] = session[s])
<1> SUFFICES ASSUME Meter!MeterInv, [Meter!Next]_(Meter!vars)
             PROVE  /\ Meter!TypeOK' /\ Meter!SampledInv' /\ Meter!OneStop'
                    /\ \A s \in Meter!Live : ~session[s].active => session'[s] = session[s]
  BY DEF Meter!MeterInv
<1> DEFINE Kept == \A s \in Meter!Live : ~session[s].active => session'[s] = session[s]
           Goal == Meter!TypeOK' /\ Meter!SampledInv' /\ Meter!OneStop' /\ Kept
<1> USE UcxAssumption DEF Meter!Setting, Meter!MeterInv, Meter!TypeOK, Meter!Live, Meter!MeterSession
<1>1. CASE Meter!Tick
  <2>1. Meter!SampledInv'
    BY <1>1 DEF Meter!Tick, Meter!SampledInv, Meter!Full
  <2>. QED
    BY <1>1, <2>1 DEF Meter!Tick, Meter!OneStop, Meter!Stopping
<1>2. ASSUME NEW j \in MeterJobs, Meter!StartSession(j)
      PROVE  Goal
  <2> DEFINE n == started + 1
  <2>1. /\ n \in Nat \ {0} /\ started' = n /\ n \notin Meter!Live /\ Meter!Live' = Meter!Live \cup {n}
        /\ n \in 0..MaxSessions
    BY <1>2 DEF Meter!StartSession
  <2>2. session' \in [Meter!Live' -> Meter!MeterSession]
    BY <1>2, <2>1 DEF Meter!StartSession
  <2>3. /\ \A s \in Meter!Live : session'[s] = session[s]
        /\ session'[n] = [job_id |-> j, started_at |-> now, last_sample_at |-> now,
                          gpu_seconds_elapsed |-> 0, active |-> TRUE]
    BY <1>2, <2>1 DEF Meter!StartSession
  <2>4. Meter!TypeOK'
    BY <1>2, <2>1, <2>2 DEF Meter!StartSession
  <2>5. Meter!SampledInv'
    BY <1>2, <2>1, <2>3 DEF Meter!StartSession, Meter!SampledInv, Meter!Full
  <2>6. Meter!OneStop'
    <3>1. /\ stage' = stage /\ entry' = entry
          /\ sessions' = [sessions EXCEPT ![j] = n]
      BY <1>2 DEF Meter!StartSession
    <3>2. \A c \in Callers : /\ Meter!Stopping(c)' <=> Meter!Stopping(c)
                             /\ Meter!Stopping(c) => entry[c] \in Meter!Live /\ entry[c] # n
      BY <2>1, <3>1 DEF Meter!Stopping
    <3>3. ASSUME NEW i \in MeterJobs, sessions'[i] # None
          PROVE  /\ session'[sessions'[i]].job_id = i
                 /\ session'[sessions'[i]].active
                 /\ \A c \in Callers : Meter!Stopping(c)' => entry'[c] # sessions'[i]
      <4>1. CASE i = j
        BY <2>3, <3>1, <3>2, <4>1
      <4>2. CASE i # j
        <5>1. sessions'[i] = sessions[i] /\ sessions[i] \in Meter!Live
          BY <3>1, <3>3, <4>2
        <5>. QED
          BY <2>3, <3>1, <3>2, <3>3, <5>1 DEF Meter!OneStop
      <4>. QED
        BY <4>1, <4>2
    <3>4. \A c, d \in Callers :
            Meter!Stopping(c)' /\ Meter!Stopping(d)' /\ entry'[c] = entry'[d] => c = d
      BY <3>1, <3>2 DEF Meter!OneStop
    <3>5. \A c \in Callers : Meter!Stopping(c)' => session'[entry'[c]].active
      BY <2>3, <3>1, <3>2 DEF Meter!OneStop
    <3>. QED
      BY <3>3, <3>4, <3>5 DEF Meter!OneStop
  <2>. QED
    BY <2>3, <2>4, <2>5, <2>6
<1>3. ASSUME NEW c \in Callers, NEW j \in MeterJobs, Meter!UnknownSession(c, j)
      PROVE  Goal
  BY <1>3 DEF Meter!UnknownSession, Meter!vars, Meter!SampledInv, Meter!OneStop, Meter!Stopping
<1>4. ASSUME NEW c \in Callers, NEW j \in MeterJobs, Meter!BeginSample(c, j)
      PROVE  Goal
  <2>1. /\ sessions[j] \in Meter!Live
        /\ stage' = [stage EXCEPT ![c] = "sampling"] /\ entry' = [entry EXCEPT ![c] = sessions[j]]
        /\ UNCHANGED <<now, session, started, sessions>>
    BY <1>4 DEF Meter!BeginSample, Meter!Fetch
  <2>2. Meter!TypeOK'
    BY <2>1
  <2>3. Meter!SampledInv' /\ Kept
    BY <2>1 DEF Meter!SampledInv
  <2>4. \A e \in Callers : Meter!Stopping(e)' => Meter!Stopping(e) /\ entry'[e] = entry[e]
    BY <2>1 DEF Meter!Stopping
  <2>5. Meter!OneStop'
    BY <2>1, <2>4 DEF Meter!OneStop
  <2>. QED
    BY <2>2, <2>3, <2>5
<1>5. ASSUME NEW c \in Callers, NEW j \in MeterJobs, Meter!BeginStop(c, j)
      PROVE  Goal
  <2>1. Meter!TypeOK' /\ Meter!SampledInv' /\ Kept
    BY <1>5 DEF Meter!BeginStop, Meter!Fetch, Meter!unregistered, Meter!SampledInv
  <2>2. \A k \in MeterJobs : sessions'[k] # None => k # j /\ sessions[k] # sessions[j]
    BY <1>5 DEF Meter!BeginStop, Meter!Fetch, Meter!unregistered, Meter!OneStop
  <2>3. Meter!OneStop'
    BY <1>5, <2>2 DEF Meter!BeginStop, Meter!Fetch, Meter!unregistered, Meter!OneStop, Meter!Stopping
  <2>. QED
    BY <2>1, <2>3
<1>6. ASSUME NEW c \in Callers, NEW utilization \in Utilizations, Meter!RecordSample(c, utilization)
      PROVE  Goal
  <2> PICK s \in Meter!Live : s = entry[c]
    BY <1>6 DEF Meter!RecordSample, Meter!Return
  <2>1. /\ session[s] \in Meter!MeterSession /\ session[s].active 
        /\ session' = [session EXCEPT ![s] = Meter!sampled(session[s], utilization)]
        /\ UNCHANGED <<now, started, sessions>>
    BY <1>6 DEF Meter!RecordSample, Meter!Return, Meter!counts
  <2>2. /\ SampledSession(session[s], now)
        /\ now \in Nat
    BY DEF Meter!SampledInv, SampledSession
  <2>3. /\ session'[s] \in Meter!MeterSession
        /\ session'[s].job_id = session[s].job_id
        /\ session'[s].active
        /\ SampledSession(session'[s], now)
    BY <2>1, <2>2, SampledLemma, UcxAssumption
  <2>4. \A t \in Meter!Live : t # s => session'[t] = session[t]
    BY <2>1
  <2>5. Meter!TypeOK'
    <3>1. session' \in [Meter!Live -> Meter!MeterSession]
      BY <2>1, <2>3, <2>4
    <3>. QED
      BY <1>6, <2>1, <3>1 DEF Meter!RecordSample, Meter!Return
  <2>6. Meter!SampledInv'
    <3>1. ASSUME NEW t \in Meter!Live PROVE SampledSession(session'[t], now)
      BY <2>3, <2>4 DEF Meter!SampledInv, SampledSession
    <3>. QED
      BY <2>1, <3>1 DEF Meter!SampledInv, SampledSession
  <2>7. Meter!OneStop'
    <3>1. \A e \in Callers : Meter!Stopping(e)' => Meter!Stopping(e) /\ entry'[e] = entry[e]
                                             /\ entry[e] \in Meter!Live
      BY <1>6 DEF Meter!RecordSample, Meter!Return, Meter!Stopping
    <3>2. \A t \in Meter!Live : session'[t].job_id = session[t].job_id
                           /\ (session[t].active => session'[t].active)
      BY <2>1, <2>3, <2>4
    <3>3. ASSUME NEW j \in MeterJobs, sessions[j] # None
          PROVE  /\ session'[sessions[j]].job_id = j /\ session'[sessions[j]].active
                 /\ \A e \in Callers : Meter!Stopping(e)' => entry'[e] # sessions[j]
      <4>1. sessions[j] \in Meter!Live
        BY <3>3
      <4>2. /\ session[sessions[j]].job_id = j /\ session[sessions[j]].active
            /\ \A e \in Callers : Meter!Stopping(e) => entry[e] # sessions[j]
        BY <3>3 DEF Meter!OneStop
      <4>3. session'[sessions[j]].job_id = j /\ session'[sessions[j]].active
        BY <3>2, <4>1, <4>2
      <4>. QED
        BY <3>1, <4>2, <4>3
    <3>4. ASSUME NEW e \in Callers, NEW f \in Callers,
                 Meter!Stopping(e)', Meter!Stopping(f)', entry'[e] = entry'[f]
          PROVE  e = f
      <4>1. Meter!Stopping(e) /\ Meter!Stopping(f) /\ entry[e] = entry[f]
        BY <3>1, <3>4
      <4>. QED
        BY <4>1 DEF Meter!OneStop
    <3>5. ASSUME NEW e \in Callers, Meter!Stopping(e)'
          PROVE  session'[entry'[e]].active
      BY <3>1, <3>2, <3>5 DEF Meter!OneStop
    <3>. QED
      BY <2>1, <3>3, <3>4, <3>5 DEF Meter!OneStop
  <2>. QED
    BY <2>1, <2>4, <2>5, <2>6, <2>7
<1>7. ASSUME NEW c \in Callers, Meter!SampleStopped(c)
      PROVE  Goal
  <2>1. /\ stage' = [stage EXCEPT ![c] = "idle"] /\ entry' = [entry EXCEPT ![c] = None]
        /\ UNCHANGED <<now, session, started, sessions>>
    BY <1>7 DEF Meter!SampleStopped, Meter!Return
  <2>2. Meter!TypeOK'
    BY <2>1
  <2>3. Meter!SampledInv' /\ Kept
    BY <2>1 DEF Meter!SampledInv
  <2>4. \A e \in Callers : Meter!Stopping(e)' => Meter!Stopping(e) /\ entry'[e] = entry[e]
    BY <2>1 DEF Meter!Stopping
  <2>5. Meter!OneStop'
    BY <2>1, <2>4 DEF Meter!OneStop
  <2>. QED
    BY <2>2, <2>3, <2>5
<1>8. ASSUME NEW c \in Callers, Meter!StopSession(c)
      PROVE  Goal
  <2> PICK s \in Meter!Live : s = entry[c]
    BY <1>8 DEF Meter!StopSession, Meter!Return
  <2>1. /\ session[s] \in Meter!MeterSession /\ session[s].active /\ Meter!Stopping(c)
        /\ session' = [session EXCEPT ![s] = Meter!stopped(session[s])]
        /\ UNCHANGED <<now, started, sessions>>
    BY <1>8 DEF Meter!StopSession, Meter!Return, Meter!OneStop, Meter!Stopping
  <2>2. /\ SampledSession(session[s], now)
        /\ now \in Nat
    BY DEF Meter!SampledInv, SampledSession
  <2>3. /\ session'[s] \in Meter!MeterSession
        /\ session'[s].job_id = session[s].job_id
        /\ ~session'[s].active
        /\ SampledSession(session'[s], now)
    BY <2>1, <2>2, StoppedLemma
  <2>4. \A t \in Meter!Live : t # s => session'[t] = session[t]
    BY <2>1
  <2>5. Meter!TypeOK'
    <3>1. session' \in [Meter!Live -> Meter!MeterSession]
      BY <2>1, <2>3, <2>4
    <3>2. /\ stage' = [stage EXCEPT ![c] = "idle"]
          /\ entry' = [entry EXCEPT ![c] = None]
      BY <1>8 DEF Meter!StopSession, Meter!Return
    <3>3. /\ stage' \in [Callers -> {"idle", "sampling", "stopping"}]
          /\ entry' \in [Callers -> Meter!Live \cup {None}]
          /\ \A d \in Callers : stage'[d] # "idle" => entry'[d] \in Meter!Live
      BY <3>2
    <3>. QED
      BY <2>1, <3>1, <3>3
  <2>6. Meter!SampledInv'
    <3>1. ASSUME NEW t \in Meter!Live PROVE SampledSession(session'[t], now)
      BY <2>3, <2>4 DEF Meter!SampledInv, SampledSession
    <3>. QED
      BY <2>1, <3>1 DEF Meter!SampledInv, SampledSession
  <2>7. Meter!OneStop'
    <3>1. \A e \in Callers : Meter!Stopping(e)' => Meter!Stopping(e) /\ e # c /\ entry'[e] = entry[e]
                                             /\ entry[e] \in Meter!Live
      BY <1>8 DEF Meter!StopSession, Meter!Return, Meter!Stopping
    <3>2. \A e \in Callers : Meter!Stopping(e)' => entry[e] # s
      BY <2>1, <3>1 DEF Meter!OneStop
    <3>3. ASSUME NEW j \in MeterJobs, sessions[j] # None
          PROVE  /\ session'[sessions[j]].job_id = j /\ session'[sessions[j]].active
                 /\ \A e \in Callers : Meter!Stopping(e)' => entry'[e] # sessions[j]
      <4>1. sessions[j] \in Meter!Live /\ sessions[j] # s
        BY <2>1, <3>3 DEF Meter!OneStop
      <4>2. /\ session[sessions[j]].job_id = j /\ session[sessions[j]].active
            /\ \A e \in Callers : Meter!Stopping(e) => entry[e] # sessions[j]
        BY <3>3 DEF Meter!OneStop
      <4>3. session'[sessions[j]] = session[sessions[j]]
        BY <2>4, <4>1
      <4>4. \A e \in Callers : Meter!Stopping(e)' => entry'[e] # sessions[j]
        BY <3>1, <4>2
      <4>. QED
        BY <4>2, <4>3, <4>4
    <3>4. ASSUME NEW e \in Callers, NEW f \in Callers,
                 Meter!Stopping(e)', Meter!Stopping(f)', entry'[e] = entry'[f]
          PROVE  e = f
      <4>1. Meter!Stopping(e) /\ Meter!Stopping(f) /\ entry[e] = entry[f]
        BY <3>1, <3>4
      <4>. QED
        BY <4>1 DEF Meter!OneStop
    <3>5. ASSUME NEW e \in Callers, Meter!Stopping(e)'
          PROVE  session'[entry'[e]].active
      <4>1. /\ Meter!Stopping(e) /\ entry'[e] = entry[e] /\ entry[e] \in Meter!Live /\ entry[e] # s
        BY <3>1, <3>2, <3>5
      <4>2. session[entry[e]].active
        BY <4>1 DEF Meter!OneStop
      <4>. QED
        BY <2>4, <4>1, <4>2
    <3>. QED
      BY <2>1, <3>3, <3>4, <3>5 DEF Meter!OneStop
  <2>. QED
    BY <2>1, <2>4, <2>5, <2>6, <2>7
<1>9. CASE UNCHANGED Meter!vars
  BY <1>9 DEF Meter!vars, Meter!SampledInv, Meter!OneStop, Meter!Stopping
<1>. QED
  BY <1>1, <1>2, <1>3, <1>4, <1>5, <1>6, <1>7, <1>8, <1>9 DEF Meter!Next

LEMMA MeterInvariant == Meter!Spec => []Meter!MeterInv
BY MeterInitInv, MeterStepInv, PTL DEF Meter!Spec

\* Every reachable state of the meter is well typed.
THEOREM MeterTypes == Meter!Spec => []Meter!TypeOK
BY MeterInvariant, PTL DEF Meter!MeterInv

\* A session is never billed more GPU time than has passed since it started.
THEOREM BillingCorrect == Meter!Spec => []BilledWithinWallTime
<1>1. Meter!MeterInv => BilledWithinWallTime
  <2> SUFFICES ASSUME Meter!MeterInv, NEW s \in Meter!Live
               PROVE  /\ session[s].gpu_seconds_elapsed <= (now - session[s].started_at) * Meter!Full
                      /\ session[s].last_sample_at <= now
    BY DEF BilledWithinWallTime, Meter!BilledWithinWallTime
  <2>1. /\ session[s].started_at \in Nat /\ session[s].last_sample_at \in Nat
        /\ session[s].gpu_seconds_elapsed \in Nat /\ now \in Nat
        /\ session[s].active \in BOOLEAN
    BY DEF Meter!MeterInv, Meter!TypeOK, Meter!MeterSession
  <2>. QED
    BY <2>1 DEF Meter!MeterInv, Meter!SampledInv, Meter!Full
<1>. QED
  BY <1>1, MeterInvariant, PTL

\* A registered session runs, and a session has one stopper at most.
THEOREM OneStopCorrect == Meter!Spec => []Meter!OneStop
BY MeterInvariant, PTL DEF Meter!MeterInv

\* The final reading of a session never changes.
THEOREM ReadingIsFinal == Meter!Spec => ReadingFinal
<1>1. Meter!MeterInv /\ [Meter!Next]_(Meter!vars)
        => [\A s \in Meter!Live : ~session[s].active => session'[s] = session[s]]_(Meter!vars)
  BY MeterStepInv
<1>. QED
  BY <1>1, MeterInvariant, PTL DEF Meter!Spec, ReadingFinal, Meter!ReadingFinal

-----------------------------------------------------------------------------
(* The resource meter.                                                      *)

\* What the floor of a division leaves is no more than there was.
LEMMA WholeParts ==
  ASSUME NEW n \in Nat, NEW k \in Nat \ {0}
  PROVE  n \div k \in Nat /\ (n \div k) * k <= n
BY Z3

LEMMA NextPart ==
  ASSUME NEW n \in Nat, NEW k \in Nat \ {0}
  PROVE  n \div k \in Nat /\ n < (n \div k + 1) * k
BY Z3

LEMMA OneMore ==
  ASSUME NEW m \in Int, NEW n \in Int, NEW k \in Int
  PROVE  (m + n) * k = m * k + n * k
BY Z3

LEMMA NoMore ==
  ASSUME NEW m \in Int, NEW n \in Int, NEW k \in Nat, m <= n
  PROVE  m * k <= n * k
BY Z3

LEMMA NinetyNine ==
  ASSUME NEW n \in Nat
  PROVE  (n * 99) \div 100 \in Nat /\ (n * 99) \div 100 <= n
BY Z3

ResourceInv ==
  /\ gpu_seconds \in [UcxAgents -> Nat] /\ pending_synapse \in [UcxAgents -> Nat]
  /\ contribution_count \in [UcxAgents -> Nat] /\ drained \in [UcxAgents -> Nat]
  /\ Resource!TicksConserved /\ Resource!PendingBacked

LEMMA ResourceInitInv == Resource!Init => ResourceInv
<1> SUFFICES ASSUME Resource!Init PROVE ResourceInv
  OBVIOUS
<1>1. 0 * Contribution = 0 /\ 0 * TicksPerSynapse = 0
  BY UcxAssumption, RateAssumption
<1> QED
  BY <1>1 DEF Resource!Init, ResourceInv, Resource!TicksConserved, Resource!PendingBacked

LEMMA ResourceStepInv == ResourceInv /\ [Resource!Next]_(Resource!vars) => ResourceInv'
<1> SUFFICES ASSUME ResourceInv, [Resource!Next]_(Resource!vars) PROVE ResourceInv'
  OBVIOUS
<1>0. Contribution \in Nat /\ TicksPerSynapse \in Nat \ {0}
  BY UcxAssumption, RateAssumption
<1>1. CASE UNCHANGED Resource!vars
  BY <1>1 DEF Resource!vars, ResourceInv, Resource!TicksConserved, Resource!PendingBacked
<1>2. ASSUME NEW a \in UcxAgents, Resource!RecordContribution(a)
      PROVE  ResourceInv'
  <2>1. /\ gpu_seconds' = [gpu_seconds EXCEPT ![a] = @ + Contribution]
        /\ contribution_count' = [contribution_count EXCEPT ![a] = @ + 1]
        /\ UNCHANGED <<pending_synapse, drained>>
    BY <1>2 DEF Resource!RecordContribution
  <2>2. (contribution_count[a] + 1) * Contribution
          = contribution_count[a] * Contribution + 1 * Contribution
    BY <1>0, OneMore DEF ResourceInv
  <2>3. PICK n \in Nat : n = contribution_count[a] * Contribution
    BY <1>0 DEF ResourceInv
  <2>4. gpu_seconds'[a] + drained'[a] = contribution_count'[a] * Contribution
    <3>1. gpu_seconds[a] + drained[a] = n
      BY <2>3 DEF ResourceInv, Resource!TicksConserved
    <3>2. contribution_count'[a] * Contribution = n + Contribution
      BY <1>0, <2>1, <2>2, <2>3 DEF ResourceInv
    <3> QED
      BY <1>0, <2>1, <3>1, <3>2 DEF ResourceInv
  <2>5. Resource!TicksConserved'
    BY <2>1, <2>4 DEF ResourceInv, Resource!TicksConserved
  <2> QED
    BY <1>0, <2>1, <2>5 DEF ResourceInv, Resource!PendingBacked
<1>3. ASSUME NEW a \in UcxAgents, Resource!DrainForMint(a)
      PROVE  ResourceInv'
  <2>1. PICK k \in Nat : k = Resource!synapse_estimate(a)
    BY <1>0, WholeParts DEF ResourceInv, Resource!synapse_estimate
  <2>2. k * TicksPerSynapse <= gpu_seconds[a]
    BY <1>0, <2>1, WholeParts DEF ResourceInv, Resource!synapse_estimate
  <2>3. /\ gpu_seconds' = [gpu_seconds EXCEPT ![a] = 0]
        /\ drained' = [drained EXCEPT ![a] = @ + gpu_seconds[a]]
        /\ pending_synapse' = [pending_synapse EXCEPT ![a] = @ + k]
        /\ UNCHANGED contribution_count
    BY <1>3, <2>1 DEF Resource!DrainForMint, Resource!left_after_drain
  <2>4. (pending_synapse[a] + k) * TicksPerSynapse
          = pending_synapse[a] * TicksPerSynapse + k * TicksPerSynapse
    BY <1>0, OneMore DEF ResourceInv
  <2>5. PICK p \in Nat, q \in Nat : p = pending_synapse[a] * TicksPerSynapse
                                    /\ q = k * TicksPerSynapse
    BY <1>0 DEF ResourceInv
  <2>6. pending_synapse'[a] * TicksPerSynapse <= drained'[a]
    BY <2>2, <2>3, <2>4, <2>5 DEF ResourceInv, Resource!PendingBacked
  <2>7. Resource!PendingBacked'
    BY <2>3, <2>6 DEF ResourceInv, Resource!PendingBacked
  <2>8. Resource!TicksConserved'
    BY <2>3 DEF ResourceInv, Resource!TicksConserved
  <2> QED
    BY <2>3, <2>7, <2>8 DEF ResourceInv
<1>4. ASSUME NEW a \in UcxAgents, Resource!ApplyDecay(a)
      PROVE  ResourceInv'
  <2>1. PICK k \in Nat : k = (pending_synapse[a] * 99) \div 100 /\ k <= pending_synapse[a]
    BY NinetyNine DEF ResourceInv
  <2>2. pending_synapse' = [pending_synapse EXCEPT ![a] = k]
        /\ UNCHANGED <<gpu_seconds, contribution_count, drained>>
    BY <1>4, <2>1 DEF Resource!ApplyDecay
  <2>3. k * TicksPerSynapse <= pending_synapse[a] * TicksPerSynapse
    BY <1>0, <2>1, NoMore DEF ResourceInv
  <2>4. k * TicksPerSynapse \in Nat /\ pending_synapse[a] * TicksPerSynapse \in Nat
    BY <1>0 DEF ResourceInv
  <2>5. k * TicksPerSynapse <= drained[a]
    BY <2>3, <2>4 DEF ResourceInv, Resource!PendingBacked
  <2>6. Resource!PendingBacked'
    BY <2>2, <2>5 DEF ResourceInv, Resource!PendingBacked
  <2> QED
    BY <2>2, <2>6 DEF ResourceInv, Resource!TicksConserved
<1> QED
  BY <1>1, <1>2, <1>3, <1>4 DEF Resource!Next, Resource!RefuseDrain

-----------------------------------------------------------------------------
(* The pool.                                                                *)

PoolInv ==
  /\ gpu_balances \in [Dids -> Int] /\ syn_balances \in [Dids -> Int]
  /\ total_gpu_minted \in Int /\ total_eshu_tithe \in Int /\ synapse_minted \in Int
  /\ negative_burns \in Nat
  /\ negative_burns = 0 => \A d \in Dids : syn_balances[d] >= 0
  /\ Pool!SynapsePaidFor /\ Pool!SynapseBacked

LEMMA PoolTotal ==
  ASSUME NEW f \in [Dids -> Int]
  PROVE  Pool!Total(f) = SumFunctionOnSet(f, Dids) /\ SumFunctionOnSet(f, Dids) \in Int
<1>1. Pool!Total(f) = SumFunctionOnSet(f, Dids)
  BY DEF Pool!Total, Pool!SumFunction, Pool!SumFunctionOnSet, Pool!FoldFunctionOnSet,
         Pool!MapThenFoldSet, SumFunctionOnSet, FoldFunctionOnSet, MapThenFoldSet
<1>2. \A d \in Dids : f[d] \in Int
  OBVIOUS
<1> QED
  BY <1>1, <1>2, UcxAssumption, SumType

LEMMA PoolInitInv == Pool!Init => PoolInv
<1> SUFFICES ASSUME Pool!Init PROVE PoolInv
  OBVIOUS
<1>1. /\ gpu_balances \in [Dids -> Int] /\ syn_balances \in [Dids -> Int]
      /\ \A d \in Dids : gpu_balances[d] = 0 /\ syn_balances[d] = 0
      /\ total_gpu_minted = 0 /\ total_eshu_tithe = 0 /\ synapse_minted = 0
      /\ negative_burns = 0
  BY DEF Pool!Init
<1>2. /\ SumFunctionOnSet(gpu_balances, Dids) = 0 * Cardinality(Dids)
      /\ SumFunctionOnSet(syn_balances, Dids) = 0 * Cardinality(Dids)
  BY <1>1, UcxAssumption, SumConstant
<1>3. 0 * Cardinality(Dids) = 0
  BY UcxAssumption, FS_CardinalityType
<1>4. 0 * GpuPerSynapse = 0 /\ 0 * (GpuPerSynapse - 1) = 0
  BY UcxAssumption
<1> QED
  BY <1>1, <1>2, <1>3, <1>4, PoolTotal
  DEF PoolInv, Pool!burned, Pool!SynapsePaidFor, Pool!SynapseBacked

\* A share of an amount is no more than the amount.
LEMMA Share ==
  ASSUME NEW n \in Nat, NEW num \in Nat, NEW den \in Nat \ {0}, num <= den
  PROVE  (n * num) \div den \in Nat /\ (n * num) \div den <= n
<1>1. PICK k \in Nat : k = n * num
  OBVIOUS
<1>2. k <= n * den
  <2>1. num * n <= den * n
    BY NoMore
  <2> QED
    BY <2>1, <1>1
<1>3. PICK r \in Nat : r = k \div den /\ r * den <= k
  BY WholeParts
<1>4. r <= n
  <2>1. SUFFICES ASSUME n + 1 <= r PROVE FALSE
    BY <1>3
  <2>2. (n + 1) * den <= r * den
    BY <2>1, NoMore
  <2>3. (n + 1) * den = n * den + 1 * den
    BY OneMore
  <2>4. PICK u \in Nat, v \in Nat : u = n * den /\ v = r * den
    BY <1>3
  <2> QED
    BY <2>2, <2>3, <2>4, <1>2, <1>3
<1> QED
  BY <1>1, <1>3, <1>4

\* Division that rounds towards zero gives a whole number.
LEMMA Truncated ==
  ASSUME NEW n \in Int, NEW den \in Nat \ {0}
  PROVE  Pool!truncated(n, den) \in Int
<1>1. CASE n >= 0
  BY <1>1, WholeParts DEF Pool!truncated
<1>2. CASE n < 0
  <2>1. -n \in Nat
    BY <1>2
  <2>2. (-n) \div den \in Nat
    BY <2>1, WholeParts
  <2> QED
    BY <1>2, <2>2 DEF Pool!truncated
<1> QED
  BY <1>1, <1>2

\* What a burn pays for, and what is given away when its amount is negative.
LEMMA BurnPays ==
  ASSUME NEW amount \in Int
  PROVE  /\ Pool!synapses(amount) \in Int
         /\ amount >= 0 => Pool!synapses(amount) >= 0
         /\ Pool!negative(amount) \in Nat
         /\ amount >= 0 => Pool!negative(amount) = 0
         /\ Pool!synapses(amount) * GpuPerSynapse
              <= amount + Pool!negative(amount) * (GpuPerSynapse - 1)
<1>0. GpuPerSynapse \in Nat \ {0}
  BY UcxAssumption
<1>1. CASE amount >= 0
  <2>1. PICK k \in Nat : k = amount \div GpuPerSynapse /\ k * GpuPerSynapse <= amount
    BY <1>0, <1>1, WholeParts
  <2>2. 0 * (GpuPerSynapse - 1) = 0
    BY <1>0
  <2> QED
    BY <1>1, <2>1, <2>2 DEF Pool!synapses, Pool!truncated, Pool!negative
<1>2. CASE amount < 0
  <2>1. PICK a \in Nat : a = -amount
    BY <1>2
  <2>2. PICK k \in Nat : k = a \div GpuPerSynapse /\ a < (k + 1) * GpuPerSynapse
    BY <1>0, <2>1, NextPart
  <2>3. PICK whole \in Nat : whole = k * GpuPerSynapse
    BY <1>0, <2>2
  <2>4. (k + 1) * GpuPerSynapse = whole + GpuPerSynapse
    <3>1. (k + 1) * GpuPerSynapse = k * GpuPerSynapse + 1 * GpuPerSynapse
      BY <1>0, <2>2, OneMore
    <3> QED
      BY <3>1, <2>3, <1>0
  <2>5. (-k) * GpuPerSynapse = -whole
    <3>1. ((-k) + k) * GpuPerSynapse = (-k) * GpuPerSynapse + k * GpuPerSynapse
      BY <1>0, <2>2, OneMore
    <3>2. PICK z \in Int : z = (-k) * GpuPerSynapse
      BY <1>0, <2>2
    <3>3. ((-k) + k) * GpuPerSynapse = 0
      BY <1>0, <2>2
    <3> QED
      BY <3>1, <3>2, <3>3, <2>3
  <2>6. Pool!synapses(amount) = -k /\ Pool!negative(amount) = 1
    BY <1>2, <2>1, <2>2 DEF Pool!synapses, Pool!truncated, Pool!negative
  <2>7. 1 * (GpuPerSynapse - 1) = GpuPerSynapse - 1
    BY <1>0
  <2>8. -k \in Int /\ -whole <= amount + (GpuPerSynapse - 1)
    BY <1>0, <2>1, <2>2, <2>3, <2>4
  <2> QED
    BY <1>2, <2>5, <2>6, <2>7, <2>8
<1> QED
  BY <1>1, <1>2

LEMMA Decayed ==
  ASSUME NEW n \in Int
  PROVE  Pool!decayed(n) \in Int /\ (n >= 0 => Pool!decayed(n) >= 0 /\ Pool!decayed(n) <= n)
<1>0. DecayNum \in Nat /\ DecayDen \in Nat \ {0} /\ DecayNum <= DecayDen
  BY UcxAssumption
<1>1. Pool!decayed(n) \in Int
  <2>1. PICK k \in Int : k = n * DecayNum
    BY <1>0
  <2>2. Pool!truncated(k, DecayDen) \in Int
    BY <1>0, Truncated
  <2> QED
    BY <2>1, <2>2 DEF Pool!decayed
<1>2. ASSUME n >= 0
      PROVE  Pool!decayed(n) >= 0 /\ Pool!decayed(n) <= n
  <2>1. PICK k \in Nat : k = (n * DecayNum) \div DecayDen /\ k <= n
    BY <1>0, <1>2, Share
  <2>2. n * DecayNum >= 0
    BY <1>0, <1>2
  <2> QED
    BY <2>1, <2>2 DEF Pool!decayed, Pool!truncated
<1> QED
  BY <1>1, <1>2

LEMMA PoolStepInv == PoolInv /\ [Pool!Next]_(Pool!vars) => PoolInv'
<1> SUFFICES ASSUME PoolInv, [Pool!Next]_(Pool!vars) PROVE PoolInv'
  OBVIOUS
<1> DEFINE inGpu == SumFunctionOnSet(gpu_balances, Dids)
           inSynapse == SumFunctionOnSet(syn_balances, Dids)
<1>0. /\ IsFiniteSet(Dids) /\ Units \subseteq Int /\ Burns \subseteq Int
      /\ GpuPerSynapse \in Nat \ {0} /\ GpuPerSynapse - 1 \in Nat
  BY UcxAssumption
<1>t. /\ gpu_balances \in [Dids -> Int] /\ syn_balances \in [Dids -> Int]
      /\ total_gpu_minted \in Int /\ total_eshu_tithe \in Int /\ synapse_minted \in Int
      /\ negative_burns \in Nat
      /\ inGpu \in Int /\ inSynapse \in Int
      /\ synapse_minted * GpuPerSynapse
           <= total_gpu_minted - total_eshu_tithe - inGpu
              + negative_burns * (GpuPerSynapse - 1)
      /\ negative_burns = 0 => inSynapse <= synapse_minted
  BY PoolTotal DEF PoolInv, Pool!burned, Pool!SynapsePaidFor, Pool!SynapseBacked
<1>s. PICK spent \in Int, given \in Int :
        /\ spent = synapse_minted * GpuPerSynapse
        /\ given = negative_burns * (GpuPerSynapse - 1)
  BY <1>0, <1>t
<1>1. CASE UNCHANGED Pool!vars
  BY <1>1
  DEF Pool!vars, PoolInv, Pool!burned, Pool!SynapsePaidFor, Pool!SynapseBacked, Pool!Total
<1>2. ASSUME NEW d \in Dids, NEW units \in Units, Pool!Contribute(d, units)
      PROVE  PoolInv'
  <2>1. PICK tithe \in Int : tithe = Pool!eshu_tithe(units)
    <3>1. units \in Int /\ TitheNum \in Nat /\ TitheDen \in Nat \ {0}
      BY <1>0, UcxAssumption
    <3>2. PICK k \in Int : k = units * TitheNum
      BY <3>1
    <3>3. Pool!truncated(k, TitheDen) \in Int
      BY <3>1, Truncated
    <3> QED
      BY <3>2, <3>3 DEF Pool!eshu_tithe
  <2>2. /\ gpu_balances' = [gpu_balances EXCEPT ![d] = @ + (units - tithe)]
        /\ total_gpu_minted' = total_gpu_minted + units
        /\ total_eshu_tithe' = total_eshu_tithe + tithe
        /\ UNCHANGED <<syn_balances, synapse_minted, negative_burns>>
    BY <1>2, <2>1 DEF Pool!Contribute, Pool!gpu_net
  <2>3. units \in Int /\ units - tithe \in Int
    BY <1>0, <2>1
  <2>4. gpu_balances' \in [Dids -> Int]
    BY <2>2, <2>3, <1>t
  <2>5. Changed(gpu_balances', gpu_balances, Dids, d, units - tithe)
    BY <2>2, <2>3, <2>4, <1>t DEF Changed
  <2>6. inGpu' = inGpu + (units - tithe)
    BY <1>0, <2>5, SumChanged
  <2>7. Pool!SynapsePaidFor'
    <3>1. /\ synapse_minted' * GpuPerSynapse = spent
          /\ negative_burns' * (GpuPerSynapse - 1) = given
      BY <1>s, <2>2
    <3>2. Pool!Total(gpu_balances)' = inGpu'
      BY <2>4, PoolTotal
    <3> HIDE DEF inGpu
    <3> QED
      BY <3>1, <3>2, <1>s, <1>t, <2>1, <2>2, <2>3, <2>6 DEF Pool!burned, Pool!SynapsePaidFor
  <2>8. Pool!SynapseBacked'
    BY <2>2 DEF PoolInv, Pool!SynapseBacked, Pool!Total
  <2> QED
    BY <1>0, <1>t, <2>1, <2>2, <2>3, <2>4, <2>7, <2>8 DEF PoolInv
<1>3. ASSUME NEW d \in Dids, NEW amount \in Burns, Pool!BurnForSynapse(d, amount)
      PROVE  PoolInv'
  <2>1. amount \in Int
    BY <1>0
  <2>2. PICK k \in Int, one \in Nat :
          /\ k = Pool!synapses(amount) /\ one = Pool!negative(amount)
          /\ one = 0 => k >= 0
          /\ k * GpuPerSynapse <= amount + one * (GpuPerSynapse - 1)
    <3>1. Pool!negative(amount) = 0 => amount >= 0
      BY <2>1 DEF Pool!negative
    <3> QED
      BY <2>1, <3>1, BurnPays
  <2>3. /\ gpu_balances' = [gpu_balances EXCEPT ![d] = @ - amount]
        /\ syn_balances' = [syn_balances EXCEPT ![d] = @ + k]
        /\ synapse_minted' = synapse_minted + k
        /\ negative_burns' = negative_burns + one
        /\ UNCHANGED <<total_gpu_minted, total_eshu_tithe>>
    BY <1>3, <2>2 DEF Pool!BurnForSynapse
  <2>4. gpu_balances' \in [Dids -> Int] /\ syn_balances' \in [Dids -> Int]
    BY <2>1, <2>2, <2>3, <1>t
  <2>5. /\ Changed(gpu_balances', gpu_balances, Dids, d, 0 - amount)
        /\ Changed(syn_balances', syn_balances, Dids, d, k)
    BY <2>1, <2>2, <2>3, <2>4, <1>t DEF Changed
  <2>6. inGpu' = inGpu + (0 - amount) /\ inSynapse' = inSynapse + k
    BY <1>0, <2>5, SumChanged
  <2>7. PICK more \in Int, gift \in Int :
          more = k * GpuPerSynapse /\ gift = one * (GpuPerSynapse - 1)
    BY <1>0, <2>2
  <2>8. /\ synapse_minted' * GpuPerSynapse = spent + more
        /\ negative_burns' * (GpuPerSynapse - 1) = given + gift
    <3>1. (synapse_minted + k) * GpuPerSynapse = synapse_minted * GpuPerSynapse + k * GpuPerSynapse
      BY <1>0, <1>t, <2>2, OneMore
    <3>2. (negative_burns + one) * (GpuPerSynapse - 1)
             = negative_burns * (GpuPerSynapse - 1) + one * (GpuPerSynapse - 1)
      BY <1>0, <1>t, <2>2, OneMore
    <3> QED
      BY <3>1, <3>2, <1>s, <2>3, <2>7
  <2>9. Pool!Total(gpu_balances)' = inGpu' /\ Pool!Total(syn_balances)' = inSynapse'
    BY <2>4, PoolTotal
  <2>10. negative_burns' = 0 => negative_burns = 0 /\ one = 0
    BY <1>t, <2>2, <2>3
  <2>11. Pool!SynapsePaidFor' /\ Pool!SynapseBacked'
    <3> HIDE DEF inGpu, inSynapse
    <3> QED
      BY <2>1, <2>2, <2>3, <2>6, <2>7, <2>8, <2>9, <2>10, <1>s, <1>t
      DEF Pool!burned, Pool!SynapsePaidFor, Pool!SynapseBacked
  <2>12. negative_burns' = 0 => \A e \in Dids : syn_balances'[e] >= 0
    BY <1>t, <2>2, <2>3, <2>10 DEF PoolInv
  <2> QED
    BY <1>t, <2>2, <2>3, <2>4, <2>11, <2>12 DEF PoolInv
<1>4. ASSUME NEW epoch_day \in 1..MaxDay, Pool!ApplyDailyDecay(epoch_day)
      PROVE  PoolInv'
  <2>1. /\ syn_balances' = [d \in Dids |-> Pool!decayed(syn_balances[d])]
        /\ UNCHANGED <<gpu_balances, total_gpu_minted, total_eshu_tithe, synapse_minted,
                       negative_burns>>
    BY <1>4 DEF Pool!ApplyDailyDecay
  <2>2. \A d \in Dids :
          /\ Pool!decayed(syn_balances[d]) \in Int
          /\ negative_burns = 0 => /\ Pool!decayed(syn_balances[d]) >= 0
                                   /\ Pool!decayed(syn_balances[d]) <= syn_balances[d]
    BY <1>t, Decayed DEF PoolInv
  <2>3. /\ syn_balances' \in [Dids -> Int]
        /\ \A d \in Dids : syn_balances'[d] \in Int /\ syn_balances[d] \in Int
        /\ negative_burns = 0 => \A d \in Dids : syn_balances'[d] >= 0
                                                 /\ syn_balances'[d] <= syn_balances[d]
    BY <2>1, <2>2, <1>t
  <2>4. negative_burns = 0 => inSynapse' <= inSynapse
    BY <1>0, <2>3, SumMonotone
  <2>5. Pool!Total(syn_balances)' = inSynapse' /\ inSynapse' \in Int
    BY <2>3, PoolTotal
  <2>6. Pool!SynapseBacked'
    <3> HIDE DEF inSynapse
    <3> QED
      BY <1>t, <2>1, <2>4, <2>5 DEF Pool!SynapseBacked
  <2>7. Pool!SynapsePaidFor'
    BY <2>1 DEF PoolInv, Pool!SynapsePaidFor, Pool!burned, Pool!Total
  <2> QED
    BY <1>t, <2>1, <2>3, <2>6, <2>7 DEF PoolInv
<1> QED
  BY <1>1, <1>2, <1>3, <1>4 DEF Pool!Next, Pool!RefuseBurn, Pool!SkipDecay

\* No GPU time is lost, handed out twice or paid for twice by the resource meter ...
THEOREM MeterConserves == Resource!Spec => [](Resource!TicksConserved /\ Resource!PendingBacked)
<1>1. ResourceInv => Resource!TicksConserved /\ Resource!PendingBacked
  BY DEF ResourceInv
<1> QED
  BY ResourceInitInv, ResourceStepInv, <1>1, PTL DEF Resource!Spec

\* ... and by the pool, whatever the rates, whatever the signs of what it is given and
\* however many days pass unnoticed: a negative burn gives away less than the price
\* of one Synapse.
THEOREM PoolConserves == Pool!Spec => [](Pool!SynapseBacked /\ Pool!SynapsePaidFor)
<1>1. PoolInv => Pool!SynapseBacked /\ Pool!SynapsePaidFor
  BY DEF PoolInv
<1> QED
  BY PoolInitInv, PoolStepInv, <1>1, PTL DEF Pool!Spec

-----------------------------------------------------------------------------
(* Preflight.                                                               *)

\* What each lock reserves of agent a's Synapse, and what each client that was
\* admitted is about to.
Reserved(a) ==
  [id \in LockIds |-> IF lock_table[id] # None /\ lock_table[id].agent_id = a
                      THEN lock_table[id].estimated_synapse ELSE 0]
Promised(a) ==
  [c \in Runners |-> IF step[c] = "admitted" /\ call[c].agent_id = a THEN call[c].estimated
                     ELSE 0]

InLocks(a) == SumFunctionOnSet(Reserved(a), LockIds)
InCalls(a) == SumFunctionOnSet(Promised(a), Runners)

\* A client is admitted only with an estimate that its balance covers by itself, so
\* reservations and what is about to be reserved stay within one balance per
\* client.
PreflightInv ==
  /\ Preflight!TypeOK
  /\ \A a \in UcxAgents : synapse_balance[a] <= InitialBalance
  /\ \A c \in Runners :
       /\ step[c] = "asking" => call[c].synapse_balance <= InitialBalance
       /\ step[c] = "admitted" => call[c].estimated <= InitialBalance
  /\ \A a \in UcxAgents : InLocks(a) + InCalls(a) <= InitialBalance * Cardinality(Runners)

LEMMA ReservedType ==
  ASSUME Preflight!TypeOK, NEW a
  PROVE  /\ Reserved(a) \in [LockIds -> Nat] /\ Promised(a) \in [Runners -> Nat]
         /\ InLocks(a) \in Nat /\ InCalls(a) \in Nat
<1>1. /\ \A id \in LockIds : lock_table[id] # None => lock_table[id].estimated_synapse \in Nat
      /\ \A c \in Runners : step[c] = "admitted" => call[c].estimated \in Nat
  BY UcxAssumption DEF Preflight!TypeOK, Preflight!Ticket, Preflight!Asking
<1>2. Reserved(a) \in [LockIds -> Nat] /\ Promised(a) \in [Runners -> Nat]
  BY <1>1 DEF Reserved, Promised
<1>3. /\ \A id \in LockIds : Reserved(a)[id] \in Int /\ Reserved(a)[id] >= 0
      /\ \A c \in Runners : Promised(a)[c] \in Int /\ Promised(a)[c] >= 0
  BY <1>2
<1>4. InLocks(a) \in Int /\ InLocks(a) >= 0
  BY <1>3, UcxAssumption, SumType DEF InLocks
<1>5. InCalls(a) \in Int /\ InCalls(a) >= 0
  BY <1>3, UcxAssumption, SumType DEF InCalls
<1> QED
  BY <1>2, <1>4, <1>5

\* The sum that preflight takes over the table is that of the reservations.
LEMMA LockedSum ==
  ASSUME Preflight!TypeOK, NEW a
  PROVE  Preflight!already_locked(a) = InLocks(a)
<1> DEFINE held == Preflight!Held(a)
           f == [id \in held |-> lock_table[id].estimated_synapse]
<1>1. held \in SUBSET LockIds /\ IsFiniteSet(held) /\ IsFiniteSet(LockIds)
  BY UcxAssumption, FS_Subset DEF Preflight!Held
<1>2. Preflight!already_locked(a) = SumFunctionOnSet(f, held)
  BY DEF Preflight!already_locked, Preflight!SumFunction, Preflight!SumFunctionOnSet,
         Preflight!FoldFunctionOnSet, Preflight!MapThenFoldSet, SumFunctionOnSet,
         FoldFunctionOnSet, MapThenFoldSet
<1>3. \A id \in held : f[id] = Reserved(a)[id]
  BY DEF Reserved, Preflight!Held
<1>4. SumFunctionOnSet(f, held) = SumFunctionOnSet(Reserved(a), held)
  <2> HIDE DEF f, held
  <2> QED
    BY <1>1, <1>3, SumAgree
<1>5. /\ \A id \in LockIds : Reserved(a)[id] \in Int
      /\ \A id \in LockIds \ held : Reserved(a)[id] = 0
  <2>1. \A id \in LockIds : Reserved(a)[id] \in Int
    BY ReservedType
  <2> QED
    BY <2>1 DEF Reserved, Preflight!Held
<1>6. SumFunctionOnSet(Reserved(a), LockIds) = SumFunctionOnSet(Reserved(a), held)
  <2> HIDE DEF held
  <2> QED
    BY <1>1, <1>5, SumZeros
<1> QED
  BY <1>2, <1>4, <1>6 DEF InLocks

\* Besides client c, the others were admitted with no more than a balance each.
LEMMA OthersPromised ==
  ASSUME PreflightInv, NEW a \in UcxAgents, NEW c \in Runners, step[c] # "admitted"
  PROVE  InCalls(a) <= InitialBalance * Cardinality(Runners) - InitialBalance
<1> DEFINE most == [k \in Runners |-> InitialBalance]
           others == [k \in Runners |-> IF k = c THEN 0 ELSE InitialBalance]
<1>1. IsFiniteSet(Runners) /\ InitialBalance \in Nat /\ Preflight!TypeOK
  BY UcxAssumption DEF PreflightInv
<1>2. \A k \in Runners : Promised(a)[k] \in Int /\ others[k] \in Int
                         /\ Promised(a)[k] <= others[k]
  BY <1>1, ReservedType DEF PreflightInv, Promised
<1>3. InCalls(a) <= SumFunctionOnSet(others, Runners)
  <2> HIDE DEF others
  <2> QED
    BY <1>1, <1>2, SumMonotone DEF InCalls
<1>4. SumFunctionOnSet(most, Runners) = InitialBalance * Cardinality(Runners)
  <2>1. \A k \in Runners : most[k] = InitialBalance
    OBVIOUS
  <2> HIDE DEF most
  <2> QED
    BY <1>1, <2>1, SumConstant
<1>5. Changed(others, most, Runners, c, 0 - InitialBalance)
  BY <1>1 DEF Changed
<1>6. /\ SumFunctionOnSet(most, Runners) \in Int
      /\ SumFunctionOnSet(others, Runners)
           = SumFunctionOnSet(most, Runners) + (0 - InitialBalance)
  <2> HIDE DEF most, others
  <2> QED
    BY <1>1, <1>5, SumChanged
<1>7. InCalls(a) \in Nat
  BY <1>1, ReservedType
<1>8. PICK m \in Int, b \in Int : m = SumFunctionOnSet(most, Runners) /\ b = InitialBalance
  BY <1>1, <1>6
<1> HIDE DEF most, others
<1> QED
  BY <1>3, <1>4, <1>6, <1>7, <1>8

LEMMA PreflightInitInv == Preflight!Init => PreflightInv
<1> SUFFICES ASSUME Preflight!Init PROVE PreflightInv
  OBVIOUS
<1>1. Preflight!TypeOK
  BY UcxAssumption DEF Preflight!Init, Preflight!TypeOK
<1>2. ASSUME NEW a \in UcxAgents
      PROVE  InLocks(a) + InCalls(a) <= InitialBalance * Cardinality(Runners)
  <2>1. /\ \A id \in LockIds : Reserved(a)[id] = 0
        /\ \A c \in Runners : Promised(a)[c] = 0
    BY DEF Preflight!Init, Reserved, Promised
  <2>2. /\ InLocks(a) = 0 * Cardinality(LockIds)
        /\ InCalls(a) = 0 * Cardinality(Runners)
    BY <2>1, UcxAssumption, SumConstant DEF InLocks, InCalls
  <2>3. Cardinality(LockIds) \in Nat /\ Cardinality(Runners) \in Nat
    BY UcxAssumption, FS_CardinalityType
  <2>4. InLocks(a) = 0 /\ InCalls(a) = 0
    BY <2>2, <2>3
  <2>5. InitialBalance * Cardinality(Runners) \in Nat
    BY <2>3, UcxAssumption
  <2> QED
    BY <2>4, <2>5
<1>3. \A a \in UcxAgents : synapse_balance[a] <= InitialBalance
  BY UcxAssumption DEF Preflight!Init
<1> QED
  BY <1>1, <1>2, <1>3 DEF PreflightInv, Preflight!Init

\* Each step keeps the types.
LEMMA PreflightType == Preflight!TypeOK /\ [Preflight!Next]_(Preflight!vars) => Preflight!TypeOK'
<1> SUFFICES ASSUME Preflight!TypeOK, [Preflight!Next]_(Preflight!vars) PROVE Preflight!TypeOK'
  OBVIOUS
<1>0. Actuals \subseteq Int /\ Estimates \subseteq Int
  BY UcxAssumption
<1> USE DEF Preflight!TypeOK, Preflight!Goto, Preflight!Return
<1>1. CASE UNCHANGED Preflight!vars
  BY <1>1 DEF Preflight!vars
<1>2. ASSUME NEW c \in Runners, NEW a \in UcxAgents, NEW estimated \in Estimates,
             Preflight!ReadBalance(c, a, estimated)
      PROVE  Preflight!TypeOK'
  BY <1>2 DEF Preflight!ReadBalance, Preflight!Asking
<1>3. ASSUME NEW c \in Runners, Preflight!CheckAvailable(c)
      PROVE  Preflight!TypeOK'
  BY <1>3 DEF Preflight!CheckAvailable
<1>4. ASSUME NEW c \in Runners, Preflight!RefusePreflight(c)
      PROVE  Preflight!TypeOK'
  BY <1>4 DEF Preflight!RefusePreflight
<1>5. ASSUME NEW c \in Runners, NEW id \in LockIds, Preflight!InsertTicket(c, id)
      PROVE  Preflight!TypeOK'
  <2>1. [agent_id |-> call[c].agent_id, estimated_synapse |-> Preflight!reserved(c)]
          \in Preflight!Ticket
    BY <1>5 DEF Preflight!InsertTicket, Preflight!Asking, Preflight!Ticket, Preflight!reserved
  <2> QED
    BY <1>5, <2>1 DEF Preflight!InsertTicket
<1>6. ASSUME NEW c \in Runners, NEW id \in LockIds, NEW actual \in Actuals,
             Preflight!Settle(c, id, actual)
      PROVE  Preflight!TypeOK'
  BY <1>6 DEF Preflight!Settle, Preflight!released, Preflight!Ticket, Preflight!Settled
<1>7. ASSUME NEW c \in Runners, Preflight!Debit(c)
      PROVE  Preflight!TypeOK'
  <2>1. synapse_balance' \in [UcxAgents -> Int]
    BY <1>7, <1>0 DEF Preflight!Debit, Preflight!Settled
  <2> QED
    BY <1>7, <2>1 DEF Preflight!Debit
<1> QED
  BY <1>1, <1>2, <1>3, <1>4, <1>5, <1>6, <1>7 DEF Preflight!Next, Preflight!RefuseSettle

\* When neither the reservations nor the promises of an agent change, their bound
\* stays.
LEMMA SameReservations ==
  ASSUME PreflightInv, \A a \in UcxAgents : Reserved(a)' = Reserved(a) /\ Promised(a)' = Promised(a)
  PROVE  \A a \in UcxAgents : InLocks(a)' + InCalls(a)' <= InitialBalance * Cardinality(Runners)
BY DEF PreflightInv, InLocks, InCalls

LEMMA PreflightStepInv == PreflightInv /\ [Preflight!Next]_(Preflight!vars) => PreflightInv'
<1> SUFFICES ASSUME PreflightInv, [Preflight!Next]_(Preflight!vars) PROVE PreflightInv'
  OBVIOUS
<1>t. Preflight!TypeOK /\ Preflight!TypeOK'
  BY PreflightType DEF PreflightInv
<1>f. /\ IsFiniteSet(Runners) /\ IsFiniteSet(LockIds)
      /\ Actuals \subseteq Nat /\ Estimates \subseteq Nat /\ InitialBalance \in Nat
  BY UcxAssumption
<1>b. PICK bound \in Int : bound = InitialBalance * Cardinality(Runners)
  <2>1. Cardinality(Runners) \in Nat
    BY <1>f, FS_CardinalityType
  <2> QED
    BY <2>1, <1>f
<1> DEFINE Bounded == \A a \in UcxAgents : InLocks(a)' + InCalls(a)' <= bound
           Fits == /\ \A a \in UcxAgents : synapse_balance'[a] <= InitialBalance
                   /\ \A c \in Runners :
                        /\ step'[c] = "asking" => call'[c].synapse_balance <= InitialBalance
                        /\ step'[c] = "admitted" => call'[c].estimated <= InitialBalance
<1>g. SUFFICES Fits /\ Bounded
  BY <1>t, <1>b DEF PreflightInv
<1> USE DEF Preflight!Goto, Preflight!Return
<1>1. CASE UNCHANGED Preflight!vars
  <2>1. UNCHANGED <<synapse_balance, lock_table, step, call>>
    BY <1>1 DEF Preflight!vars
  <2>2. \A a \in UcxAgents : Reserved(a)' = Reserved(a) /\ Promised(a)' = Promised(a)
    BY <2>1 DEF Reserved, Promised
  <2> QED
    BY <2>1, <2>2, <1>b, SameReservations DEF PreflightInv
<1>2. ASSUME NEW c \in Runners, NEW a \in UcxAgents, NEW estimated \in Estimates,
             Preflight!ReadBalance(c, a, estimated)
      PROVE  Fits /\ Bounded
  <2>1. /\ step[c] = "idle" /\ step' = [step EXCEPT ![c] = "asking"]
        /\ call' = [call EXCEPT ![c] = [agent_id |-> a, estimated |-> estimated,
                                        synapse_balance |-> synapse_balance[a]]]
        /\ UNCHANGED <<synapse_balance, lock_table>>
    BY <1>2 DEF Preflight!ReadBalance
  <2>2. \A b \in UcxAgents : Reserved(b)' = Reserved(b) /\ Promised(b)' = Promised(b)
    BY <1>t, <2>1 DEF Reserved, Promised, Preflight!TypeOK
  <2>3. Fits
    BY <1>t, <2>1 DEF PreflightInv, Preflight!TypeOK
  <2> QED
    BY <2>2, <2>3, <1>b, SameReservations
<1>3. ASSUME NEW c \in Runners, Preflight!CheckAvailable(c)
      PROVE  Fits /\ Bounded
  <2>1. /\ step[c] = "asking" /\ step' = [step EXCEPT ![c] = "admitted"]
        /\ UNCHANGED <<synapse_balance, lock_table, call>>
    BY <1>3 DEF Preflight!CheckAvailable
  <2>2. /\ call[c] \in Preflight!Asking /\ call[c].agent_id \in UcxAgents
        /\ call[c].synapse_balance \in Int /\ call[c].synapse_balance <= InitialBalance
    BY <2>1, <1>t DEF PreflightInv, Preflight!TypeOK, Preflight!Asking
  <2>3. PICK est \in Nat : est = call[c].estimated
    BY <2>2, <1>f DEF Preflight!Asking
  <2>4. PICK agent \in UcxAgents : agent = call[c].agent_id
    BY <2>2
  <2>5. est <= InitialBalance - InLocks(agent) /\ InLocks(agent) \in Nat
    <3>1. est <= call[c].synapse_balance - Preflight!already_locked(agent)
      BY <1>3, <2>3, <2>4 DEF Preflight!CheckAvailable, Preflight!sufficient
    <3>2. InLocks(agent) \in Nat /\ Preflight!already_locked(agent) = InLocks(agent)
      BY <1>t, ReservedType, LockedSum
    <3> QED
      BY <3>1, <3>2, <2>2, <2>3, <1>f
  <2>6. Fits
    <3>1. est <= InitialBalance
      BY <2>3, <2>5, <1>f
    <3> QED
      BY <2>1, <2>3, <3>1, <1>t DEF PreflightInv, Preflight!TypeOK
  <2>7. \A a \in UcxAgents : Reserved(a)' = Reserved(a) /\ InLocks(a)' = InLocks(a)
    BY <2>1 DEF Reserved, InLocks
  <2>8. ASSUME NEW a \in UcxAgents
        PROVE  InLocks(a)' + InCalls(a)' <= bound
    <3>1. CASE a = agent
      <4>1. Changed(Promised(a)', Promised(a), Runners, c, est)
        <5>1. Promised(a) \in [Runners -> Int] /\ Promised(a)' \in [Runners -> Int]
          <6>1. Promised(a) \in [Runners -> Nat]
            BY <1>t, ReservedType
          <6>2. \A k \in Runners : Promised(a)'[k] = Promised(a)[k] + IF k = c THEN est ELSE 0
            BY <2>1, <2>3, <2>4, <3>1, <1>t, <6>1 DEF Promised, Preflight!TypeOK
          <6>3. Promised(a)' = [k \in Runners |-> Promised(a)'[k]]
            BY DEF Promised
          <6>4. \A k \in Runners : Promised(a)'[k] \in Int
            BY <6>1, <6>2, <2>3
          <6> QED
            BY <6>1, <6>3, <6>4
        <5>2. \A k \in Runners : Promised(a)'[k] = Promised(a)[k] + IF k = c THEN est ELSE 0
          BY <2>1, <2>3, <2>4, <3>1, <1>t, <5>1 DEF Promised, Preflight!TypeOK
        <5> QED
          BY <5>1, <5>2, <2>3 DEF Changed
      <4>2. InCalls(a)' = InCalls(a) + est
        BY <4>1, <1>f, SumChanged DEF InCalls
      <4>3. InCalls(a) <= bound - InitialBalance /\ InCalls(a) \in Nat
        BY <2>1, <1>b, <1>t, OthersPromised, ReservedType
      <4>4. est <= InitialBalance - InLocks(a) /\ InLocks(a)' = InLocks(a) /\ InLocks(a) \in Nat
        BY <2>5, <2>7, <3>1
      <4> QED
        BY <4>2, <4>3, <4>4, <2>3, <1>b, <1>f
    <3>2. CASE a # agent
      <4>1. Promised(a)' = Promised(a)
        BY <2>1, <2>4, <3>2, <1>t DEF Promised, Preflight!TypeOK
      <4>2. InCalls(a)' = InCalls(a)
        BY <4>1 DEF InCalls
      <4> QED
        BY <4>2, <2>7, <1>b DEF PreflightInv
    <3> QED
      BY <3>1, <3>2
  <2> QED
    BY <2>6, <2>8
<1>4. ASSUME NEW c \in Runners, Preflight!RefusePreflight(c) \/ Preflight!Debit(c)
      PROVE  Fits /\ Bounded
  <2>1. /\ step[c] \in {"asking", "settled"} /\ step' = [step EXCEPT ![c] = "idle"]
        /\ call' = [call EXCEPT ![c] = None]
        /\ UNCHANGED lock_table
    BY <1>4 DEF Preflight!RefusePreflight, Preflight!Debit
  <2>2. \A b \in UcxAgents : Reserved(b)' = Reserved(b) /\ Promised(b)' = Promised(b)
    BY <1>t, <2>1 DEF Reserved, Promised, Preflight!TypeOK
  <2>3. \A a \in UcxAgents : synapse_balance'[a] <= InitialBalance
    <3>1. CASE Preflight!RefusePreflight(c)
      BY <3>1 DEF Preflight!RefusePreflight, PreflightInv
    <3>2. CASE Preflight!Debit(c)
      <4>1. /\ call[c].actual_synapse \in Nat
            /\ synapse_balance' =
                 [synapse_balance EXCEPT ![call[c].agent_id] = @ - call[c].actual_synapse]
        BY <3>2, <1>t, <1>f DEF Preflight!Debit, Preflight!TypeOK, Preflight!Settled
      <4> QED
        BY <4>1, <1>t, <1>f DEF Preflight!TypeOK, PreflightInv
    <3> QED
      BY <1>4, <3>1, <3>2
  <2>4. Fits
    BY <1>t, <2>1, <2>3 DEF PreflightInv, Preflight!TypeOK
  <2> QED
    BY <2>2, <2>4, <1>b, SameReservations
<1>5. ASSUME NEW c \in Runners, NEW id \in LockIds, Preflight!InsertTicket(c, id)
      PROVE  Fits /\ Bounded
  <2>1. /\ step[c] = "admitted" /\ step' = [step EXCEPT ![c] = "idle"]
        /\ call' = [call EXCEPT ![c] = None]
        /\ id \notin issued
        /\ lock_table' = [lock_table EXCEPT ![id] = [agent_id |-> call[c].agent_id,
                                                     estimated_synapse |-> call[c].estimated]]
        /\ UNCHANGED synapse_balance
    BY <1>5 DEF Preflight!InsertTicket, Preflight!reserved
  <2>2. lock_table[id] = None /\ call[c] \in Preflight!Asking
    BY <2>1, <1>t DEF Preflight!TypeOK
  <2>3. PICK est \in Nat, agent \in UcxAgents : est = call[c].estimated /\ agent = call[c].agent_id
    BY <2>2, <1>f DEF Preflight!Asking
  <2>4. PICK ticket \in Preflight!Ticket :
          /\ ticket = [agent_id |-> agent, estimated_synapse |-> est]
          /\ lock_table' = [lock_table EXCEPT ![id] = ticket]
    <3>1. [agent_id |-> agent, estimated_synapse |-> est] \in Preflight!Ticket
      BY <2>2, <2>3 DEF Preflight!Asking, Preflight!Ticket
    <3> QED
      BY <2>1, <2>3, <3>1
  <2>5. ticket # None /\ ticket.agent_id = agent /\ ticket.estimated_synapse = est
    BY <2>4, UcxAssumption
  <2>6. Fits
    BY <1>t, <2>1 DEF PreflightInv, Preflight!TypeOK
  <2>7. ASSUME NEW a \in UcxAgents
        PROVE  InLocks(a)' + InCalls(a)' <= bound
    <3> DEFINE n == IF a = agent THEN est ELSE 0
    <3>1. n \in Nat /\ 0 - n \in Int
      BY <2>3
    <3>2. /\ Reserved(a) \in [LockIds -> Nat] /\ Promised(a) \in [Runners -> Nat]
          /\ InLocks(a) \in Nat /\ InCalls(a) \in Nat
      BY <1>t, ReservedType
    <3>3. \A k \in LockIds : Reserved(a)'[k] = Reserved(a)[k] + IF k = id THEN n ELSE 0
      BY <2>2, <2>4, <2>5, <3>2, <1>t DEF Reserved, Preflight!TypeOK
    <3>4. \A k \in Runners : Promised(a)'[k] = Promised(a)[k] + IF k = c THEN 0 - n ELSE 0
      BY <2>1, <2>3, <3>2, <1>t DEF Promised, Preflight!TypeOK
    <3> HIDE DEF n
    <3>5. Reserved(a)' \in [LockIds -> Int] /\ Promised(a)' \in [Runners -> Int]
      <4>1. /\ Reserved(a)' = [k \in LockIds |-> Reserved(a)'[k]]
            /\ Promised(a)' = [k \in Runners |-> Promised(a)'[k]]
        BY DEF Reserved, Promised
      <4>2. /\ \A k \in LockIds : Reserved(a)'[k] \in Int
            /\ \A k \in Runners : Promised(a)'[k] \in Int
        BY <3>1, <3>2, <3>3, <3>4
      <4> QED
        BY <4>1, <4>2
    <3>6. /\ Changed(Reserved(a)', Reserved(a), LockIds, id, n)
          /\ Changed(Promised(a)', Promised(a), Runners, c, 0 - n)
      BY <3>1, <3>2, <3>3, <3>4, <3>5 DEF Changed
    <3>7. InLocks(a)' = InLocks(a) + n /\ InCalls(a)' = InCalls(a) + (0 - n)
      BY <3>6, <1>f, SumChanged DEF InLocks, InCalls
    <3> QED
      BY <3>1, <3>2, <3>7, <1>b DEF PreflightInv
  <2> QED
    BY <2>6, <2>7
<1>6. ASSUME NEW c \in Runners, NEW id \in LockIds, NEW actual \in Actuals,
             Preflight!Settle(c, id, actual)
      PROVE  Fits /\ Bounded
  <2>1. /\ step[c] = "idle" /\ step' = [step EXCEPT ![c] = "settled"]
        /\ lock_table[id] # None
        /\ lock_table' = [lock_table EXCEPT ![id] = None]
        /\ call' = [call EXCEPT ![c] = [agent_id |-> lock_table[id].agent_id,
                                        actual_synapse |-> actual]]
        /\ UNCHANGED synapse_balance
    BY <1>6 DEF Preflight!Settle, Preflight!released
  <2>2. Fits
    BY <1>t, <2>1 DEF PreflightInv, Preflight!TypeOK
  <2>3. ASSUME NEW a \in UcxAgents
        PROVE  InLocks(a)' + InCalls(a)' <= bound
    <3>1. /\ Reserved(a) \in [LockIds -> Nat] /\ Reserved(a)' \in [LockIds -> Nat]
          /\ InLocks(a) \in Nat /\ InCalls(a) \in Nat
      <4>1. Reserved(a)' \in [LockIds -> Nat]
        <5>1. \A k \in LockIds : Reserved(a)'[k] \in Nat
          BY <2>1, <1>t, <1>f DEF Reserved, Preflight!TypeOK, Preflight!Ticket
        <5>2. Reserved(a)' = [k \in LockIds |-> Reserved(a)'[k]]
          BY DEF Reserved
        <5> QED
          BY <5>1, <5>2
      <4> QED
        BY <4>1, <1>t, ReservedType
    <3>2. \A k \in LockIds : Reserved(a)'[k] \in Int /\ Reserved(a)[k] \in Int
                             /\ Reserved(a)'[k] <= Reserved(a)[k]
      BY <2>1, <3>1, <1>t DEF Reserved, Preflight!TypeOK
    <3>3. InLocks(a)' <= InLocks(a)
      BY <3>2, <1>f, SumMonotone DEF InLocks
    <3>4. Promised(a)' = Promised(a)
      BY <1>t, <2>1 DEF Promised, Preflight!TypeOK
    <3>5. InCalls(a)' = InCalls(a)
      BY <3>4 DEF InCalls
    <3>6. InLocks(a)' \in Int
      <4>1. \A k \in LockIds : Reserved(a)'[k] \in Int
        BY <3>1
      <4> QED
        BY <4>1, <1>f, SumType DEF InLocks
    <3> QED
      BY <3>1, <3>3, <3>5, <3>6, <1>b DEF PreflightInv
  <2> QED
    BY <2>2, <2>3
<1> HIDE DEF Fits, Bounded
<1> QED
  BY <1>1, <1>2, <1>3, <1>4, <1>5, <1>6 DEF Preflight!Next, Preflight!RefuseSettle

\* However many callers read, check and insert at the same time, an agent's
\* reservations stay within one balance per client.
THEOREM ReservationsBounded == Preflight!Spec => []OverReserveBounded
<1>1. PreflightInv => OverReserveBounded
  <2> SUFFICES ASSUME PreflightInv, NEW a \in UcxAgents
               PROVE  Preflight!already_locked(a) <= InitialBalance * Cardinality(Runners)
    <3>1. Preflight!Cardinality(Runners) = Cardinality(Runners)
      BY DEF Preflight!Cardinality, Cardinality
    <3> QED
      BY <3>1 DEF OverReserveBounded, Preflight!OverReserveBounded
  <2>1. Preflight!TypeOK
    BY DEF PreflightInv
  <2>2. Preflight!already_locked(a) = InLocks(a) /\ InLocks(a) \in Nat /\ InCalls(a) \in Nat
    BY <2>1, LockedSum, ReservedType
  <2>3. PICK bound \in Int : bound = InitialBalance * Cardinality(Runners)
    <3>1. Cardinality(Runners) \in Nat
      BY UcxAssumption, FS_CardinalityType
    <3> QED
      BY <3>1, UcxAssumption
  <2> QED
    BY <2>2, <2>3 DEF PreflightInv
<1> QED
  BY PreflightInitInv, PreflightStepInv, <1>1, PTL DEF Preflight!Spec

-----------------------------------------------------------------------------
(* The whole.                                                               *)

\* Together the components behave as each does alone.
THEOREM UcxKeepsItsParts ==
  UcxSpec => Spec /\ Meter!Spec /\ Preflight!Spec /\ Resource!Spec /\ Pool!Spec
<1>1. UcxInit => Init /\ Meter!Init /\ Preflight!Init /\ Resource!Init /\ Pool!Init
  BY DEF UcxInit
<1>2. [UcxNext]_allVars => /\ [Next]_vars /\ [Meter!Next]_(Meter!vars)
                           /\ [Preflight!Next]_(Preflight!vars)
                           /\ [Resource!Next]_(Resource!vars) /\ [Pool!Next]_(Pool!vars)
  BY DEF UcxNext, MeterStep, PreflightStep, ResourceStep, PoolStep, TocStep, allVars, vars,
     meterVars, preflightVars, resourceVars, poolVars, Meter!vars, Preflight!vars,
     Resource!vars, Pool!vars
<1> QED
  BY <1>1, <1>2, PTL DEF UcxSpec, Spec, Meter!Spec, Preflight!Spec, Resource!Spec, Pool!Spec

\* So GPU time is conserved in the books of both.
THEOREM GpuTimeIsConserved == UcxSpec => []GpuTimeConserved
<1>1. (/\ Resource!TicksConserved /\ Resource!PendingBacked
       /\ Pool!SynapseBacked /\ Pool!SynapsePaidFor) => GpuTimeConserved
  BY DEF GpuTimeConserved
<1> QED
  BY <1>1, UcxKeepsItsParts, MeterConserves, PoolConserves, PTL

\* Everything that is checked of the whole, when no two clients mint for the same
\* agent.
THEOREM UcxCorrect ==
  ASSUME DisjointMints
  PROVE  UcxSpec => /\ []OverReserveBounded /\ []BilledWithinWallTime /\ ReadingFinal
                    /\ []GpuTimeConserved
                    /\ []IssuedWithinContribution /\ IssuanceSpec
BY UcxKeepsItsParts, ReservationsBounded, BillingCorrect, ReadingIsFinal, GpuTimeIsConserved,
   IssuanceCorrect, IssuanceRefinement

=============================================================================
