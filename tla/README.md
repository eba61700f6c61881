# OSOVM: a TLA+ verification project

OSOVM is a virtual machine for the Àṣẹ token economy: a Julia VM behind an HTTP server
(`src/oso_vm.jl`, `src/server.jl`), a second, block-applying VM (`src/vm_core.jl`), a Rust BFT chain
(`blockchain/consensus`), the UCX integration that meters and reserves compute jobs
(`integrations/ucx`), a large periphery of simulators, compilers, bridges and contracts, and the
source of the language it runs on (`julia-1.10.5`), which is most of the tree. This project models
the parts of the platform that keep a ledger, a vote or a reservation, and the parts of the runtime
that many threads change at once; it checks them with TLC on small instances, and proves the most
important properties with TLAPS for every value of the constants. Paths below are relative to the
repository; lines are in `PROJECT.json` ("map").

Contents: 1 the system; 2 the modules; 3 the runs; 4 proofs; 5 bounds, fairness and assumptions;
6 where the code and its words disagree; 7 what is not modelled; 8 the plan.

## 1. The system

### The platform

| Component | State it keeps | Operations | Hard behaviour |
|---|---|---|---|
| Token-of-Compute ledgers (`oso_vm.jl` 0x3f, 0x54, 0x55; `token_guards.jl`) | eight module-level dictionaries, a lock each: contributions, receipts, minted watermark, Synapse balance, epoch tally, job count, agent registry; a mirror in each VM | GPU_CONTRIBUTION, TOC_MINT, TOC_DECAY | a mint reads under one lock and writes under four others; requests run in parallel tasks |
| UCX pre-flight (`execution_adapter.jl`) | lock table of reservations, one mutex | preflight, settle, active_locks | check and insert in separate critical sections; caller's balance read before |
| UCX job meter (`resource_meter.jl`) | registry of sessions and a lock per session | start_session, record_sample, stop_session | a sampler holds a session that is being stopped or replaced |
| UCX resource meter (`resource_meter.jl`) | per-provider accumulators | record_contribution, drain_for_mint, apply_decay | drains racing contributions |
| GPU pool (`toc/gpu_pool.jl`) | two balances per DID, totals, last decay day | contribute!, burn_for_synapse!, apply_daily_decay! | rounding; amounts of either sign, which nothing checks; decay called twice for a day |
| Native chain ledger (`state.rs`, `consensus.rs`, `block.rs`) | accounts, balances, nonces, contracts, height | validate_transaction, finalize_block | judged against one state, applied in others; fails halfway |
| Native chain voting (`consensus.rs`, `validator.rs`) | round, phase, votes, a lock each | next_round, add_prevote, add_precommit, has_commit | lock order; votes around a change of round |
| Quadrinity government (`oso_vm.jl` 0x40-0x4e) | proposals, elections, referendums, votes, delegations, laws, cabinet | one opcode each | answers stored and used later; ids shared by kinds of ballot; late vetoes |
| Inheritance wallets (`oso_vm.jl` 0x30-0x34) | 1440 wallets and vaults | apply, approve, sign, offer, claim | several parties over seven years |
| Programs and Ase (`oso_vm.jl` execute_ir) | balances, stakes, events, the running batch | TRANSFER, STAKE, UNSTAKE, AGENT_CONVERT, JOB_PAYMENT, AGENT_BIRTH, GENESIS_FLAW_TOKEN, REQUIRE, HALT, EMIT | a batch breaks off in the middle; negative amounts |
| VM core (`vm_core.jl`, `ase_supply.jl`) | balances, stakes, supply counters, halted | apply_block and its opcodes | blocks that throw, the Sabbath, rounding, daily caps |

How they interact. The server (`server.jl`) gives every request a task and `/run` a fresh VM;
`docker-compose.yml` starts Julia with `JULIA_NUM_THREADS=auto`, so handlers really run in parallel
and meet at the module-level dictionaries of the Token-of-Compute ledgers and at the UCX tables. The
UCX resource meter feeds TOC_MINT through a client that drains and then asks (outside the
repository). The agent registry that TOC_MINT fills is what JOB_PAYMENT asks before it pays a
creator. COMPUTE_PROOF reads the receipts and contributions and writes no ledger. The Rust chain, the
VM core and the OSO VM do not call each other in this tree. The government, the inheritance wallets
and the Ase opcodes have tables of their own in one VM: an award only adds to a balance.

### The runtime

| Component | State it keeps | Operations | Hard behaviour |
|---|---|---|---|
| Stopping the world (`safepoint.c`, `gc.c`, `threading.c`, `signals-unix.c`) | the safepoint pages and their counters, the state of each thread, jl_gc_running, jl_gc_disable_counter, the pending ^C | collect, jl_gc_enable, safe regions, adoption of foreign threads, ^C with deferral | all of it without one lock: a fault, a flag and a counter each close a window |
| Tasks and threads (`partr.c`, `task.c`, `jl_uv.c`, `base/task.jl`, `base/partr.jl`) | sticky queues, the multiqueue, who sleeps, the lock of libuv | schedule, yield, wait, wakeup, watching the event loop | lost wakeups; a task queued before its stack has been left; who watches |
| Parallel marking (`gc.c`, `work-stealing-queue.h`) | a queue for each marker, the count of markers | push, pop, steal, join, leave | termination seen from stale sizes; the last item; a grown array |
| Generational heap (`gc.c`) | the bits of each object, remembered sets, page counts | allocate, store, collect quick or full | an old object that refers to a young one; pages that are skipped |
| Finalizers (`gc.c`) | a list for each thread, the list of old objects, what is to run | register, finalize, collect, run, exit | owners push without the lock that others hold |
| Methods and world ages (`gf.c`, `base/compiler/typeinfer.jl`) | the method table, two caches, code with the worlds it is valid in, reverse edges | define, replace, delete, look up, infer, store edges, cache the result | a definition changes what older answers, found in other worlds, are still good for |

They interact in order: a collection needs the world stopped (`WorldStopped`, with the exception it
names, is what makes the heap models one step a collection); marking promises the sweep that what is
reachable is marked; the sweep schedules finalizers, which run on any thread's next unlock; the
scheduler's threads poll safepoints and count as stopped while they sleep. Dispatch sits above: it
runs in every thread, reads its caches without a lock and writes them under the table's.

What makes each correct, in a line: a GPU second buys Synapse once; a reservation is charged once;
a session is billed no more than wall time and its last reading is final; no drained second is lost;
applying blocks conserves Ase and applies a block whole; a commit seen in a round is that round's and
voting does not block; an executed proposal had its quorum and its laws are carried; a wallet is
awarded by the council; programs neither make nor lose Ase; the Sabbath rests. Nobody touches the
heap while it is collected and everybody comes back; no task runs twice at once and no wakeup is
lost; marking ends, and not too early; nothing reachable is freed and nothing else is kept by a full
collection; a finalizer is in one place; code and caches agree with dispatch in every world they are
said to be good for.

## 2. The modules

| Module | Models | Its steps |
|---|---|---|
| `TocLedger` | the three Token-of-Compute handlers | one critical section with the task-local code around it; a handler is six steps of TOC_MINT or two of GPU_CONTRIBUTION |
| `TocIssuance`, `TocRefinement` | what TOC_MINT promises: an atomic mint that pays each GPU tick once; and the mapping that shows TocLedger implements it | the mapping hides the watermark until the balance is credited |
| `UcxPreflight` | preflight and settle, with the caller's read and debit | critical section, or step of the caller |
| `UcxJobMeter` | the job meter | lookup under the registry's mutex, update under the session's lock |
| `UcxResourceMeter`, `GpuPool` | the accumulators and the pool | one locked function each |
| `ChainState` | validate and finalize_block | one transaction of a block |
| `BftConsensus` | the voting locks | what lies between two acquisitions |
| `Governance` | ballots, quorum, execution, veto, laws, impeachment | one opcode |
| `Inheritance` | wallets and vaults | one opcode; time passes |
| `VmEconomy` | execute_ir, execute_batch and the Ase opcodes | one instruction |
| `VmCore` | apply_block, apply_transaction, the Ase opcodes and supply rules | one instruction; a block begins, ends, throws or is replaced |
| `Safepoint` | stopping the world | one access of shared memory, or what the holder of safepoint_lock does |
| `TaskScheduler` | finding, taking, switching and waking tasks; the event loop | one access of shared memory |
| `GcMark` | the mark loop of the master and the mark threads, with its termination | one access of a queue or of the counters |
| `WorkStealingQueue`, `WorkBag` | the queue, and what it promises: a bag from which every item is taken once | one access of top, bottom, the array or a slot |
| `GenerationalGc` | bits, barrier, remembered set, pages, weak references | an operation of the program, or a collection |
| `Finalizers` | the finalizer lists | a critical section, or one access of the owner without it |
| `MethodOrder` | signatures, and what a right answer of the method table says | |
| `MethodMatching` | ml_matches and sort_mlmatches | a pure operator |
| `MethodWorlds` | definitions, caches, edges, invalidation and inference in worlds | a critical section of the table; a step of an inference |
| `Sums` | lemmas about SumFunctionOnSet | |
| `*_proofs` | TLAPS proofs: `Safepoint_proofs`, `TaskScheduler_proofs` and `MethodWorlds_proofs` about the module of that name, `Ucx_proofs` (with the Token-of-Compute ledgers), `NativeChain_proofs`, `OsoVm_proofs` and `Heap_proofs` about the parts of the MC module of that name | |
| `MC*` | instances for TLC | |

Correspondence. Variables have the names of the fields they model. A request's local variables are
`req` or `call`, with `pc` for where it stands; a thread's are functions of the thread. Variables
marked "(history)" are not in the code: they remember what the properties speak of (what QUORUM asked
for, whom an approval was for, what left the balances). Dictionaries with defaults are functions with
that default. Amounts are whole numbers: GPU time in ticks, Ase in units chosen so that 10% and 5%
round; rounding is modelled where the code rounds (`floor`, `r6`), so that a share that is lost shows.
A refused instruction is a step that changes nothing, except where the code has changed something
before it refuses (JOB_PAYMENT).

Types in `MethodOrder`, `MethodMatching` and `MethodWorlds` are sets of concrete argument types:
subtyping is inclusion, and a signature is more specific than another when it lies strictly below it.
That keeps what the sort is about (matches that cover the query or part of it, ambiguities, a third
method that resolves one) and leaves out what Julia's `morespecific` adds (it is not transitive, and
it can order signatures that are not nested). An inferred result is what matters of it here: the
methods that its call site may reach, whether it took an error into account, and the worlds in which
that is so.

`MethodWorlds` does not name `MethodMatching`: it has the constant operator `ml_matches`, which the
cfgs of its runs give the value `MlMatches`. So TLC runs the algorithm of the code in every step that
asks the table, and a proof about `MethodWorlds` uses no more of it than `DispatchRight` says.

Some MC modules put several components side by side (`MCUcx`, `MCNativeChain`, `MCOsoVm`, `MCHeap`,
`MCMethods`): a variable `part`, chosen in the initial state, says whose behaviour this is, and the
others stand still. That is sound for what they check because those components share no variable and
every property speaks of one of them; it is not a claim about their composition. `MCUcx` extends the
Token-of-Compute ledgers and `MCNativeChain` the chain's ledger, whose properties are then stated in
their own variables.

## 3. The runs

| Run | Instance | What it shows |
|---|---|---|
| `toc_shared` | 2 clients minting for 1 agent, one of them on a VM that is kept, 2 jobs, 1 receipt hash, contributions of 2 or 3 ticks up to 7, 2 ticks a Synapse, cap 15, limit 2 | what holds although mints race: the watermark never passes the contributions, the repeat limit and the cap are passed by no more than the requests in flight, and the ledgers agree when no mint is in flight |
| `toc_double_mint` (violation) | the same, with fresh VMs only | the same GPU time is paid twice |
| `ucx` | job meter with 3 callers and 2 sessions, readings of -10, 50 and 130%; pre-flight with 2 clients, 2 agents, 3 locks; resource meter; GPU pool with 2 DIDs, 3 days, contributions and burns of either sign; the ledgers with 2 clients that mint for an agent each, one of them on a VM that is kept | billing and final readings; reservations exceed the balance by no more than one balance per client; ticks are accounted for, and Synapse too, but for less than one a negative burn; with one minter per agent no tick is paid twice and the mint is as good as atomic: `TocIssuance` is implemented |
| `native_chain` | all blocks of up to 2 transactions over 3 addresses and 4 kinds, 2 heights; voting: 3 callers whose calls overlap, votes under a validator's name and under one that is none, 2 changes of round | Ase is conserved by any block; a validated block with one transaction per sender is applied whole; a commit that a caller finds between two readings of the same round has its threshold of precommits from that round |
| `bft_deadlock` (violation) | 2 callers, 1 change of round | a vote and a change of round wait for each other for ever |
| `oso_vm` | government: 3 voters, council of 3, an id that is a proposal, an election and a referendum, a law, an official; inheritance: 2 wallets, 3 shrines (2 with a badge), council of 3 of which 2 approve, 4 instants; programs over 2 addresses with 10 Ase, amounts of -10 and 10, 1 negative payment; blocks over 2 addresses with 20 each, 2 days of which one is a Sabbath, 2 blocks of 2 instructions | laws are carried and execution has its quorum; awards rest on approvals of the winner; Ase is accounted for and nobody overdraws without a negative payment; blocks lose no Ase but what a receipt told an agent it keeps, however they end; the Sabbath changes nothing but `halted` |
| `runtime_world` | 2 threads of the runtime, 1 foreign thread, 2 collections, 1 ^C | nobody touches the heap during a collection, but for a master that has just thrown a ^C; none runs while it is disabled or a thread is adopted; pages are protected once for each reason, everybody who waits comes back, and a ^C is delivered |
| `runtime_tasks` | 2 threads with their root tasks, 1 task that runs anywhere, 3 operations (threaded regions of any task among them, nested or not), 1 miss of the multiqueue in a row | no task on two threads; who sleeps has said so; a thread does not stay away from queued tasks; I/O that is complete is delivered unless a task computes on each chance; what is complete when the last region is left is delivered by thread 0 even if the thread that left computes for ever |
| `runtime_heap` | marking: 2 mark threads and the master, 4 objects in a cyclic graph, 2 collections, any number of joins; the queue: an owner, 2 thieves, 3 items, an array that starts with 2 slots; generations: 2 objects and a weak reference, a page and a big object; finalizers: 2 threads, 2 registrations, 2 collections or inhibitions | marking ends unless threads join for ever while every queue is empty, and only when all is marked and nobody else marks; the queue implements `WorkBag` and loses nothing; nothing reachable is freed; a full collection frees the rest; a finalizer is in one place; what is pending is flagged |
| `finalizer_exit` (violation) | the finalizers, while threads go on at exit | a finalizer registered during the flush is lost |
| `runtime_methods` | all 1,100 tables of up to 4 methods over 3 types, each order of visiting its own, asked with and without limit; a table of up to 3 of 4 signatures (nested and ambiguous ones), 1 deletion (also of a method that was replaced before), 1 cache entry, 2 code instances of 3 callers (a call that may reach two methods, a call in a caller of that caller, which may leave no edges, and an invoke), tasks up to 1 world behind | answers contain the method that every argument selects, in front of the others that take it, and never conceal an ambiguity; caches and code agree with dispatch in all worlds they claim, but for those into which a deletion has put back a method that had ended |
| `method_race` (violation) | 1 method, with a definition allowed between the steps of an inference | code is valid, by its own account, in a world whose method it does not know |

Every property of a passing run has a mutant in `PROJECT.json`: a slip of the kind a maintainer could
make (a stale read written back, a dropped guard, a missing reset), under which the run fails.

## 4. Proofs

TLAPS proves, for all values of the constants that satisfy the named assumptions, the following. The
proof modules of a run extend its MC module, so that what is proved of a component is also proved of
the specification that TLC runs (`UcxCorrect`, `VmCorrect`, `HeapCorrect`, `QuorumForTheBlock`,
`ChainKeepsLedger`): a part takes its own steps or stands still. `MethodWorlds_proofs` cannot:
`MCMethods` reaches a recursive operator. It is about `Spec` of `MethodWorlds`.

- `Sums`: what SumFunctionOnSet does when an entry changes, is moved, added or taken out, by induction
  over finite sets. The community module defines the sum by a fold, whose value on a set is settled
  only by choosing elements one by one; `SumIs` shows that the order does not matter, and everything
  about totals below rests on it. The induction is `SubsetInduction`, over a set of subsets: the
  library's own finite-set induction takes an operator, which the provers cannot instantiate.
- `Ucx_proofs`, the ledgers: type correctness, `WatermarkBacked`, `ReceiptBacked`, the exact reach of
  the races on the repeat limit (`RepeatOvershootBounded`) and on the cap (`TallyOvershootBounded`),
  `LedgersAgree`, and, when no two clients mint for one agent, `IssuedWithinContribution` and the
  refinement of `TocIssuance`. The watermark written by a mint is what it read, plus what it read as
  unminted, so `LedgerInv` must say that what a handler holds is still on record (`RequestsBacked`);
  `RepeatInv` counts the requests that were let pass and are not yet counted; `EpochInv` adds up what
  the mints in flight were granted, per agent, over the clients; `OwnMintInv` fixes what the watermark
  is at each step of the one mint in flight.
- `Ucx_proofs`, the other parts: `BilledWithinWallTime`, `OneStop`, `ReadingFinal` (`SampledInv` says
  what the first needs of the past: what is billed covers no time after the last sample);
  `OverReserveBounded` (the reservations of an agent together with the estimates that were admitted
  and not yet inserted are within one balance per client: a sum over locks and one over clients,
  between which `settle` and the insertion move an amount); `GpuTimeConserved`, from the books of the
  resource meter and of the pool (a total over contributors that shrinks by the daily decay, for
  amounts of either sign and shares that are rounded towards zero).
- `NativeChain_proofs`: type correctness (no balance below zero, whatever blocks arrive),
  `AseConserved`, also for blocks that fail halfway; `NeverHalfway`, `CheckedUnderOwnNonce` and
  `ContractsKept`. The first of the three does not survive a step by itself; `RestValid` says that the
  rest of the block is still valid in the state reached so far, which is where one transaction per
  sender is needed. `CommitOfTheRound`, for any number of callers and names, and calls that overlap in
  any way: `VotingInv` says that whoever is in next_round holds the lock on round, so that the
  precommits counted are those of the round whenever its number can be read (`RoundHeld`), and that a
  number that was read was either passed since, or its votes are the ones that are counted
  (`RoundSeen`).
- `OsoVm_proofs`: `LawsCarried`, `ExecutedWithQuorum`, `VotesStand` of the government (votes on a
  ballot only grow, so the answer QUORUM stored stays true, and a yes behind an executed proposal
  stays, also under a veto; TLC checks one proposal, the proof covers what happens between several);
  `AseAccounted` and `GenesisOnce` of the programs, for any integer amounts; `LossIsReceipted` and
  `SabbathRests` of the blocks (`CoreInv`: the copy a block works on, with what its receipts tell agents
  they keep, accounts for as much as the state it is a copy of, and on a Sabbath differs from it at most
  in `halted`); `AwardedByCouncil` of the wallets (`InheritInv`: the mask of a wallet is for the
  candidate it has now).
- `Safepoint_proofs`: `WorldStopped`, `DisabledMeansNoCollection` and `PagesAgree`, for any number of
  threads, adopted threads, collections and ^C's. The inductive invariant is `TypeOK`, `OneCollector`
  (one thread at most is between winning jl_gc_running and giving it up), `Listed` (who runs is in the
  list the collector reads), `CounterAgrees` (jl_gc_disable_counter counts the threads that disabled
  collections and those being adopted), `NobodyJoins` (nobody is adopted once a collection is
  committed), `PagesAgree`, and `SeenStopped` (a thread that the collector saw stopped has not come
  back, unless it is the master and threw a ^C; who turned the collector off since waits for the end).
  `WorldStopped` needs all of them: that a seen thread stays stopped rests on its page being
  protected, that on the counts, and that there are no others on the counter. For the one exception it
  names, see section 6.
- `TaskScheduler_proofs`: `OneThreadPerTask` and `AsleepMeansSleeping`, for any number of threads and
  tasks. The invariant is `TypeOK`, `WakeupOK`, `Switching` (next and previous are set exactly while a
  thread switches), `Tids` (a task on a thread, or on its way to or from it, has its tid), `Queued`
  (the sticky queue of a thread holds sticky tasks with its tid), `Parked`, and the second property
  itself. Two threads cannot run a task because its tid would have to be both of theirs.
- `Heap_proofs`, in four parts.
  *Marking*: `ZeroMeansDone`, for any number of mark threads and any object graph. `MarkInv` says that
  the count of markers is that of the threads in their loop (`CountRight`), that who holds the lock
  and what is in a queue is accounted for by somebody who is counted (`LockRight`, `QueuesCovered`),
  and that of a marked object everything it refers to is marked, or it waits in a queue or in the
  hands of a marker (`ScannedOrWaiting`).
  *Generations*: `NoDangling` and `FullCollects`, for any finite heap. `GenerationsInv` names a set of
  objects L that is closed under references and has all roots, of which none is freed; between
  collections an old marked object refers to marked ones only, and exactly the objects that were
  marked by the write barrier, and not by a collection, are in the remembered set (`Between`); inside
  a collection that becomes `Amid`. For the second, `PagesCounted`: after a full sweep nobody is marked
  and a page remembers exactly its number of old cells, so that a page that is skipped next time has
  lost none. TLC checked both invariants on the run's instance before they were proved.
  *The queue*: it implements `WorkBag` (`TakenOnce`) and loses nothing (`NothingLost`), for any number
  of thieves and items and any first capacity. The invariant is `QueueTypeOK`, `QueueIndices` (what
  the owner's locals say of top and of `end`, the bottom as it will leave it), `QueueContents` (the
  slots from top to `end` hold what is pending, each item once) and `QueueClaims` (a thief whose top
  is still the top has read, or will read, what is there, also from an array that was grown out of).
  The window never holds more than the array has slots, so that no two of its indices share one: this
  is where the lemmas on remainders are needed, and `ModDouble` for the array of twice the size.
  *Finalizers*: `OnceInOnePlace` and `PendingIsDue`, for any number of threads, objects and entries.
  `FinShape` says who is in which critical section and what its locals can be; `DueInv` why an entry
  is scheduled. `FinSlots` is about the race that the code allows: a list is written by its owner
  without the lock and by finalize under it. It says that what a registering thread has read of its
  list only shrinks, and that the slots between are empty (`Registering`); that whoever is about to
  shorten a list has emptied what it cuts off (`Shortening`); and that what is copied is on its way to
  be run. `OneEach` counts: an entry's weight, over the slots of all lists, the lists of the
  collector, the copy, the batches and the runs that are over, is one from the moment it is
  registered. Each action moves a weight from one summand to another, which needs the lemmas of `Sums`
  and facts about filtered and flattened sequences; these are proved from the recursive functions that
  define them, by `PrefixRecursion`. TLC checked the invariant on a small instance first.
  `OnceUntilExit` has no hypothesis on the code: it holds until the program ends while other threads
  run. From then on it does not (`finalizer_exit`), so `OnceInOnePlaceInvariant`, which covers the end
  too, assumes `~ExitWhileRunning`, as the run does.
- `MethodWorlds_proofs`: `CachesAgree` and `CodeIsCurrent`, for any signatures, callers and graph of
  calls, and any number of definitions, replacements, deletions (of a method that had ended too),
  entries and code instances. Neither speaks of a world into which a deletion has put back a method
  (`rewritten`; see section 6). The invariant is `WorldsInv`. `TableInv`: from the newest world in
  which the table is final (`Settled`) nothing is taken back, and no two methods of one signature are
  there in one world that is not rewritten. `CacheInv` says of an entry what `CachesAgree` does, and
  besides that it has ended before that world or is for all later ones. `CodeInv` says the same of
  code, and that as long as it has not ended, for each answer that it took, of its own site or of a
  callee's, the edges that can end it are in the table (`Known`: in `backedges` and `missing`) and
  lead to its caller, through the callees in between (`LeadsTo`). `InferInv` carries this through an
  inference, whose edges are partly in the table and partly still its own, and `FillInv` keeps what it
  found until that is in the cache. The core of each proof is that what a change of the table
  invalidates is enough: if in the new world a call selects another method than before, then
  `IsReplacing`, `NowCovered` or `Dropped` says so of every edge and entry that relied on the old one.
  Both theorems have two hypotheses. `DispatchRight`: ml_matches answers right to the three questions
  that are asked here, for the tables and types of the instance. It is what `MatchesRight` has TLC check
  of `MlMatches`, for tables larger than those of the run. `~Overlap`: definitions do not come between
  the steps of an inference; `method_race` is what happens otherwise.

Assumptions are those a module names (`ClientsAssumption`, `AddressesAssumption`, `BftSetting`,
`UcxAssumption`, `OsoVmAssumption`, `MarkingAssumption`, `QueueSetting`, `HeapIsFinite`, ...): that
sets of accounts, clients and objects are finite, that amounts and rates are whole numbers, that a
rate takes no more than there is. TLC evaluates them on every run that extends the module. Some
theorems have a hypothesis besides, which the code does not ensure and the theorem states:
`DisjointMints` (no two clients mint for one agent; `toc_double_mint` is what happens otherwise),
`~ExitWhileRunning` (see `finalizer_exit`) and `~Overlap` (see
`method_race`). `DispatchRight` stands for what TLC checks of another module. `NeverHalfway` has its
condition in the property.

Only model-checked, and why:

- liveness, which the prover does not reach: `WaitersResume`, `SigintDelivered`, `TaskRuns`,
  `IoServed`, `RegionHandsBack`, `MarkingEnds` (and `VotesRecorded`, which is violated);
- `MatchesRight`: `MethodMatching` follows the recursion of the code, and a recursive operator takes a
  module, and those that use it, out of the prover's reach; what the recursion computes would need
  induction over data.

## 5. Bounds, fairness, assumptions of the models

Bounds, all named: `MaxTicks`, `MaxSessions`, `MaxTime`, `MaxContributions`, `MaxRecords`,
`MaxNegativeBurns`, `MaxDay`,
`MaxHeight`, `MaxNonce`, `MaxRound`, `MaxBlocks`, `MaxInstructions`, `MaxOfferings`, `MaxNegatives`,
`MaxCollects`, `MaxSigints`, `MaxOps`, `MaxMisses`, `MaxCollections`, `MaxItems`,
`MaxEntries`, `MaxEvents`, `MaxMethods`, `MaxDeletes`, `MaxCode`, `Lag`, `TableSize`. `MaxMisses` is of
misses in a row: the random walk over the heaps of the multiqueue may miss what is there, but not for
ever. Each leaves room
for the case its properties are about: two mints of one agent and a third contribution between them,
a session replaced while sampled, a second block after one that failed, a second round with votes of
the first, an award after the waiting time of an earlier offering, a second collection that finds
what the first one left, a third item in a queue with two slots, a method that is replaced or made
ambiguous and one that resolves the ambiguity. Two clients are enough for every race of the ledgers
because each race is between a check and a use; what grows with the number of clients is stated with
their number and proved (`RepeatOvershootBounded`).

In `runtime_methods` definitions come one at a time and none between the steps of an inference
(`Overlap` is FALSE): that is the case in which the code promises its answers, and `method_race` is
the other. Four methods are enough for two that are ambiguous, one that resolves them and one for
everything; a random exploration with four methods, all seven signatures and larger caches found
nothing else. `CodeIsCurrent` says nothing of a table from which a deletion has taken an ambiguity
(`resolved`): the comment in jl_method_table_invalidate (gf.c:1905) says that there it may introduce
a mistake into inference, and without that exclusion TLC finds it. Code for a call that had too many
matches to follow knows nothing, keeps no edges, and is current whatever comes (`Unknown`). So does
code for a call of which anything may come, any type with all effects (add_call_backedges! returns at
once there): the callers in `Vague` may be inferred so or with their edges.

Fairness.

- `BftConsensus`: strong fairness of each caller's steps inside a call of next_round, add_prevote or
  add_precommit. The locks are `parking_lot::RwLock`s, which are eventually fair: a task that waits for
  one that is free again and again gets it. Nothing is assumed of who calls, or that rounds change. Only
  `bft_deadlock` depends on it, where the fairness is there to show that none would help.
- `Safepoint`: weak fairness of what a thread has begun (waiting, collecting, being adopted), and, for
  the master, of coming to a safepoint and of leaving native code: the operating system runs every
  thread. Strong fairness of `SigatomicEnd`: a sigatomic region ends, however often it is left and
  entered again. Nobody is assumed to collect, to return or to exit, and a thread that has read that no
  collection runs may take any finite time before it stores its state.
- `TaskScheduler`: weak fairness of what the runtime does in each thread (`Runtime`), and strong
  fairness of `LockSpin`: jl_iolock_begin spins on the lock of libuv, and a thread that finds it free
  again and again gets it at some time; the holder lets go of it whenever somebody waits, which only
  helps if the waiter is quick. The code of a task is under no fairness: it may compute for ever,
  inside a threaded region or outside. An operation that was started need not ever complete.
- `GcMark`: weak fairness of each thread of the collector in what it does without being asked to. That
  does not make marking end by itself. The sum of the queue sizes that lets a thread join is read while
  owners pop, and a pop on an empty queue makes it look enormous for a moment (`gc.c:2805-2813`,
  `work-stealing-queue.h:73-83`); so two threads can make each other join for ever although there is
  nothing to do, if each looks just when the other pops. No fairness of the operating system rules that
  out. There is no bound on joins; `MarkingEnds` says that this is the only way for a marking not to
  end (`JoinForNothing` infinitely often), that is, no thread is left waiting and no work is passed
  around for ever.

Elsewhere the properties are safety properties and no fairness is assumed.

Memory is sequentially consistent in all runtime models. The code orders the accesses that are
modelled by acquire and release, fences and sequentially consistent read-modify-writes; whether these
suffice on a weaker memory is not examined here.

What callers do is not in the repository in three places, and the models say so: who calls
`finalize_block` (`ChainState` has a node whose caller does nothing, one that validates, one that also
has a transaction per sender); who calls the voting functions (`BftConsensus` has any number of
callers, who call any of them at any time and under any name; one that wants to know which round a
commit belongs to asks for the round before and after); who debits Synapse after a UCX job
(`UcxPreflight`). `block_time` and `block_height` of a VM are never written by the code; whoever
embeds the VM sets them, so they move freely forward (`Tick`, `AdvanceBlock`). `BadgeHolders` stands
for the badge registry; in this build `has_seven_by_seven_badge` refuses everybody, and no wallet is
ever awarded. `StartTime` is 1: with a clock that stands at 0 an offering leaves `staked_since` at 0,
which means "none yet", and the next one restarts the waiting time.

## 6. Where the code and its words disagree

Shown by a violation run:

- `toc_double_mint`: concurrent mints pay one GPU second twice, though "only the unminted delta is
  issued here" (`oso_vm.jl:2381`).
- `bft_deadlock`: voting and a change of round take the locks on phase and votes in opposite orders.
- `finalizer_exit`: schedule_all_finalizers guards the lists, "threads could still be running"
  (`gc.c:547`), against each other but not against their owners.
- `method_race`: inference widens its code to all later worlds on the strength of a comparison with
  the world counter, and stores it later; a definition takes its world before it takes the lock. The
  same holds of the cache entry that ml_matches makes from worlds it found without the lock
  (`gf.c:3925`), and of two definitions at once, for which the code has assertions ("probable race
  condition", `gf.c:1485`, `gf.c:1663`).

Met while modelling, not shown by a run of their own:

- Two transactions of one sender in a block are both judged against the state before the block, and
  finalize_block compares no nonce: the second is applied under a nonce it was not signed for, though
  the field is "Account nonce (replay protection)" (`state.rs:17`). `NeverHalfway` and
  `CheckedUnderOwnNonce` therefore ask for one transaction per sender. Governance and InheritanceClaim
  transactions carry nonces nobody compares.
- A transfer that fails in `finalize_block` leaves the transactions before it applied.
- Concurrent pre-flights can reserve the same Synapse; by how much is in `OverReserveBounded`.
- The epoch cap and the repeat limit can be passed by concurrent mints; by how much is in
  `toc_shared`. TOC_DECAY lowers a VM's mirror and the next mint undoes it.
- Votes are counted by heads against a threshold of power, under whatever name they are handed in:
  add_prevote and add_precommit do not ask whether it is a validator's, though the fields say "from
  validators" (`consensus.rs:48-51`). A vote carries neither block nor round. One that comes late counts
  for the round that is then current, a second block in a round inherits the precommits of the first,
  and finalizing a block removes none. `CommitOfTheRound` is what is left: the votes of an earlier round
  are not among those counted.
- The GPU pool takes amounts of either sign. A negative burn is granted with nothing in the balance,
  and takes Synapse for GPU units, rounded in the caller's favour: two burns of -9 take no Synapse and
  leave enough for a burn of 10, which pays one. `GpuTimeConserved` says by how much at most: less
  than one Synapse a negative burn.
- AGENT_CONVERT and JOB_PAYMENT accept a negative amount, which TRANSFER, STAKE and UNSTAKE refuse with
  a comment on why; `NoOverdraft` therefore speaks of behaviours without one. The opcodes of
  `vm_core.jl` refuse no negative amount at all. A TRANSFER pays a registered agent.
- A JOB_PAYMENT that the agent guard refuses keeps the sender debited; `AseAccounted` counts that as
  spent (`gone`), and so accounts for the loss rather than objecting to it. A REQUIRE that fails drops
  the rest of its batch only; the program goes on.
- A shrine that is the candidate for two wallets inherits both: the question is asked on applying.
- `vm_core.jl`: `halted` persists and every later block still runs one instruction; the cap on births
  a day never bites, because nothing sets `current_day`; GENESIS_FLAW_TOKEN asks for block 0, which no
  block is.
- The agent's treasury share of a job payment "is NOT burned — it's credited to agent's spendable
  Àṣẹ balance" (`ase_supply.jl:296`), but neither process_job_payment nor op_job_payment
  (`vm_core.jl:395-422`) credits it to any balance: only the receipt tells of it. `LossIsReceipted` says
  that this is all that the modelled opcodes ever take out of the books, and how much it is.
- `GPU_SUPPLY_CAP` is compared with nothing; a UCX ticket whose job dies stays for ever;
  request_toc_mint gives up on an error after the caller has drained the meter; `event_bridge.jl`
  posts to a route the server does not have.
- `abci_endblock.jl` freezes every 10,080th block, which its comment equates with seven days at six
  seconds a block; that is 100,800 blocks.
- The comment on finalizers at `gc.c:406` promises an order among those of one object that
  finalizers registered on different threads do not have.
- jl_method_table_disable (`gf.c:1916-1923`) sets the last world of a method to the present one, also if
  the method had been replaced or deleted before, and Base.delete_method (`reflection.jl:2031`) does not
  ask; its comment says "Narrow the world age on the method to make it uncallable". A second
  deletion puts the method back into worlds that are over: next to the one that replaced it, and behind
  the back of the entries and the code that were found for them. Only a task that still runs in such a
  world sees it. `CachesAgree` and `CodeIsCurrent` speak of all other worlds.
- A master that waits for a collection in the fault handler reads jl_gc_running (`safepoint.c:167`)
  and stores its state later (`julia_internal.h:954-963`). A second collection may begin in between,
  and sees it stopped. With a ^C to deliver the master then does not go back to its safepoint but
  throws (`signals-unix.c:364-373`), and runs Julia code during the collection until it comes to its
  next one. TLC finds this, in 13 steps, as soon as `WorldStopped` does not except it;
  jl_gc_enable(0), asked for in that window, does not return before the collection is over.
- A thread that starts an operation outside a threaded region and goes on computing leaves nobody to
  watch it: the comment at `partr.c:459-465` has the thread itself see to that, which it does when it
  has nothing to run. `IoServed` allows for it.
- The `gf.c:3501` comparison of an earlier result with the method of the call itself, where another
  vertex of an ambiguity cycle is examined (`m` is the outer one), is modelled as it is, and never
  reached: with strict inclusion for `morespecific`, a limited query follows no cycle. What the sort
  does with a cycle under a limit is not examined here.

## 7. What is not modelled, and why

`PROJECT.json` lists every part. Of the platform: the universal work lifecycle, COMPUTE_PROOF, the
agent state and work objects of the Rust crate, the anti-gaming layers, the simulation library, the
GlyphIndex vault, Ase minting and block emission have state and are in the plan. Rites, hospital,
orisa, economy and extended opcodes are registers with a guard or two. Compilers, encoders, Merkle
trees and bridges have no state, or talk to services that are not here. The veils and their simulator
are floating-point numerics. The Move contracts are a system of their own that nothing here calls.

Of the runtime: most of `julia-1.10.5/src` computes rather than coordinates. Code generation, the LLVM
passes and the C++ of intrinsics and calls translate programs, and a property of them would be one of
the meaning of LLVM IR. Subtyping and type intersection search over terms with variables, whose
bounded instances do not show what the unbounded ones do. Serialization, parsing, lowering and
layouts are functions on data without an order of steps. What is left out inside the modelled parts
is named with each component: suspension for backtraces and profiling, streams and processes of
libuv, the heap-size heuristics and page allocation, slurping and free type variables in dispatch,
the union-split branch of find_matching_methods (`abstractinterpretation.jl:234-281`, one question to
the table for each member of a union), the call-site cache of jl_apply_generic, inference in cycles,
precompiled images; the entries of jl_gc_add_quiescent (`gc.c:597`), which the finalizer lists carry but
are not about an object; and a ^C that is forced through by repetition.

Within the platform's modelled parts: root hashes, signatures and the MAC of an anchor are taken as
they come out (verified or not); logs, wording and HTTP shapes are left out; the opcodes of
`vm_core.jl` for memory, governance, lifecycle and Token-of-Compute are not modelled, nor its economic
ones that no supply rule stands behind: ASE_BURN (0xc1), SYNAPSE_ALLOC (0xc2), DOPAMINE_CHECK (0xc4)
and STAKING_LOCK (0xc5).

## 8. Plan

In order of weight. New components that share no state with the modelled ones join a run of their
neighbours through `part`.

1. Code instances and their use: the jl_apply_generic call cache, inference in cycles, and insertion
   of methods and backedges at the load of an image (`staticdata_utils.c`), on top of `MethodWorlds`.
2. `AgentState` and `WorkLifecycle` of the Rust crate, with `work_object.jl` and the VM's universal work
   opcodes: one abstract lifecycle that all three implement. Joins `native_chain`.
3. `ComputeProof` on top of `TocLedger`: receipts overwritten and evaluated more than once, the tier
   gate read on a copy, the notice to Vantage lost or repeated.
4. `AntiSpam` with `AseWallets` (`veilos_antispam.jl`, `ase_minting.jl`): layers that burn before they
   refuse, cap and log without a lock.
5. `GlyphVault`: store, crash, torn line, reopen (a vault that is opened again has the nodes of its
   journal and none of the blobs). `SimLibrary`: resubmission, expiry, counters.
6. The remaining opcodes of the government, then those of the economy that add up balances.
7. Proofs: mutual exclusion of the voting locks when calls overlap.
