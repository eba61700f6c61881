----------------------------- MODULE Safepoint -----------------------------
(***************************************************************************)
(* Stopping the world in the Julia runtime: safepoint.c, the entry and exit *)
(* of jl_gc_collect, jl_gc_enable, the fault handler of signals-unix.c and   *)
(* the adoption of foreign threads.                                         *)
(*                                                                           *)
(* A thread in GC-unsafe state may touch the heap.  It reads its safepoint   *)
(* page now and then, and whenever it leaves a GC-safe region; the page is   *)
(* protected while the collector, or a ^C, wants the thread's attention, and *)
(* the read then faults into a handler that waits for the collector.         *)
(* Page 0 is read where deferred ^C's are delivered, page 1 is the safepoint *)
(* page of the master thread, page 2 that of all others.                    *)
(*                                                                           *)
(* A step is one access of the shared memory, or what one holder of          *)
(* safepoint_lock does to variables that are only used under that lock.      *)
(* Memory is sequentially consistent; the code orders the accesses modelled  *)
(* here by acquire and release, fences and sequentially consistent           *)
(* read-modify-writes.                                                       *)
(***************************************************************************)
EXTENDS Integers, FiniteSets

CONSTANTS
  Native,     \* the threads the runtime started
  Foreign,    \* threads that may enter through jl_adopt_thread
  Master,     \* thread 0
  Nobody,     \* no holder of the lock
  MaxSigints, \* bound: the ^C's of a behaviour
  MaxCollects \* bound: the calls of jl_gc_collect that find the GC enabled

Threads == Native \cup Foreign

ASSUME SafepointAssumption ==
  /\ IsFiniteSet(Threads) /\ Native \cap Foreign = {}
  /\ Master \in Native /\ Nobody \notin Threads
  /\ MaxSigints \in Nat /\ MaxCollects \in Nat

VARIABLES
  pc,                 \* what each thread is about to do
  gc_state,           \* ptls->gc_state: 0 "unsafe", JL_GC_STATE_WAITING, JL_GC_STATE_SAFE
  disable_gc,         \* ptls->disable_gc
  known,              \* the threads in jl_all_tls_states
  jl_gc_running, jl_gc_disable_counter,
  enable_cnt,         \* jl_safepoint_enable_cnt
  signal_pending,     \* jl_signal_pending
  signal_request,     \* the master's signal_request is 2
  defer_signal,       \* the master is in a sigatomic region
  safepoint_lock,     \* who holds it between two steps
  cond_waiters,       \* blocked in uv_cond_wait(&safepoint_cond)
  unseen,             \* the threads the collector has not yet found in a safe state
  sigints, collects   \* (bounds) the ^C's and the calls of jl_gc_collect so far

vars == <<pc, gc_state, disable_gc, known, jl_gc_running, jl_gc_disable_counter, enable_cnt,
          signal_pending, signal_request, defer_signal, safepoint_lock, cond_waiters, unseen, sigints,
          collects>>
collector == <<jl_gc_running, enable_cnt, safepoint_lock, cond_waiters, unseen, collects>>
switches == <<disable_gc, jl_gc_disable_counter, known>>
signals == <<signal_pending, signal_request, defer_signal, sigints>>

page(t) == IF t = Master THEN 1 ELSE 2
protected(p) == enable_cnt[p] > 0
lock_free == safepoint_lock = Nobody

Goto(t, to) == pc' = [pc EXCEPT ![t] = to]
SetState(t, s) == gc_state' = [gc_state EXCEPT ![t] = s]

\* At boot the master runs Julia code, with the GC enabled again.
Init ==
  /\ pc = [t \in Threads |-> IF t \in Native THEN "run" ELSE "outside"]
  /\ gc_state = [t \in Threads |-> "unsafe"]
  /\ disable_gc = [t \in Threads |-> FALSE]
  /\ known = Native
  /\ jl_gc_running = FALSE /\ jl_gc_disable_counter = 0
  /\ enable_cnt = [p \in 0..2 |-> 0]
  /\ signal_pending = 0 /\ signal_request = FALSE /\ defer_signal = FALSE
  /\ safepoint_lock = Nobody /\ cond_waiters = {} /\ unseen = {}
  /\ sigints = 0 /\ collects = 0

-----------------------------------------------------------------------------
(* Threads at their work.                                                   *)

\* In managed code; "thrown" is the master's after a ^C, until it comes to a
\* safepoint.
Running(t) == pc[t] \in {"run", "thrown"} /\ gc_state[t] = "unsafe"

\* jl_gc_safe_enter
EnterSafe(t) ==
  /\ Running(t)
  /\ SetState(t, "safe")
  /\ Goto(t, "run")
  /\ UNCHANGED <<switches, collector, signals>>

\* jl_gc_safe_leave: the state is stored first, the safepoint read after it.
LeaveSafe(t) ==
  /\ pc[t] = "run" /\ gc_state[t] = "safe"
  /\ SetState(t, "unsafe")
  /\ Goto(t, "poll")
  /\ UNCHANGED <<switches, collector, signals>>

\* The safepoint read faults; the handler gives the thread's state away.
Fault(t) ==
  /\ Running(t) \/ pc[t] = "poll"
  /\ protected(page(t))
  /\ SetState(t, "waiting")
  /\ Goto(t, "handler")
  /\ UNCHANGED <<switches, collector, signals>>

\* The safepoint read goes through.
PollPassed(t) ==
  /\ pc[t] \in {"poll", "thrown"}
  /\ ~protected(page(t))
  /\ Goto(t, "run")
  /\ UNCHANGED <<gc_state, switches, collector, signals>>

\* jl_safepoint_wait_gc: under the lock, a collection is still running.
blocks_unasked(t) == lock_free
blocks(t) == lock_free /\ jl_gc_running

Block(t) ==
  /\ pc[t] \in {"handler", "outrun"} /\ t \notin cond_waiters
  /\ blocks(t)
  /\ cond_waiters' = cond_waiters \cup {t}
  /\ UNCHANGED <<pc, gc_state, switches, jl_gc_running, enable_cnt, safepoint_lock, unseen, collects, signals>>

\* jl_gc_running is read clear, and the wait is over ...
WaitOver(t) ==
  /\ pc[t] \in {"handler", "outrun"} /\ t \notin cond_waiters
  /\ ~jl_gc_running
  /\ Goto(t, IF pc[t] = "handler" THEN "handled" ELSE "leaving")
  /\ UNCHANGED <<gc_state, switches, collector, signals>>

\* ... but the state is stored after it, and a collection may begin in between.
\* Then back to the read that faulted, the master after a look at the ^C's.
LeaveHandler(t) ==
  /\ pc[t] = "handled"
  /\ SetState(t, "unsafe")
  /\ Goto(t, IF t = Master THEN "sigint" ELSE "poll")
  /\ UNCHANGED <<switches, collector, signals>>

\* jl_gc_collect returns through a safepoint.
LeaveCollect(t) ==
  /\ pc[t] = "leaving"
  /\ SetState(t, "unsafe")
  /\ Goto(t, "poll")
  /\ UNCHANGED <<switches, collector, signals>>

-----------------------------------------------------------------------------
(* The collector.                                                           *)

\* jl_gc_collect, when the GC is not disabled; it only takes note of the
\* allocation when it is.
Collect(t) ==
  /\ Running(t)
  /\ jl_gc_disable_counter = 0
  /\ collects < MaxCollects /\ collects' = collects + 1
  /\ SetState(t, "waiting")
  /\ Goto(t, "start")
  /\ UNCHANGED <<switches, jl_gc_running, enable_cnt, safepoint_lock, cond_waiters, unseen, signals>>

\* jl_safepoint_start_gc: the first to set jl_gc_running collects ...
WinStart(t) ==
  /\ pc[t] = "start" /\ lock_free
  /\ ~jl_gc_running
  /\ jl_gc_running' = TRUE
  /\ safepoint_lock' = t
  /\ Goto(t, "started")
  /\ UNCHANGED <<gc_state, switches, enable_cnt, cond_waiters, unseen, collects, signals>>

\* ... and the others wait for it to finish.
LoseStart(t) ==
  /\ pc[t] = "start" /\ lock_free
  /\ jl_gc_running
  /\ Goto(t, "outrun")
  /\ UNCHANGED <<gc_state, switches, collector, signals>>

\* The GC was disabled after Collect looked.
disabled_now == jl_gc_disable_counter > 0

BackOut(t) ==
  /\ pc[t] = "started"
  /\ disabled_now
  /\ jl_gc_running' = FALSE
  /\ safepoint_lock' = Nobody
  /\ Goto(t, "leaving")
  /\ UNCHANGED <<gc_state, switches, enable_cnt, cond_waiters, unseen, collects, signals>>

Committed(t) ==
  /\ pc[t] = "started"
  /\ ~disabled_now
  /\ Goto(t, "protect")
  /\ UNCHANGED <<gc_state, switches, collector, signals>>

\* Both pages protected, the lock is dropped.
ProtectPages(t) ==
  /\ pc[t] = "protect"
  /\ enable_cnt' = [enable_cnt EXCEPT ![1] = @ + 1, ![2] = @ + 1]
  /\ safepoint_lock' = Nobody
  /\ Goto(t, "snapshot")
  /\ UNCHANGED <<gc_state, switches, jl_gc_running, cond_waiters, unseen, collects, signals>>

\* gc_n_threads and gc_all_tls_states are read.
Snapshot(t) ==
  /\ pc[t] = "snapshot"
  /\ unseen' = known
  /\ Goto(t, "stopping")
  /\ UNCHANGED <<gc_state, switches, jl_gc_running, enable_cnt, safepoint_lock, cond_waiters, collects, signals>>

\* jl_gc_wait_for_the_world: a thread in any state but unsafe is stopped.
is_stopped(u) == gc_state[u] # "unsafe"

SeeStopped(t, u) ==
  /\ pc[t] = "stopping" /\ u \in unseen
  /\ is_stopped(u)
  /\ unseen' = unseen \ {u}
  /\ UNCHANGED <<pc, gc_state, switches, jl_gc_running, enable_cnt, safepoint_lock, cond_waiters,
                 collects, signals>>

\* The counter is looked at once more before anything is collected.
committed_anyway == TRUE
still_enabled == jl_gc_disable_counter = 0

BeginCollection(t) ==
  /\ pc[t] = "stopping" /\ unseen = {}
  /\ Goto(t, IF still_enabled THEN "collecting" ELSE "collected")
  /\ UNCHANGED <<gc_state, switches, collector, signals>>

\* _jl_gc_collect returns.
EndCollection(t) ==
  /\ pc[t] = "collecting"
  /\ Goto(t, "collected")
  /\ UNCHANGED <<gc_state, switches, collector, signals>>

\* jl_safepoint_end_gc: first the pages, then the flag, then, without the lock,
\* the wakeup.
UnprotectPages(t) ==
  /\ pc[t] = "collected" /\ lock_free
  /\ enable_cnt' = [enable_cnt EXCEPT ![1] = @ - 1, ![2] = @ - 1]
  /\ safepoint_lock' = t
  /\ Goto(t, "unprotected")
  /\ UNCHANGED <<gc_state, switches, jl_gc_running, cond_waiters, unseen, collects, signals>>

ClearRunning(t) ==
  /\ pc[t] = "unprotected"
  /\ jl_gc_running' = FALSE
  /\ safepoint_lock' = Nobody
  /\ Goto(t, "broadcast")
  /\ UNCHANGED <<gc_state, switches, enable_cnt, cond_waiters, unseen, collects, signals>>

woken == cond_waiters

Broadcast(t) ==
  /\ pc[t] = "broadcast"
  /\ cond_waiters' = cond_waiters \ woken
  /\ Goto(t, "leaving")
  /\ UNCHANGED <<gc_state, switches, jl_gc_running, enable_cnt, safepoint_lock, unseen, collects, signals>>

-----------------------------------------------------------------------------
(* Turning the collector off and on.                                        *)

\* jl_gc_enable(0): count, then read the safepoint.
GcDisable(t) ==
  /\ Running(t) /\ ~disable_gc[t]
  /\ disable_gc' = [disable_gc EXCEPT ![t] = TRUE]
  /\ jl_gc_disable_counter' = jl_gc_disable_counter + 1
  /\ Goto(t, "poll")
  /\ UNCHANGED <<gc_state, known, collector, signals>>

\* jl_gc_enable(1)
GcEnable(t) ==
  /\ Running(t) /\ disable_gc[t]
  /\ disable_gc' = [disable_gc EXCEPT ![t] = FALSE]
  /\ jl_gc_disable_counter' = jl_gc_disable_counter - 1
  /\ UNCHANGED <<pc, gc_state, known, collector, signals>>

\* jl_adopt_thread: count, wait for a running collection, join, uncount.
Adopt(t) ==
  /\ pc[t] = "outside"
  /\ jl_gc_disable_counter' = jl_gc_disable_counter + 1
  /\ Goto(t, "adopt")
  /\ UNCHANGED <<gc_state, disable_gc, known, collector, signals>>

may_join_at_once == TRUE
may_join == ~jl_gc_running

AdoptMayJoin(t) ==
  /\ pc[t] = "adopt"
  /\ may_join
  /\ Goto(t, "join")
  /\ UNCHANGED <<gc_state, switches, collector, signals>>

\* jl_init_threadtls and jl_init_root_task, which allocates.
Join(t) ==
  /\ pc[t] = "join"
  /\ known' = known \cup {t}
  /\ SetState(t, "unsafe")
  /\ Goto(t, "joined")
  /\ UNCHANGED <<disable_gc, jl_gc_disable_counter, collector, signals>>

Adopted(t) ==
  /\ pc[t] = "joined"
  /\ jl_gc_disable_counter' = jl_gc_disable_counter - 1
  /\ Goto(t, "run")
  /\ UNCHANGED <<gc_state, disable_gc, known, collector, signals>>

\* jl_delete_thread: an adopted thread leaves an unsafe region and parks.
Exit(t) ==
  /\ t \in Foreign /\ Running(t) /\ ~disable_gc[t]
  /\ SetState(t, "safe")
  /\ Goto(t, "exited")
  /\ UNCHANGED <<switches, collector, signals>>

-----------------------------------------------------------------------------
(* ^C, which the signal thread passes to the master.                        *)

\* jl_try_deliver_sigint: jl_safepoint_enable_sigint, then SIGUSR2.
Sigint ==
  /\ sigints < MaxSigints /\ lock_free
  /\ sigints' = sigints + 1
  /\ enable_cnt' = [enable_cnt EXCEPT ![0] = IF signal_pending = 0 THEN @ + 1 ELSE @,
                                      ![1] = IF signal_pending < 2 THEN @ + 1 ELSE @]
  /\ signal_pending' = 2 /\ signal_request' = TRUE
  /\ UNCHANGED <<pc, gc_state, switches, jl_gc_running, safepoint_lock, cond_waiters, unseen, collects,
                 defer_signal>>

\* jl_safepoint_consume_sigint
Consume ==
  /\ enable_cnt' = [enable_cnt EXCEPT ![0] = IF signal_pending > 0 THEN @ - 1 ELSE @,
                                      ![1] = IF signal_pending = 2 THEN @ - 1 ELSE @]
  /\ signal_pending' = 0

\* jl_safepoint_defer_sigint: page 0 stays protected for the end of the region.
DeferKeepsPage ==
  /\ enable_cnt' = enable_cnt
  /\ signal_pending' = IF signal_pending = 2 THEN 1 ELSE signal_pending

Defer ==
  /\ enable_cnt' = [enable_cnt EXCEPT ![1] = IF signal_pending = 2 THEN @ - 1 ELSE @]
  /\ signal_pending' = IF signal_pending = 2 THEN 1 ELSE signal_pending

\* The end of the fault handler, on the master.  With a ^C to deliver it does not go
\* back to its safepoint: it throws, and catches, without another.
HandleSigint ==
  /\ pc[Master] = "sigint" /\ lock_free
  /\ IF defer_signal THEN Defer ELSE Consume
  /\ Goto(Master, IF ~defer_signal /\ signal_pending > 0 THEN "thrown" ELSE "poll")
  /\ UNCHANGED <<gc_state, switches, jl_gc_running, safepoint_lock, cond_waiters, unseen, collects,
                 signal_request, defer_signal, sigints>>

\* SIGUSR2 reaches the master: it throws out of a wait for I/O, from a safe state
\* through a safepoint; elsewhere the request is only taken back.
Usr2 ==
  /\ signal_request
  /\ signal_request' = FALSE
  /\ \/ /\ Running(Master) \/ (pc[Master] = "run" /\ gc_state[Master] = "safe")
        /\ ~defer_signal /\ lock_free
        /\ Consume
        /\ SetState(Master, "unsafe")
        /\ Goto(Master, IF gc_state[Master] = "safe" THEN "poll" ELSE pc[Master])
     \/ UNCHANGED <<pc, gc_state, enable_cnt, signal_pending>>
  /\ UNCHANGED <<switches, jl_gc_running, safepoint_lock, cond_waiters, unseen, collects, defer_signal,
                 sigints>>

SigatomicBegin ==
  /\ Running(Master) /\ ~defer_signal
  /\ defer_signal' = TRUE
  /\ UNCHANGED <<pc, gc_state, switches, collector, signal_pending, signal_request, sigints>>

\* JL_SIGATOMIC_END reads page 0: protected, it faults like a safepoint.
region_end_gc_page == protected(page(Master))
region_end_faults == protected(0)

SigatomicEnd ==
  /\ Running(Master) /\ defer_signal
  /\ defer_signal' = FALSE
  /\ IF region_end_faults
     THEN SetState(Master, "waiting") /\ Goto(Master, "handler")
     ELSE UNCHANGED <<pc, gc_state>>
  /\ UNCHANGED <<switches, collector, signal_pending, signal_request, sigints>>

-----------------------------------------------------------------------------

Works(t) == EnterSafe(t) \/ LeaveSafe(t) \/ GcDisable(t) \/ GcEnable(t) \/ Adopt(t) \/ Exit(t)
Waits(t) == Fault(t) \/ PollPassed(t) \/ Block(t) \/ WaitOver(t) \/ LeaveHandler(t) \/ LeaveCollect(t)
Collects(t) ==
  \/ WinStart(t) \/ LoseStart(t) \/ BackOut(t) \/ Committed(t) \/ ProtectPages(t) \/ Snapshot(t)
  \/ \E u \in Threads : SeeStopped(t, u)
  \/ BeginCollection(t) \/ EndCollection(t)
  \/ UnprotectPages(t) \/ ClearRunning(t) \/ Broadcast(t)
Adopts(t) == AdoptMayJoin(t) \/ Join(t) \/ Adopted(t)

Next ==
  \/ \E t \in Threads : Works(t) \/ Waits(t) \/ Collect(t) \/ Collects(t) \/ Adopts(t)
  \/ Sigint \/ HandleSigint \/ Usr2 \/ SigatomicBegin \/ SigatomicEnd

Spec == Init /\ [][Next]_vars

\* What a thread does without being asked to: it goes on with what it has begun,
\* and in managed code it comes to a safepoint; the master also ends its wait.
\* No thread has to collect, to return, or to leave.
Duty(t) ==
  \/ Waits(t) \/ Collects(t) \/ Adopts(t)
  \/ t = Master /\ (HandleSigint \/ LeaveSafe(t))

\* The operating system runs every thread, and a sigatomic region ends.
Fairness == SF_vars(SigatomicEnd) /\ \A t \in Threads : WF_vars(Duty(t))

FairSpec == Spec /\ Fairness

-----------------------------------------------------------------------------

Steps == {"outside", "run", "poll", "handler", "handled", "sigint", "thrown", "outrun", "leaving", "start", "started", "protect",
          "snapshot", "stopping", "collecting", "collected", "unprotected", "broadcast",
          "adopt", "join", "joined", "exited"}

TypeOK ==
  /\ pc \in [Threads -> Steps]
  /\ \A t \in Threads \ {Master} : pc[t] \notin {"sigint", "thrown"}
  /\ gc_state \in [Threads -> {"unsafe", "waiting", "safe"}]
  /\ disable_gc \in [Threads -> BOOLEAN]
  /\ known \subseteq Threads /\ unseen \subseteq Threads /\ cond_waiters \subseteq Threads
  /\ jl_gc_running \in BOOLEAN
  /\ jl_gc_disable_counter \in Int
  /\ enable_cnt \in [0..2 -> Int]
  /\ signal_pending \in 0..2 /\ signal_request \in BOOLEAN /\ defer_signal \in BOOLEAN
  /\ safepoint_lock \in Threads \cup {Nobody}

\* May use the heap: runs managed code, or sets up its root task.
TouchesHeap(t) == Running(t) \/ pc[t] \in {"join", "joined"}

\* While one thread marks and sweeps, no thread touches the heap, whether it
\* came back from native code, lost the race to collect, or was just adopted:
\* but for a master that has thrown a ^C out of the fault handler.  It may have
\* been seen waiting by a collection that began after its own look at
\* jl_gc_running, and it meets no safepoint on its way.
WorldStopped ==
  \A t \in Threads : pc[t] = "collecting" =>
    \A u \in Threads : TouchesHeap(u) => u = Master /\ pc[u] = "thrown"

\* No collection while a thread has the GC disabled, though the collector may
\* have committed itself, and protected the pages, before the thread asked; nor
\* while a foreign thread sets itself up.  Such a master may still ask during a
\* collection; jl_gc_enable(0) then returns after it.
DisabledMeansNoCollection ==
  \A t \in Threads : pc[t] = "collecting" =>
    \A u \in Threads : /\ pc[u] \notin {"join", "joined"}
                       /\ disable_gc[u] => u = Master /\ pc[u] \in {"poll", "handler"}

\* Between the protection of the pages and its end.
has_pages(t) == pc[t] \in {"snapshot", "stopping", "collecting", "collected"}
collections == IF \E t \in Threads : has_pages(t) THEN 1 ELSE 0

\* Each page is protected once for every reason to protect it and for no other:
\* a collection, a ^C that is pending, one that is pending and not deferred.
PagesAgree ==
  /\ enable_cnt[0] = IF signal_pending > 0 THEN 1 ELSE 0
  /\ enable_cnt[1] = collections + (IF signal_pending = 2 THEN 1 ELSE 0)
  /\ enable_cnt[2] = collections

waits(t) == pc[t] \in {"handler", "outrun", "start", "adopt"}

\* No wakeup is lost: the threads that wait for the collector, to collect or to be
\* adopted all come back to their work once there are no more collections.
WaitersResume == (\E t \in Threads : waits(t)) ~> (\A t \in Threads : ~waits(t))

\* A ^C is delivered: the master throws, at once, out of its wait, or when its
\* sigatomic region ends.
SigintDelivered == signal_pending > 0 ~> signal_pending = 0

=============================================================================
