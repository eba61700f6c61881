--------------------------- MODULE TaskScheduler ---------------------------
(***************************************************************************)
(* How the threads of the Julia runtime find their next task and sleep when *)
(* there is none (partr.c, task.c, jl_uv.c, with the queues of              *)
(* base/task.jl and base/partr.jl).                                         *)
(*                                                                           *)
(* A thread that has nothing to do stays on the stack of the task that      *)
(* waited, announces that it may sleep, looks once more, and then either    *)
(* watches the event loop of libuv or waits for a signal of its own.  A     *)
(* task that was taken off its thread may run anywhere unless it is sticky; *)
(* its tid is what keeps two threads from running it at once.               *)
(*                                                                           *)
(* Memory is sequentially consistent: the fences [^store_buffering_1] and   *)
(* [^store_buffering_2] are there to make it so.  wait_empty (the end of    *)
(* the program) and manual yieldto are left out.                            *)
(***************************************************************************)
EXTENDS Integers, Sequences, FiniteSets

CONSTANTS
  nthreads,    \* the threads are 0 .. nthreads - 1
  Tasks,
  Root,        \* the root task of each thread, sticky
  MaxOps,      \* bound: what running tasks do besides waiting and ending
  MaxMisses,   \* bound: random looks in a row that miss what is in the multiqueue
  NoTask

Threads == 0..nthreads - 1
Sticky == {Root[th] : th \in Threads}

ASSUME TaskAssumption ==
  /\ nthreads \in Nat \ {0} /\ NoTask \notin Tasks
  /\ Root \in [Threads -> Tasks]
  /\ \A a, c \in Threads : Root[a] = Root[c] => a = c

VARIABLES
  pc, ret,        \* where a thread is, and where it returns to after a call
  current,        \* ptls->current_task
  next, previous, \* ptls->next_task, ptls->previous_task
  tid,            \* task->tid, -1 when any thread may run it
  life,           \* what a task is doing: "waiting", "queued", "running", "done"
  workqueue,      \* StickyWorkqueue of each thread
  multiq,         \* the multiqueue
  sleep_check_state,
  signalable,     \* the threads in uv_cond_wait(&wake_signal)
  wk,             \* locals of jl_wakeup_thread
  uv_owner, jl_uv_n_waiters,
  async_pending,  \* signal_async was sent and its callback has not run
  _threadedregion,
  regions,        \* history: the tasks that are between entering and leaving a threaded region
  handover,       \* history: the last region was left with an operation complete, not yet delivered
  enter_eventloop, active, start_cycles,  \* locals of jl_task_get_next
  io, io_task,    \* the one event source: "none", "active", "ready"; who waits for it
  ops, misses

running == <<current, next, previous, tid, life>>
queues == <<workqueue, multiq>>
announce == <<sleep_check_state, signalable>>
region == <<_threadedregion, regions, handover>>
uv == <<uv_owner, jl_uv_n_waiters, async_pending, region>>
locals == <<enter_eventloop, active, start_cycles>>
events == <<io, io_task>>
counts == <<ops, misses>>
vars == <<pc, ret, running, queues, announce, wk, uv, locals, events, counts>>

Goto(th, to) == pc' = [pc EXCEPT ![th] = to]
Call(th, to, back) == Goto(th, to) /\ ret' = [ret EXCEPT ![th] = back]
Return(th) == Goto(th, ret[th]) /\ ret' = [ret EXCEPT ![th] = "run"]
SetSleep(th, s) == sleep_check_state' = [sleep_check_state EXCEPT ![th] = s]
may_sleep(th) == sleep_check_state[th] = "sleeping"

NoWakeup == [whom |-> -1, todo |-> {}, other |-> -1, slept |-> FALSE, task |-> NoTask]

Init ==
  /\ pc = [th \in Threads |-> IF th = 0 THEN "run" ELSE "try"]
  /\ ret = [th \in Threads |-> "run"]
  /\ current = Root
  /\ next = [th \in Threads |-> NoTask] /\ previous = [th \in Threads |-> NoTask]
  /\ tid = [t \in Tasks |-> IF t \in Sticky THEN CHOOSE th \in Threads : Root[th] = t ELSE -1]
  /\ life = [t \in Tasks |-> IF t = Root[0] THEN "running" ELSE "waiting"]
  /\ workqueue = [th \in Threads |-> << >>] /\ multiq = {}
  /\ sleep_check_state = [th \in Threads |-> "not_sleeping"] /\ signalable = {}
  /\ wk = [th \in Threads |-> NoWakeup]
  /\ uv_owner = NoTask /\ jl_uv_n_waiters = 0 /\ async_pending = FALSE
  /\ _threadedregion = 0 /\ regions = {} /\ handover = FALSE
  /\ enter_eventloop = [th \in Threads |-> FALSE] /\ active = [th \in Threads |-> FALSE]
  /\ start_cycles = [th \in Threads |-> FALSE]
  /\ io = "none" /\ io_task = NoTask
  /\ ops = 0 /\ misses = 0

-----------------------------------------------------------------------------
(* jl_wakeup_thread and enq_work.  In `wk`: whom it was called for (-1 for   *)
(* anybody), who is still to be looked at, the thread that is being woken,   *)
(* whether anybody slept, and the task that thread was running.              *)

StartWakeup(th, whom) ==
  wk' = [wk EXCEPT ![th] = [NoWakeup EXCEPT !.whom = whom,
                                            !.todo = IF whom = -1 THEN Threads ELSE {whom}]]

\* Task `t` goes into the queue of its thread, or into the multiqueue.
Enqueue(th, t) ==
  /\ life' = [life EXCEPT ![t] = "queued"]
  /\ IF t \in Sticky
     THEN workqueue' = [workqueue EXCEPT ![tid[t]] = Append(@, t)] /\ UNCHANGED multiq
     ELSE multiq' = multiq \cup {t} /\ UNCHANGED workqueue
  /\ StartWakeup(th, IF t \in Sticky THEN tid[t] ELSE -1)

\* What is known of a thread that is awake, of one that has announced its sleep, and
\* of the same one when it was signalled.
awake(w, other) == [w EXCEPT !.todo = @ \ {other}]
asleep(w, other) == [w EXCEPT !.todo = @ \ {other}, !.slept = TRUE, !.other = other]
signalled(w, t) == [w EXCEPT !.task = t, !.other = -1]

\* The caller is awake already, and may find the task itself.
WakeSelf(th) ==
  /\ pc[th] = "wakeup" /\ th \in wk[th].todo
  /\ SetSleep(th, "not_sleeping")
  /\ wk' = [wk EXCEPT ![th] = awake(wk[th], th)]
  /\ UNCHANGED <<pc, ret, running, queues, signalable, uv, locals, events, counts>>

\* wake_thread: the state of the other thread is exchanged first ...
announced_peek(other) == other \in signalable
announced(other) == may_sleep(other)

WakeThread(th, other) ==
  /\ pc[th] = "wakeup" /\ th \notin wk[th].todo /\ other \in wk[th].todo
  /\ IF announced(other)
     THEN /\ SetSleep(other, "not_sleeping")
          /\ wk' = [wk EXCEPT ![th] = asleep(wk[th], other)]
          /\ Goto(th, "signal")
     ELSE /\ wk' = [wk EXCEPT ![th] = awake(wk[th], other)]
          /\ UNCHANGED <<pc, sleep_check_state>>
  /\ UNCHANGED <<ret, running, queues, signalable, uv, locals, events, counts>>

\* ... and then it is signalled, under its sleep_lock.
Signal(th) ==
  /\ pc[th] = "signal"
  /\ signalable' = signalable \ {wk[th].other}
  /\ wk' = [wk EXCEPT ![th] = signalled(wk[th], current[wk[th].other])]
  /\ Goto(th, "wakeup")
  /\ UNCHANGED <<ret, running, queues, sleep_check_state, uv, locals, events, counts>>

\* Who was asleep may be in uv_run rather than wait for the signal.
may_watch(th) == IF wk[th].whom = -1 THEN uv_owner # NoTask ELSE uv_owner = wk[th].task

kick(th) == wk[th].slept /\ uv_owner # current[th] /\ may_watch(th)

WakeLibuv(th) ==
  /\ pc[th] = "wakeup" /\ wk[th].todo = {}
  /\ async_pending' = (async_pending \/ kick(th))
  /\ wk' = [wk EXCEPT ![th] = NoWakeup]
  /\ Return(th)
  /\ UNCHANGED <<running, queues, announce, uv_owner, jl_uv_n_waiters,
                 region, locals, events, counts>>

-----------------------------------------------------------------------------
(* JL_UV_LOCK                                                               *)

LockFree(th) ==
  /\ pc[th] = "uvlock" /\ uv_owner = NoTask
  /\ uv_owner' = current[th]
  /\ Return(th)
  /\ UNCHANGED <<running, queues, announce, wk, jl_uv_n_waiters, async_pending,
                 region, locals, events, counts>>

\* Whoever holds it may be in uv_run: the waiter counts itself, then kicks the loop.
LockTaken(th) ==
  /\ pc[th] = "uvlock" /\ uv_owner # NoTask
  /\ jl_uv_n_waiters' = jl_uv_n_waiters + 1
  /\ Goto(th, "uvkick")
  /\ UNCHANGED <<ret, running, queues, announce, wk, uv_owner, async_pending,
                 region, locals, events, counts>>

LockKick(th) ==
  /\ pc[th] = "uvkick"
  /\ async_pending' = TRUE
  /\ Goto(th, "uvspin")
  /\ UNCHANGED <<ret, running, queues, announce, wk, uv_owner, jl_uv_n_waiters,
                 region, locals, events, counts>>

LockSpin(th) ==
  /\ pc[th] = "uvspin" /\ uv_owner = NoTask
  /\ uv_owner' = current[th]
  /\ Goto(th, "uvgot")
  /\ UNCHANGED <<ret, running, queues, announce, wk, jl_uv_n_waiters, async_pending,
                 region, locals, events, counts>>

LockGot(th) ==
  /\ pc[th] = "uvgot"
  /\ jl_uv_n_waiters' = jl_uv_n_waiters - 1
  /\ Return(th)
  /\ UNCHANGED <<running, queues, announce, wk, uv_owner, async_pending,
                 region, locals, events, counts>>

-----------------------------------------------------------------------------
(* What a running task does.                                                *)

\* schedule(u): `u` is a task that waits, or has never run.
Schedule(th, u) ==
  /\ pc[th] = "run" /\ ops < MaxOps
  /\ life[u] = "waiting" /\ u # io_task
  /\ Enqueue(th, u) /\ Call(th, "wakeup", "run")
  /\ ops' = ops + 1
  /\ UNCHANGED <<current, next, previous, tid, announce, uv, locals, events, misses>>

\* yield(): the task queues itself.
Yield(th) ==
  /\ pc[th] = "run" /\ ops < MaxOps /\ current[th] \notin regions
  /\ Enqueue(th, current[th]) /\ Call(th, "wakeup", "try")
  /\ ops' = ops + 1
  /\ UNCHANGED <<current, next, previous, tid, announce, uv, locals, events, misses>>

\* wait(): somebody else will have to schedule it.
Wait(th) ==
  /\ pc[th] = "run"
  /\ life' = [life EXCEPT ![current[th]] = "waiting"]
  /\ Goto(th, "try")
  /\ UNCHANGED <<ret, current, next, previous, tid, queues, announce, wk, uv, locals, events,
                 counts>>

\* jl_finish_task
Finish(th) ==
  /\ pc[th] = "run" /\ current[th] \notin Sticky \cup regions
  /\ life' = [life EXCEPT ![current[th]] = "done"]
  /\ Goto(th, "try")
  /\ UNCHANGED <<ret, current, next, previous, tid, queues, announce, wk, uv, locals, events,
                 counts>>

\* A task starts an operation on the event source, under the lock, and waits for it.
BeginIo(th) ==
  /\ pc[th] = "run" /\ ops < MaxOps /\ io_task = NoTask /\ current[th] \notin regions
  /\ Call(th, "uvlock", "io")
  /\ ops' = ops + 1
  /\ UNCHANGED <<running, queues, announce, wk, uv, locals, events, misses>>

StartIo(th) ==
  /\ pc[th] = "io"
  /\ IF io_task = NoTask
     THEN /\ io' = "active" /\ io_task' = current[th]
          /\ life' = [life EXCEPT ![current[th]] = "waiting"]
          /\ Goto(th, "try")
     ELSE Goto(th, "run") /\ UNCHANGED <<events, life>>
  /\ uv_owner' = NoTask
  /\ UNCHANGED <<ret, current, next, previous, tid, queues, announce, wk, jl_uv_n_waiters,
                 async_pending, region, locals, counts>>

\* threading_run: any task on any thread, and so nested.  The task that enters leaves,
\* and only schedules and waits in between.
EnterThreadedRegion(th) ==
  /\ pc[th] = "run" /\ ops < MaxOps /\ current[th] \notin regions
  /\ _threadedregion' = _threadedregion + 1
  /\ regions' = regions \cup {current[th]}
  /\ handover' = FALSE
  /\ ops' = ops + 1
  /\ UNCHANGED <<pc, ret, running, queues, announce, wk, uv_owner, jl_uv_n_waiters,
                 async_pending, locals, events, misses>>

\* jl_exit_threaded_region: the last one takes the lock once, and wakes thread 0.
ExitThreadedRegion(th) ==
  /\ pc[th] = "run" /\ current[th] \in regions
  /\ _threadedregion' = _threadedregion - 1
  /\ regions' = regions \ {current[th]} /\ UNCHANGED handover
  /\ IF _threadedregion = 1 THEN Call(th, "uvlock", "region") ELSE UNCHANGED <<pc, ret>>
  /\ UNCHANGED <<running, queues, announce, wk, uv_owner, jl_uv_n_waiters, async_pending,
                 locals, events, counts>>

wakes_itself(th) == StartWakeup(th, th)
wakes_thread_0(th) == StartWakeup(th, 0)

LeftRegion(th) ==
  /\ pc[th] = "region"
  /\ uv_owner' = NoTask
  /\ handover' = (io = "ready" /\ _threadedregion = 0)
  /\ wakes_thread_0(th) /\ Call(th, "wakeup", "run")
  /\ UNCHANGED <<running, queues, announce, jl_uv_n_waiters, async_pending, _threadedregion,
                 regions, locals, events, counts>>

-----------------------------------------------------------------------------
(* jl_task_get_next                                                         *)

\* trypoptask, on thread `th`: its own queue, then a task of the multiqueue whose tid
\* it can take.
tid_free_any(t, th) == TRUE
tid_free(t, th) == tid[t] \in {-1, th}

Take(th, t) ==
  /\ next' = [next EXCEPT ![th] = t]
  /\ tid' = [tid EXCEPT ![t] = th]
  /\ Goto(th, "switch")
  /\ UNCHANGED <<ret, current, previous, life, signalable, wk, uv, locals, events, ops>>

TakeSticky(th) ==
  /\ workqueue[th] # << >>
  /\ workqueue' = [workqueue EXCEPT ![th] = Tail(@)]
  /\ Take(th, Head(workqueue[th]))
  /\ UNCHANGED <<multiq, misses>>

TakeMulti(th) ==
  /\ workqueue[th] = << >>
  /\ \E t \in multiq :
       tid_free(t, th) /\ Take(th, t) /\ multiq' = multiq \ {t}
  /\ misses' = 0
  /\ UNCHANGED workqueue

GetNextTask(th) ==
  /\ pc[th] = "try"
  /\ TakeSticky(th) \/ TakeMulti(th)
  /\ UNCHANGED sleep_check_state

\* The random walk over the heaps finds nothing, or misses what there is.
FoundNothing(th, at, to) ==
  /\ pc[th] = at /\ workqueue[th] = << >>
  /\ misses' = IF multiq = {} THEN misses ELSE misses + 1
  /\ misses' <= MaxMisses
  /\ Goto(th, to)
  /\ UNCHANGED <<ret, running, queues, announce, wk, uv, locals, events, ops>>

TryNothing(th) == FoundNothing(th, "try", "look")

\* multiq_check_empty, and the threshold: nothing was found twice in a row.
no_spin(th) == th = 0 /\ _threadedregion = 0

Look(th) ==
  /\ pc[th] = "look"
  /\ \/ /\ multiq # {}
        /\ start_cycles' = [start_cycles EXCEPT ![th] = FALSE]
        /\ Goto(th, "try")
     \/ /\ multiq = {} /\ (start_cycles[th] \/ no_spin(th))
        /\ start_cycles' = [start_cycles EXCEPT ![th] = FALSE]
        /\ Goto(th, "announce")
     \/ /\ multiq = {} /\ ~start_cycles[th] /\ ~no_spin(th)
        /\ start_cycles' = [start_cycles EXCEPT ![th] = TRUE]
        /\ Goto(th, "poll")
  /\ UNCHANGED <<ret, running, queues, announce, wk, uv, enter_eventloop, active, events, counts>>

\* jl_process_events
Poll(th) ==
  /\ pc[th] = "poll"
  /\ IF (_threadedregion > 0 \/ th = 0) /\ jl_uv_n_waiters = 0 /\ uv_owner = NoTask
     THEN uv_owner' = current[th] /\ Goto(th, "nowait")
     ELSE Goto(th, "try") /\ UNCHANGED uv_owner
  /\ UNCHANGED <<ret, running, queues, announce, wk, jl_uv_n_waiters, async_pending,
                 region, locals, events, counts>>

Announce(th) ==
  /\ pc[th] = "announce"
  /\ SetSleep(th, "sleeping")
  /\ Goto(th, "recheck")
  /\ UNCHANGED <<ret, running, queues, signalable, wk, uv, locals, events, counts>>

\* After the announcement the queues are looked at once more: the multiqueue, then all.
Recheck(th) ==
  /\ pc[th] = "recheck"
  /\ IF multiq # {} THEN SetSleep(th, "not_sleeping") /\ Goto(th, "try")
                    ELSE Goto(th, "again") /\ UNCHANGED sleep_check_state
  /\ UNCHANGED <<ret, running, queues, signalable, wk, uv, locals, events, counts>>

GetNextTaskAgain(th) ==
  /\ pc[th] = "again"
  /\ TakeSticky(th) \/ TakeMulti(th)
  /\ SetSleep(th, "not_sleeping")

AgainNothing(th) == FoundNothing(th, "again", "idle")

nobody_watches_never == FALSE
nobody_watches == uv_owner = NoTask

\* Who watches the event loop: in a threaded region the thread that gets the lock,
\* otherwise thread 0; any other makes sure that thread 0 goes and watches.
Idle(th) ==
  /\ pc[th] = "idle"
  /\ IF _threadedregion = 0 /\ th = 0
     THEN Call(th, "uvlock", "watch")
     ELSE Goto(th, IF _threadedregion > 0 THEN "trylock" ELSE "ask") /\ UNCHANGED ret
  /\ UNCHANGED <<running, queues, announce, wk, uv, locals, events, counts>>

TryWatch(th) ==
  /\ pc[th] = "trylock"
  /\ IF uv_owner = NoTask THEN uv_owner' = current[th] /\ Goto(th, "watch")
                          ELSE Goto(th, "park") /\ UNCHANGED uv_owner
  /\ UNCHANGED <<ret, running, queues, announce, wk, jl_uv_n_waiters, async_pending, region,
                 locals, events, counts>>

AskThread0(th) ==
  /\ pc[th] = "ask"
  /\ IF nobody_watches THEN StartWakeup(th, 0) /\ Call(th, "wakeup", "park")
                       ELSE Goto(th, "park") /\ UNCHANGED <<ret, wk>>
  /\ UNCHANGED <<running, queues, announce, uv, locals, events, counts>>

\* With the lock: it may have been woken meanwhile, or somebody may need the lock.
Watch(th) ==
  /\ pc[th] = "watch"
  /\ enter_eventloop' = [enter_eventloop EXCEPT ![th] = may_sleep(th)]
  /\ Goto(th, "waiters")
  /\ UNCHANGED <<ret, running, queues, announce, wk, uv, active, start_cycles, events, counts>>

yields_to_waiters(th) == enter_eventloop[th] /\ jl_uv_n_waiters = 0

Waiters(th) ==
  /\ pc[th] = "waiters"
  /\ enter_eventloop' = [enter_eventloop EXCEPT ![th] = yields_to_waiters(th)]
  /\ Goto(th, IF yields_to_waiters(th) THEN "once" ELSE "unlock")
  /\ UNCHANGED <<ret, running, queues, announce, wk, uv, active, start_cycles, events, counts>>

\* uv_run(UV_RUN_ONCE): nothing keeps the loop alive, and it returns at once ...
RunNotAlive(th) ==
  /\ pc[th] = "once" /\ io = "none"
  /\ Goto(th, "unlock")
  /\ UNCHANGED <<ret, running, queues, announce, wk, uv, locals, events, counts>>

\* ... or it waits until it is kicked ...
RunKicked(th) ==
  /\ \/ pc[th] = "once" /\ io # "none" /\ async_pending
     \/ pc[th] = "nowait" /\ io # "ready"
  /\ async_pending' = FALSE
  /\ active' = [active EXCEPT ![th] = pc[th] = "once"]
  /\ Goto(th, IF pc[th] = "once" THEN "unlock" ELSE "polled")
  /\ UNCHANGED <<ret, running, queues, announce, wk, uv_owner, jl_uv_n_waiters,
                 region, enter_eventloop, start_cycles, events, counts>>

\* ... or the source is ready, and the callback schedules the task that waits for it.
RunCallback(th) ==
  /\ pc[th] \in {"once", "nowait"} /\ io = "ready"
  /\ io' = "none" /\ io_task' = NoTask
  /\ Enqueue(th, io_task)
  /\ Call(th, "wakeup", IF pc[th] = "once" THEN "unlock" ELSE "polled")
  /\ async_pending' \in {async_pending, FALSE}
  /\ handover' = FALSE
  /\ UNCHANGED <<current, next, previous, tid, announce, uv_owner, jl_uv_n_waiters,
                 _threadedregion, regions, locals, counts>>

Polled(th) ==
  /\ pc[th] = "polled"
  /\ uv_owner' = NoTask
  /\ Goto(th, "try")
  /\ UNCHANGED <<ret, running, queues, announce, wk, jl_uv_n_waiters, async_pending,
                 region, locals, events, counts>>

UvUnlock(th) ==
  /\ pc[th] = "unlock"
  /\ uv_owner' = NoTask
  /\ Goto(th, IF active[th] THEN "try" ELSE "unwatched")
  /\ active' = [active EXCEPT ![th] = FALSE]
  /\ enter_eventloop' = [enter_eventloop EXCEPT ![th] = @ /\ ~active[th]]
  /\ UNCHANGED <<ret, running, queues, announce, wk, jl_uv_n_waiters, async_pending,
                 region, start_cycles, events, counts>>

\* Thread 0 stays alive outside of a threaded region; the others go to sleep.
Unwatched(th) ==
  /\ pc[th] = "unwatched"
  /\ IF may_sleep(th) /\ ~enter_eventloop[th] /\ no_spin(th)
     THEN SetSleep(th, "not_sleeping") /\ Goto(th, "try")
     ELSE Goto(th, IF may_sleep(th) THEN "park" ELSE "try") /\ UNCHANGED sleep_check_state
  /\ enter_eventloop' = [enter_eventloop EXCEPT ![th] = FALSE]
  /\ UNCHANGED <<ret, running, queues, signalable, wk, uv, active, start_cycles, events, counts>>

\* Under the sleep_lock: wait for the signal unless somebody was faster.
stays_anyway(th) == TRUE
stays(th) == may_sleep(th)

Park(th) ==
  /\ pc[th] = "park" /\ th \notin signalable
  /\ IF stays(th) THEN signalable' = signalable \cup {th} /\ UNCHANGED pc
                  ELSE Goto(th, "try") /\ UNCHANGED signalable
  /\ UNCHANGED <<ret, running, queues, sleep_check_state, wk, uv, locals, events, counts>>

-----------------------------------------------------------------------------
(* jl_switch                                                                *)

\* ctx_switch; a thread that found its own task goes on with it.
Switch(th) ==
  /\ pc[th] = "switch"
  /\ next' = [next EXCEPT ![th] = NoTask]
  /\ life' = [life EXCEPT ![next[th]] = "running"]
  /\ IF next[th] = current[th]
     THEN Goto(th, "run") /\ UNCHANGED <<current, previous>>
     ELSE /\ current' = [current EXCEPT ![th] = next[th]]
          /\ previous' = [previous EXCEPT ![th] = current[th]]
          /\ Goto(th, "switched")
  /\ UNCHANGED <<ret, tid, queues, announce, wk, uv, locals, events, counts>>

\* On the new stack: the task that was left may now run on another thread.
Switched(th) ==
  /\ pc[th] = "switched"
  /\ tid' = [tid EXCEPT ![previous[th]] = IF previous[th] \in Sticky THEN th ELSE -1]
  /\ previous' = [previous EXCEPT ![th] = NoTask]
  /\ Goto(th, "run")
  /\ UNCHANGED <<ret, current, next, life, queues, announce, wk, uv, locals, events, counts>>

-----------------------------------------------------------------------------
\* External: the operation on the event source completes.
IoReady ==
  /\ io = "active"
  /\ io' = "ready"
  /\ UNCHANGED <<pc, ret, running, queues, announce, wk, uv, locals, io_task, counts>>

Wakes(th) == WakeSelf(th) \/ (\E o \in Threads : WakeThread(th, o)) \/ Signal(th) \/ WakeLibuv(th)
Locks(th) == LockFree(th) \/ LockTaken(th) \/ LockKick(th) \/ LockSpin(th) \/ LockGot(th)
Runs(th) ==
  \/ (\E u \in Tasks : Schedule(th, u)) \/ Yield(th) \/ Wait(th) \/ Finish(th)
  \/ BeginIo(th) \/ StartIo(th)
  \/ EnterThreadedRegion(th) \/ ExitThreadedRegion(th) \/ LeftRegion(th)
Searches(th) ==
  \/ GetNextTask(th) \/ TryNothing(th) \/ Look(th) \/ Poll(th)
  \/ Announce(th) \/ Recheck(th) \/ GetNextTaskAgain(th) \/ AgainNothing(th) \/ Idle(th)
  \/ TryWatch(th) \/ AskThread0(th)
  \/ Watch(th) \/ Waiters(th) \/ RunNotAlive(th) \/ RunKicked(th) \/ RunCallback(th)
  \/ Polled(th) \/ UvUnlock(th) \/ Unwatched(th) \/ Park(th)
Switches(th) == Switch(th) \/ Switched(th)

Thread(th) == Wakes(th) \/ Locks(th) \/ Runs(th) \/ Searches(th) \/ Switches(th)

\* Every thread waits for its signal, or looks again and again at tasks that another
\* thread has not let go of.
Asleep(th) == pc[th] = "park" /\ th \in signalable
Spins(th) ==
  /\ pc[th] \in {"try", "again"} /\ workqueue[th] = << >>
  /\ multiq # {} /\ \A t \in multiq : ~tid_free(t, th)
Quiet == \A th \in Threads : Asleep(th) \/ Spins(th)

Next == IoReady \/ (\E th \in Threads : Thread(th)) \/ (Quiet /\ UNCHANGED vars)

Spec == Init /\ [][Next]_vars

\* What the runtime does on its own account: all but what the code of a task decides.
Runtime(th) ==
  Wakes(th) \/ Locks(th) \/ StartIo(th) \/ LeftRegion(th) \/ Searches(th) \/ Switches(th)

\* The operating system runs every thread, and a thread that spins on the lock gets it
\* when it is free again and again: the code lets go of the lock whenever somebody
\* waits for it, and that only helps if the waiter is quick.  A task may compute for
\* ever, and an operation that was started need not ever complete.
FairSpec ==
  /\ Spec
  /\ \A th \in Threads : WF_vars(Runtime(th)) /\ SF_vars(LockSpin(th))


-----------------------------------------------------------------------------

\* No task runs on two threads at once: neither on the stack that waits for the next
\* task, nor because two threads took it from the queues.
OneThreadPerTask ==
  \A a, c \in Threads : a # c =>
    /\ current[a] # current[c]
    /\ previous[a] # current[c]
    /\ next[a] # NoTask => next[a] \notin {current[c], next[c], previous[c]}

\* "No thread is ever asleep unless sleep_check_state is sleeping (or we have a
\* wakeup signal pending)."
AsleepMeansSleeping ==
  \A th \in signalable :
    may_sleep(th) \/ \E o \in Threads : pc[o] = "signal" /\ wk[o].other = th

\* No wakeup is lost: a thread does not stay away from tasks for ever while its queue or
\* the multiqueue has one for it, whatever the other threads compute.
TaskRuns ==
  \A th \in Threads : []<>(pc[th] = "run" \/ (workqueue[th] = << >> /\ multiq = {}))

\* Somebody always watches the event loop when no task runs: an operation that has
\* completed is delivered to its task.
IoServed == []<>(io # "ready" \/ \E th \in Threads : pc[th] = "run")

\* "After decrementing _threadedregion, the thread is required to call
\* jl_wakeup_thread(0), [...] and then eventually thread 0 will get here": an operation
\* that is complete when the last region is left is delivered by thread 0 even if the
\* thread that left never waits again, unless thread 0 has tasks of its own to run or
\* another region is entered.
RegionHandsBack == []<>(~handover \/ pc[0] = "run")

=============================================================================
