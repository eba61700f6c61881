------------------------ MODULE TaskScheduler_proofs ------------------------
(***************************************************************************)
(* Theorems about the scheduler, for any numbers of threads and tasks and   *)
(* without the bounds of the model.                                         *)
(*                                                                           *)
(* That no task runs on two threads rests on its tid: a thread that runs a  *)
(* task, has just taken it or has not yet left its stack is the one that the *)
(* task's tid names.  A sticky task keeps its tid, and is queued where it   *)
(* says; any other is taken from the multiqueue only by a thread that its    *)
(* tid allows, and gets tid -1 back when its stack has been left.            *)
(***************************************************************************)
EXTENDS TaskScheduler, TLAPS

Places == {"run", "wakeup", "signal", "uvlock", "uvkick", "uvspin", "uvgot", "io", "region",
           "try", "look", "poll", "nowait", "polled", "announce", "recheck", "again", "idle",
           "trylock", "ask", "watch", "waiters", "once", "unlock", "unwatched", "park", "switch", "switched"}

\* Where a call may return to.
Returns == {"run", "try", "io", "region", "watch", "park", "unlock", "polled"}

Wakeup == [whom : Int, todo : SUBSET Int, other : Int, slept : BOOLEAN, task : Tasks \cup {NoTask}]

TypeOK ==
  /\ pc \in [Threads -> Places] /\ ret \in [Threads -> Returns]
  /\ current \in [Threads -> Tasks]
  /\ next \in [Threads -> Tasks \cup {NoTask}] /\ previous \in [Threads -> Tasks \cup {NoTask}]
  /\ tid \in [Tasks -> Threads \cup {-1}]
  /\ workqueue \in [Threads -> Seq(Tasks)] /\ multiq \subseteq Tasks
  /\ sleep_check_state \in [Threads -> {"not_sleeping", "sleeping"}]
  /\ signalable \subseteq Threads
  /\ io # "none" => io_task \in Tasks

\* The locals of jl_wakeup_thread.
WakeupOK ==
  /\ wk \in [Threads -> Wakeup]
  /\ \A th \in Threads : pc[th] = "signal" => wk[th].other \in Threads

\* next_task is set while a thread is about to switch, previous_task when it has.
Switching ==
  \A th \in Threads :
    /\ next[th] # NoTask <=> pc[th] = "switch"
    /\ previous[th] # NoTask <=> pc[th] = "switched"
    /\ previous[th] # current[th]

\* A task that is on a thread, or on its way to it or from it, has its tid.
Tids ==
  \A th \in Threads :
    /\ tid[current[th]] = th
    /\ next[th] # NoTask => tid[next[th]] = th
    /\ previous[th] # NoTask => tid[previous[th]] = th

\* Sticky tasks have one, and wait in that thread's queue; the others in the multiqueue.
Queued ==
  /\ \A t \in Sticky : tid[t] \in Threads
  /\ multiq \cap Sticky = {}
  /\ \A th \in Threads : \A i \in 1..Len(workqueue[th]) :
       workqueue[th][i] \in Sticky /\ tid[workqueue[th][i]] = th

\* Who waits for the signal is in the loop that waits for it.
Parked == \A th \in signalable : pc[th] = "park"

IInv ==
  TypeOK /\ WakeupOK /\ Switching /\ Tids /\ Queued /\ Parked /\ AsleepMeansSleeping

-----------------------------------------------------------------------------

\* The task that trypoptask finds is one that the thread may run.
LEMMA Takes ==
  ASSUME TypeOK, Queued, NEW th \in Threads, TakeSticky(th) \/ TakeMulti(th)
  PROVE  \E t \in Tasks :
           /\ tid[t] \in {-1, th} /\ (t \in Sticky => tid[t] = th)
           /\ Take(th, t)
           /\ multiq' \subseteq multiq
           /\ workqueue' \in [Threads -> Seq(Tasks)]
           /\ \A a \in Threads : \A i \in 1..Len(workqueue'[a]) :
                \E j \in 1..Len(workqueue[a]) : workqueue'[a][i] = workqueue[a][j]
<1>1. CASE TakeSticky(th)
  <2> DEFINE t == Head(workqueue[th])
  <2>1. /\ workqueue[th] \in Seq(Tasks) /\ workqueue[th] # << >>
        /\ t = workqueue[th][1] /\ 1 \in 1..Len(workqueue[th])
    BY <1>1 DEF TakeSticky, TypeOK
  <2>2. t \in Tasks /\ t \in Sticky /\ tid[t] = th
    BY <2>1 DEF Queued
  <2> DEFINE w == workqueue[th]
  <2>3. Take(th, t) /\ multiq' = multiq /\ workqueue' = [workqueue EXCEPT ![th] = Tail(w)]
    BY <1>1 DEF TakeSticky
  <2>4. /\ Tail(w) \in Seq(Tasks) /\ Len(Tail(w)) = Len(w) - 1 /\ Len(w) \in Nat
        /\ \A i \in 1..Len(Tail(w)) : i + 1 \in 1..Len(w) /\ Tail(w)[i] = w[i + 1]
    BY <2>1
  <2> HIDE DEF t
  <2>5. workqueue' \in [Threads -> Seq(Tasks)]
    BY <2>3, <2>4 DEF TypeOK
  <2>6. ASSUME NEW a \in Threads, NEW i \in 1..Len(workqueue'[a])
        PROVE  \E j \in 1..Len(workqueue[a]) : workqueue'[a][i] = workqueue[a][j]
    <3>1. CASE a = th
      <4>1. workqueue'[a] = Tail(w) /\ workqueue[a] = w
        BY <2>3, <3>1 DEF TypeOK
      <4>. QED
        BY <2>4, <2>6, <4>1
    <3>2. CASE a # th
      BY <2>3, <2>6, <3>2 DEF TypeOK
    <3>. QED
      BY <3>1, <3>2
  <2>. QED
    BY <2>2, <2>3, <2>5, <2>6
<1>2. CASE TakeMulti(th)
  BY <1>2 DEF TakeMulti, tid_free, TypeOK, Queued
<1>. QED
  BY <1>1, <1>2

\* enq_work puts a task where it belongs.
LEMMA Enqueues ==
  ASSUME TypeOK, Queued, NEW th \in Threads, NEW t \in Tasks, Enqueue(th, t), tid' = tid
  PROVE  workqueue' \in [Threads -> Seq(Tasks)] /\ multiq' \subseteq Tasks /\ Queued'
<1>1. CASE t \in Sticky
  <2> DEFINE w == workqueue[tid[t]]
  <2>1. tid[t] \in Threads /\ w \in Seq(Tasks)
    BY <1>1 DEF Queued, TypeOK
  <2>2. workqueue' = [workqueue EXCEPT ![tid[t]] = Append(w, t)] /\ multiq' = multiq
    BY <1>1 DEF Enqueue
  <2>3. Append(w, t) \in Seq(Tasks) /\ Len(Append(w, t)) = Len(w) + 1 /\ Len(w) \in Nat
    BY <2>1
  <2>4. \A i \in 1..Len(w) + 1 : Append(w, t)[i] = IF i = Len(w) + 1 THEN t ELSE w[i]
    BY <2>1
  <2>5. workqueue' \in [Threads -> Seq(Tasks)]
    BY <2>1, <2>2, <2>3 DEF TypeOK
  <2>6. ASSUME NEW a \in Threads, NEW i \in 1..Len(workqueue'[a])
        PROVE  workqueue'[a][i] \in Sticky /\ tid[workqueue'[a][i]] = a
    <3>1. CASE a = tid[t]
      <4>1. workqueue'[a] = Append(w, t)
        BY <2>1, <2>2, <3>1 DEF TypeOK
      <4>. QED
        BY <1>1, <2>1, <2>3, <2>4, <2>6, <3>1, <4>1 DEF Queued
    <3>2. CASE a # tid[t]
      BY <2>1, <2>2, <2>6, <3>2 DEF Queued, TypeOK
    <3>. QED
      BY <3>1, <3>2
  <2>. QED
    BY <2>2, <2>5, <2>6 DEF Queued, TypeOK
<1>2. CASE t \notin Sticky
  <2>1. workqueue' = workqueue /\ multiq' = multiq \cup {t}
    BY <1>2 DEF Enqueue
  <2>. QED
    BY <1>2, <2>1 DEF Queued, TypeOK
<1>. QED
  BY <1>1, <1>2

\* Types are kept.
LEMMA TypeStep == TypeOK /\ Queued /\ Switching /\ [Next]_vars => TypeOK'
<1>. SUFFICES ASSUME TypeOK, Queued, Switching, [Next]_vars PROVE TypeOK'
  OBVIOUS
<1>. USE DEF TypeOK, Places, Returns, running, queues, announce, uv, region, locals, events, counts, Goto, Call, Return, SetSleep, StartWakeup, NoWakeup
<1>1. ASSUME NEW th \in Threads, WakeSelf(th) PROVE TypeOK'
  BY <1>1 DEF WakeSelf
<1>2. ASSUME NEW th \in Threads, Signal(th) PROVE TypeOK'
  BY <1>2 DEF Signal
<1>3. ASSUME NEW th \in Threads, WakeLibuv(th) PROVE TypeOK'
  BY <1>3 DEF WakeLibuv
<1>4. ASSUME NEW th \in Threads, LockFree(th) PROVE TypeOK'
  BY <1>4 DEF LockFree
<1>5. ASSUME NEW th \in Threads, LockTaken(th) PROVE TypeOK'
  BY <1>5 DEF LockTaken
<1>6. ASSUME NEW th \in Threads, LockKick(th) PROVE TypeOK'
  BY <1>6 DEF LockKick
<1>7. ASSUME NEW th \in Threads, LockSpin(th) PROVE TypeOK'
  BY <1>7 DEF LockSpin
<1>8. ASSUME NEW th \in Threads, LockGot(th) PROVE TypeOK'
  BY <1>8 DEF LockGot
<1>9. ASSUME NEW th \in Threads, Yield(th) PROVE TypeOK'
  <2>1. workqueue' \in [Threads -> Seq(Tasks)] /\ multiq' \subseteq Tasks
    BY <1>9, Enqueues DEF Yield
  <2>. QED
    BY <1>9, <2>1 DEF Yield, Enqueue
<1>10. ASSUME NEW th \in Threads, Wait(th) PROVE TypeOK'
  BY <1>10 DEF Wait
<1>11. ASSUME NEW th \in Threads, Finish(th) PROVE TypeOK'
  BY <1>11 DEF Finish
<1>12. ASSUME NEW th \in Threads, BeginIo(th) PROVE TypeOK'
  BY <1>12 DEF BeginIo
<1>13. ASSUME NEW th \in Threads, StartIo(th) PROVE TypeOK'
  BY <1>13 DEF StartIo
<1>14. ASSUME NEW th \in Threads, EnterThreadedRegion(th) PROVE TypeOK'
  BY <1>14 DEF EnterThreadedRegion
<1>15. ASSUME NEW th \in Threads, ExitThreadedRegion(th) PROVE TypeOK'
  BY <1>15 DEF ExitThreadedRegion
<1>16. ASSUME NEW th \in Threads, LeftRegion(th) PROVE TypeOK'
  BY <1>16 DEF LeftRegion, wakes_thread_0
<1>17. ASSUME NEW th \in Threads, GetNextTask(th) PROVE TypeOK'
  <2>1. PICK t \in Tasks :
          /\ tid[t] \in {-1, th} /\ (t \in Sticky => tid[t] = th)
          /\ Take(th, t)
          /\ multiq' \subseteq multiq
          /\ workqueue' \in [Threads -> Seq(Tasks)]
          /\ \A a \in Threads : \A i \in 1..Len(workqueue'[a]) :
               \E j \in 1..Len(workqueue[a]) : workqueue'[a][i] = workqueue[a][j]
    BY <1>17, Takes DEF GetNextTask
  <2>. QED
    BY <1>17, <2>1 DEF GetNextTask, Take
<1>18. ASSUME NEW th \in Threads, TryNothing(th) PROVE TypeOK'
  BY <1>18 DEF TryNothing, FoundNothing
<1>19. ASSUME NEW th \in Threads, Look(th) PROVE TypeOK'
  BY <1>19 DEF Look
<1>20. ASSUME NEW th \in Threads, Poll(th) PROVE TypeOK'
  BY <1>20 DEF Poll
<1>21. ASSUME NEW th \in Threads, Announce(th) PROVE TypeOK'
  BY <1>21 DEF Announce
<1>22. ASSUME NEW th \in Threads, Recheck(th) PROVE TypeOK'
  BY <1>22 DEF Recheck
<1>23. ASSUME NEW th \in Threads, GetNextTaskAgain(th) PROVE TypeOK'
  <2>1. PICK t \in Tasks :
          /\ tid[t] \in {-1, th} /\ (t \in Sticky => tid[t] = th)
          /\ Take(th, t)
          /\ multiq' \subseteq multiq
          /\ workqueue' \in [Threads -> Seq(Tasks)]
          /\ \A a \in Threads : \A i \in 1..Len(workqueue'[a]) :
               \E j \in 1..Len(workqueue[a]) : workqueue'[a][i] = workqueue[a][j]
    BY <1>23, Takes DEF GetNextTaskAgain
  <2>. QED
    BY <1>23, <2>1 DEF GetNextTaskAgain, Take
<1>24. ASSUME NEW th \in Threads, AgainNothing(th) PROVE TypeOK'
  BY <1>24 DEF AgainNothing, FoundNothing
<1>25. ASSUME NEW th \in Threads, Idle(th) PROVE TypeOK'
  BY <1>25 DEF Idle
<1>41. ASSUME NEW th \in Threads, TryWatch(th) PROVE TypeOK'
  BY <1>41 DEF TryWatch
<1>42. ASSUME NEW th \in Threads, AskThread0(th) PROVE TypeOK'
  BY <1>42 DEF AskThread0
<1>26. ASSUME NEW th \in Threads, Watch(th) PROVE TypeOK'
  BY <1>26 DEF Watch
<1>27. ASSUME NEW th \in Threads, Waiters(th) PROVE TypeOK'
  BY <1>27 DEF Waiters
<1>28. ASSUME NEW th \in Threads, RunNotAlive(th) PROVE TypeOK'
  BY <1>28 DEF RunNotAlive
<1>29. ASSUME NEW th \in Threads, RunKicked(th) PROVE TypeOK'
  BY <1>29 DEF RunKicked
<1>30. ASSUME NEW th \in Threads, RunCallback(th) PROVE TypeOK'
  <2>1. workqueue' \in [Threads -> Seq(Tasks)] /\ multiq' \subseteq Tasks
    BY <1>30, Enqueues DEF RunCallback
  <2>. QED
    BY <1>30, <2>1 DEF RunCallback, Enqueue
<1>31. ASSUME NEW th \in Threads, Polled(th) PROVE TypeOK'
  BY <1>31 DEF Polled
<1>32. ASSUME NEW th \in Threads, UvUnlock(th) PROVE TypeOK'
  BY <1>32 DEF UvUnlock
<1>33. ASSUME NEW th \in Threads, Unwatched(th) PROVE TypeOK'
  BY <1>33 DEF Unwatched
<1>34. ASSUME NEW th \in Threads, Park(th) PROVE TypeOK'
  BY <1>34 DEF Park
<1>35. ASSUME NEW th \in Threads, Switch(th) PROVE TypeOK'
  <2>1. next[th] \in Tasks
    BY <1>35 DEF Switch, Switching
  <2>2. current' \in [Threads -> Tasks] /\ previous' \in [Threads -> Tasks \cup {NoTask}]
    BY <1>35, <2>1 DEF Switch
  <2>3. pc' \in [Threads -> Places]
    <3>1. \/ pc' = [pc EXCEPT ![th] = "run"]
          \/ pc' = [pc EXCEPT ![th] = "switched"]
      BY <1>35 DEF Switch
    <3>. QED
      BY <3>1
  <2>. QED
    BY <1>35, <2>2, <2>3 DEF Switch
<1>36. ASSUME NEW th \in Threads, Switched(th) PROVE TypeOK'
  BY <1>36 DEF Switched
<1>37. ASSUME NEW th \in Threads, NEW u \in Tasks, Schedule(th, u) PROVE TypeOK'
  <2>1. workqueue' \in [Threads -> Seq(Tasks)] /\ multiq' \subseteq Tasks
    BY <1>37, Enqueues DEF Schedule
  <2>. QED
    BY <1>37, <2>1 DEF Schedule, Enqueue
<1>38. ASSUME NEW th \in Threads, NEW o \in Threads, WakeThread(th, o) PROVE TypeOK'
  BY <1>38 DEF WakeThread
<1>39. CASE IoReady
  BY <1>39 DEF IoReady
<1>40. CASE UNCHANGED vars
  BY <1>40 DEF vars
<1>. QED
  BY <1>1, <1>2, <1>3, <1>4, <1>5, <1>6, <1>7, <1>8, <1>9, <1>10, <1>11, <1>12, <1>13, <1>14, <1>15, <1>16, <1>17, <1>18, <1>19, <1>20, <1>21, <1>22, <1>23, <1>24, <1>25, <1>26, <1>27, <1>28, <1>29, <1>30, <1>31, <1>32, <1>33, <1>34, <1>35, <1>36, <1>37, <1>38, <1>39, <1>40, <1>41, <1>42 DEF Next, Thread, Wakes, Locks, Runs, Searches, Switches

\* jl_wakeup_thread begins with nobody woken.
LEMMA StartsWakeup ==
  ASSUME WakeupOK, NEW th \in Threads, NEW whom \in Int, StartWakeup(th, whom)
  PROVE  wk' \in [Threads -> Wakeup]
<1>1. (IF whom = -1 THEN Threads ELSE {whom}) \in SUBSET Int
  BY TaskAssumption DEF Threads
<1>2. NoWakeup \in Wakeup
  BY DEF NoWakeup, Wakeup
<1>3. [NoWakeup EXCEPT !.whom = whom, !.todo = IF whom = -1 THEN Threads ELSE {whom}] \in Wakeup
  BY <1>1, <1>2 DEF Wakeup
<1>. QED
  BY <1>3 DEF StartWakeup, WakeupOK

\* What is noted about the threads that were looked at.
LEMMA NotedAwake ==
  ASSUME NEW w \in Wakeup, NEW o \in Int
  PROVE  awake(w, o) \in Wakeup
  BY DEF Wakeup, awake

LEMMA NotedAsleep ==
  ASSUME NEW w \in Wakeup, NEW o \in Int
  PROVE  asleep(w, o) \in Wakeup /\ asleep(w, o).other = o
  BY DEF Wakeup, asleep

LEMMA NotedSignalled ==
  ASSUME NEW w \in Wakeup, NEW t \in Tasks
  PROVE  signalled(w, t) \in Wakeup
<1>1. \A i \in Int : [w EXCEPT !.task = t, !.other = i] \in Wakeup
  BY DEF Wakeup
<1>2. -1 \in Int
  OBVIOUS
<1>. QED
  BY <1>1, <1>2 DEF signalled

\* So are the locals of jl_wakeup_thread.
LEMMA WakeupStep == TypeOK /\ WakeupOK /\ Queued /\ [Next]_vars => WakeupOK'
<1>. SUFFICES ASSUME TypeOK, WakeupOK, Queued, [Next]_vars PROVE WakeupOK'
  OBVIOUS
<1>. USE DEF WakeupOK, TypeOK, Returns, running, queues, announce, uv, region, locals, events, counts, Goto, Call, Return, SetSleep
<1>1. ASSUME NEW th \in Threads, WakeSelf(th) PROVE WakeupOK'
  <2>1. awake(wk[th], th) \in Wakeup
    BY NotedAwake, TaskAssumption DEF Threads
  <2>. QED
    BY <1>1, <2>1 DEF WakeSelf
<1>2. ASSUME NEW th \in Threads, Signal(th) PROVE WakeupOK'
  <2>1. /\ pc[th] = "signal" /\ wk[th].other \in Threads /\ current[wk[th].other] \in Tasks
        /\ wk[th] \in Wakeup
    BY <1>2 DEF Signal
  <2>2. signalled(wk[th], current[wk[th].other]) \in Wakeup
    BY <2>1, NotedSignalled
  <2>. QED
    BY <1>2, <2>2 DEF Signal
<1>3. ASSUME NEW th \in Threads, WakeLibuv(th) PROVE WakeupOK'
  <2>1. NoWakeup \in Wakeup
    BY DEF NoWakeup, Wakeup
  <2>2. pc'[th] # "signal" /\ \A a \in Threads \ {th} : pc'[a] = pc[a] /\ wk'[a] = wk[a]
    BY <1>3 DEF WakeLibuv
  <2>. QED
    BY <1>3, <2>1, <2>2 DEF WakeLibuv
<1>4. ASSUME NEW th \in Threads, LockFree(th) PROVE WakeupOK'
  BY <1>4 DEF LockFree
<1>5. ASSUME NEW th \in Threads, LockTaken(th) PROVE WakeupOK'
  BY <1>5 DEF LockTaken
<1>6. ASSUME NEW th \in Threads, LockKick(th) PROVE WakeupOK'
  BY <1>6 DEF LockKick
<1>7. ASSUME NEW th \in Threads, LockSpin(th) PROVE WakeupOK'
  BY <1>7 DEF LockSpin
<1>8. ASSUME NEW th \in Threads, LockGot(th) PROVE WakeupOK'
  BY <1>8 DEF LockGot
<1>9. ASSUME NEW th \in Threads, Yield(th) PROVE WakeupOK'
  <2>1. PICK whom \in Int : StartWakeup(th, whom)
    BY <1>9, TaskAssumption DEF Yield, Enqueue, Threads, Queued
  <2>2. wk' \in [Threads -> Wakeup]
    BY <2>1, StartsWakeup
  <2>3. pc'[th] # "signal" /\ \A a \in Threads \ {th} : pc'[a] = pc[a] /\ wk'[a] = wk[a]
    BY <1>9 DEF Yield, Enqueue, StartWakeup
  <2>. QED
    BY <2>2, <2>3
<1>10. ASSUME NEW th \in Threads, Wait(th) PROVE WakeupOK'
  BY <1>10 DEF Wait
<1>11. ASSUME NEW th \in Threads, Finish(th) PROVE WakeupOK'
  BY <1>11 DEF Finish
<1>12. ASSUME NEW th \in Threads, BeginIo(th) PROVE WakeupOK'
  BY <1>12 DEF BeginIo
<1>13. ASSUME NEW th \in Threads, StartIo(th) PROVE WakeupOK'
  BY <1>13 DEF StartIo
<1>14. ASSUME NEW th \in Threads, EnterThreadedRegion(th) PROVE WakeupOK'
  BY <1>14 DEF EnterThreadedRegion
<1>15. ASSUME NEW th \in Threads, ExitThreadedRegion(th) PROVE WakeupOK'
  BY <1>15 DEF ExitThreadedRegion
<1>16. ASSUME NEW th \in Threads, LeftRegion(th) PROVE WakeupOK'
  <2>1. PICK whom \in Int : StartWakeup(th, whom)
    BY <1>16, TaskAssumption DEF LeftRegion, wakes_thread_0, Threads, Queued
  <2>2. wk' \in [Threads -> Wakeup]
    BY <2>1, StartsWakeup
  <2>3. pc'[th] # "signal" /\ \A a \in Threads \ {th} : pc'[a] = pc[a] /\ wk'[a] = wk[a]
    BY <1>16 DEF LeftRegion, wakes_thread_0, StartWakeup
  <2>. QED
    BY <2>2, <2>3
<1>17. ASSUME NEW th \in Threads, GetNextTask(th) PROVE WakeupOK'
  BY <1>17 DEF GetNextTask, TakeSticky, TakeMulti, Take
<1>18. ASSUME NEW th \in Threads, TryNothing(th) PROVE WakeupOK'
  BY <1>18 DEF TryNothing, FoundNothing
<1>19. ASSUME NEW th \in Threads, Look(th) PROVE WakeupOK'
  BY <1>19 DEF Look
<1>20. ASSUME NEW th \in Threads, Poll(th) PROVE WakeupOK'
  BY <1>20 DEF Poll
<1>21. ASSUME NEW th \in Threads, Announce(th) PROVE WakeupOK'
  BY <1>21 DEF Announce
<1>22. ASSUME NEW th \in Threads, Recheck(th) PROVE WakeupOK'
  BY <1>22 DEF Recheck
<1>23. ASSUME NEW th \in Threads, GetNextTaskAgain(th) PROVE WakeupOK'
  BY <1>23 DEF GetNextTaskAgain, TakeSticky, TakeMulti, Take
<1>24. ASSUME NEW th \in Threads, AgainNothing(th) PROVE WakeupOK'
  BY <1>24 DEF AgainNothing, FoundNothing
<1>25. ASSUME NEW th \in Threads, Idle(th) PROVE WakeupOK'
  BY <1>25 DEF Idle
<1>41. ASSUME NEW th \in Threads, TryWatch(th) PROVE WakeupOK'
  BY <1>41 DEF TryWatch
<1>42. ASSUME NEW th \in Threads, AskThread0(th) PROVE WakeupOK'
  <2>1. \/ wk' = wk
        \/ StartWakeup(th, 0)
    BY <1>42 DEF AskThread0
  <2>2. wk' \in [Threads -> Wakeup]
    BY <2>1, StartsWakeup
  <2>3. pc'[th] # "signal" /\ \A a \in Threads \ {th} : pc'[a] = pc[a] /\ wk'[a] = wk[a]
    BY <1>42 DEF AskThread0, StartWakeup
  <2>. QED
    BY <2>2, <2>3
<1>26. ASSUME NEW th \in Threads, Watch(th) PROVE WakeupOK'
  BY <1>26 DEF Watch
<1>27. ASSUME NEW th \in Threads, Waiters(th) PROVE WakeupOK'
  BY <1>27 DEF Waiters
<1>28. ASSUME NEW th \in Threads, RunNotAlive(th) PROVE WakeupOK'
  BY <1>28 DEF RunNotAlive
<1>29. ASSUME NEW th \in Threads, RunKicked(th) PROVE WakeupOK'
  BY <1>29 DEF RunKicked
<1>30. ASSUME NEW th \in Threads, RunCallback(th) PROVE WakeupOK'
  <2>1. PICK whom \in Int : StartWakeup(th, whom)
    BY <1>30, TaskAssumption DEF RunCallback, Enqueue, Threads, Queued
  <2>2. wk' \in [Threads -> Wakeup]
    BY <2>1, StartsWakeup
  <2>3. pc'[th] # "signal" /\ \A a \in Threads \ {th} : pc'[a] = pc[a] /\ wk'[a] = wk[a]
    BY <1>30 DEF RunCallback, Enqueue, StartWakeup
  <2>. QED
    BY <2>2, <2>3
<1>31. ASSUME NEW th \in Threads, Polled(th) PROVE WakeupOK'
  BY <1>31 DEF Polled
<1>32. ASSUME NEW th \in Threads, UvUnlock(th) PROVE WakeupOK'
  BY <1>32 DEF UvUnlock
<1>33. ASSUME NEW th \in Threads, Unwatched(th) PROVE WakeupOK'
  BY <1>33 DEF Unwatched
<1>34. ASSUME NEW th \in Threads, Park(th) PROVE WakeupOK'
  BY <1>34 DEF Park
<1>35. ASSUME NEW th \in Threads, Switch(th) PROVE WakeupOK'
  BY <1>35 DEF Switch
<1>36. ASSUME NEW th \in Threads, Switched(th) PROVE WakeupOK'
  BY <1>36 DEF Switched
<1>37. ASSUME NEW th \in Threads, NEW u \in Tasks, Schedule(th, u) PROVE WakeupOK'
  <2>1. PICK whom \in Int : StartWakeup(th, whom)
    BY <1>37, TaskAssumption DEF Schedule, Enqueue, Threads, Queued
  <2>2. wk' \in [Threads -> Wakeup]
    BY <2>1, StartsWakeup
  <2>3. pc'[th] # "signal" /\ \A a \in Threads \ {th} : pc'[a] = pc[a] /\ wk'[a] = wk[a]
    BY <1>37 DEF Schedule, Enqueue, StartWakeup
  <2>. QED
    BY <2>2, <2>3
<1>38. ASSUME NEW th \in Threads, NEW o \in Threads, WakeThread(th, o) PROVE WakeupOK'
  <2>1. o \in Int /\ wk[th] \in Wakeup
    BY TaskAssumption DEF Threads
  <2>2. awake(wk[th], o) \in Wakeup /\ asleep(wk[th], o) \in Wakeup /\ asleep(wk[th], o).other = o
    BY <2>1, NotedAwake, NotedAsleep
  <2>6. pc[th] = "wakeup" /\ wk \in [Threads -> Wakeup]
    BY <1>38 DEF WakeThread
  <2>7. \/ pc' = pc
        \/ /\ pc' = [pc EXCEPT ![th] = "signal"]
           /\ wk' = [wk EXCEPT ![th] = asleep(wk[th], o)]
    BY <1>38 DEF WakeThread
  <2>4. \A a \in Threads \ {th} : wk'[a] = wk[a]
    BY <1>38 DEF WakeThread
  <2>5. wk' \in [Threads -> Wakeup]
    BY <1>38, <2>2 DEF WakeThread
  <2>3. CASE pc' = pc
    <3>1. \A a \in Threads : pc'[a] = "signal" => a # th
      BY <2>3, <2>6
    <3>. QED
      BY <2>3, <2>4, <2>5, <3>1
  <2>8. CASE pc' = [pc EXCEPT ![th] = "signal"] /\ wk' = [wk EXCEPT ![th] = asleep(wk[th], o)]
    <3>1. wk'[th] = asleep(wk[th], o)
      BY <2>6, <2>8
    <3>2. wk'[th].other = o
      BY <2>2, <3>1
    <3>3. \A a \in Threads \ {th} : pc'[a] = pc[a]
      BY <2>8
    <3>. QED
      BY <2>4, <2>5, <3>2, <3>3
  <2>. QED
    BY <2>3, <2>7, <2>8
<1>39. CASE IoReady
  BY <1>39 DEF IoReady
<1>40. CASE UNCHANGED vars
  BY <1>40 DEF vars
<1>. QED
  BY <1>1, <1>2, <1>3, <1>4, <1>5, <1>6, <1>7, <1>8, <1>9, <1>10, <1>11, <1>12, <1>13, <1>14, <1>15, <1>16, <1>17, <1>18, <1>19, <1>20, <1>21, <1>22, <1>23, <1>24, <1>25, <1>26, <1>27, <1>28, <1>29, <1>30, <1>31, <1>32, <1>33, <1>34, <1>35, <1>36, <1>37, <1>38, <1>39, <1>40, <1>41, <1>42 DEF Next, Thread, Wakes, Locks, Runs, Searches, Switches

\* next_task and previous_task are set and cleared by the switch.
LEMMA SwitchingStep == TypeOK /\ Switching /\ Tids /\ Queued /\ [Next]_vars => Switching'
<1>. SUFFICES ASSUME TypeOK, Switching, Tids, Queued, [Next]_vars PROVE Switching'
  OBVIOUS
<1>. USE DEF Switching, TypeOK, Places, Returns, running, queues, announce, uv, region, locals, events, counts, Goto, Call, Return, SetSleep, StartWakeup, NoWakeup
<1>1. ASSUME NEW th \in Threads, WakeSelf(th) PROVE Switching'
  BY <1>1 DEF WakeSelf
<1>2. ASSUME NEW th \in Threads, Signal(th) PROVE Switching'
  BY <1>2 DEF Signal
<1>3. ASSUME NEW th \in Threads, WakeLibuv(th) PROVE Switching'
  BY <1>3 DEF WakeLibuv
<1>4. ASSUME NEW th \in Threads, LockFree(th) PROVE Switching'
  BY <1>4 DEF LockFree
<1>5. ASSUME NEW th \in Threads, LockTaken(th) PROVE Switching'
  BY <1>5 DEF LockTaken
<1>6. ASSUME NEW th \in Threads, LockKick(th) PROVE Switching'
  BY <1>6 DEF LockKick
<1>7. ASSUME NEW th \in Threads, LockSpin(th) PROVE Switching'
  BY <1>7 DEF LockSpin
<1>8. ASSUME NEW th \in Threads, LockGot(th) PROVE Switching'
  BY <1>8 DEF LockGot
<1>9. ASSUME NEW th \in Threads, Yield(th) PROVE Switching'
  BY <1>9 DEF Yield, Enqueue
<1>10. ASSUME NEW th \in Threads, Wait(th) PROVE Switching'
  BY <1>10 DEF Wait
<1>11. ASSUME NEW th \in Threads, Finish(th) PROVE Switching'
  BY <1>11 DEF Finish
<1>12. ASSUME NEW th \in Threads, BeginIo(th) PROVE Switching'
  BY <1>12 DEF BeginIo
<1>13. ASSUME NEW th \in Threads, StartIo(th) PROVE Switching'
  BY <1>13 DEF StartIo
<1>14. ASSUME NEW th \in Threads, EnterThreadedRegion(th) PROVE Switching'
  BY <1>14 DEF EnterThreadedRegion
<1>15. ASSUME NEW th \in Threads, ExitThreadedRegion(th) PROVE Switching'
  BY <1>15 DEF ExitThreadedRegion
<1>16. ASSUME NEW th \in Threads, LeftRegion(th) PROVE Switching'
  BY <1>16 DEF LeftRegion, wakes_thread_0
<1>17. ASSUME NEW th \in Threads, GetNextTask(th) PROVE Switching'
  <2>1. PICK t \in Tasks :
          /\ tid[t] \in {-1, th} /\ (t \in Sticky => tid[t] = th)
          /\ Take(th, t)
          /\ multiq' \subseteq multiq
          /\ workqueue' \in [Threads -> Seq(Tasks)]
          /\ \A a \in Threads : \A i \in 1..Len(workqueue'[a]) :
               \E j \in 1..Len(workqueue[a]) : workqueue'[a][i] = workqueue[a][j]
    BY <1>17, Takes DEF GetNextTask
  <2>. QED
    BY <1>17, <2>1, TaskAssumption DEF GetNextTask, Take
<1>18. ASSUME NEW th \in Threads, TryNothing(th) PROVE Switching'
  BY <1>18 DEF TryNothing, FoundNothing
<1>19. ASSUME NEW th \in Threads, Look(th) PROVE Switching'
  BY <1>19 DEF Look
<1>20. ASSUME NEW th \in Threads, Poll(th) PROVE Switching'
  BY <1>20 DEF Poll
<1>21. ASSUME NEW th \in Threads, Announce(th) PROVE Switching'
  BY <1>21 DEF Announce
<1>22. ASSUME NEW th \in Threads, Recheck(th) PROVE Switching'
  BY <1>22 DEF Recheck
<1>23. ASSUME NEW th \in Threads, GetNextTaskAgain(th) PROVE Switching'
  <2>1. PICK t \in Tasks :
          /\ tid[t] \in {-1, th} /\ (t \in Sticky => tid[t] = th)
          /\ Take(th, t)
          /\ multiq' \subseteq multiq
          /\ workqueue' \in [Threads -> Seq(Tasks)]
          /\ \A a \in Threads : \A i \in 1..Len(workqueue'[a]) :
               \E j \in 1..Len(workqueue[a]) : workqueue'[a][i] = workqueue[a][j]
    BY <1>23, Takes DEF GetNextTaskAgain
  <2>. QED
    BY <1>23, <2>1, TaskAssumption DEF GetNextTaskAgain, Take
<1>24. ASSUME NEW th \in Threads, AgainNothing(th) PROVE Switching'
  BY <1>24 DEF AgainNothing, FoundNothing
<1>25. ASSUME NEW th \in Threads, Idle(th) PROVE Switching'
  BY <1>25 DEF Idle
<1>41. ASSUME NEW th \in Threads, TryWatch(th) PROVE Switching'
  BY <1>41 DEF TryWatch
<1>42. ASSUME NEW th \in Threads, AskThread0(th) PROVE Switching'
  BY <1>42 DEF AskThread0
<1>26. ASSUME NEW th \in Threads, Watch(th) PROVE Switching'
  BY <1>26 DEF Watch
<1>27. ASSUME NEW th \in Threads, Waiters(th) PROVE Switching'
  BY <1>27 DEF Waiters
<1>28. ASSUME NEW th \in Threads, RunNotAlive(th) PROVE Switching'
  BY <1>28 DEF RunNotAlive
<1>29. ASSUME NEW th \in Threads, RunKicked(th) PROVE Switching'
  BY <1>29 DEF RunKicked
<1>30. ASSUME NEW th \in Threads, RunCallback(th) PROVE Switching'
  BY <1>30 DEF RunCallback, Enqueue
<1>31. ASSUME NEW th \in Threads, Polled(th) PROVE Switching'
  BY <1>31 DEF Polled
<1>32. ASSUME NEW th \in Threads, UvUnlock(th) PROVE Switching'
  BY <1>32 DEF UvUnlock
<1>33. ASSUME NEW th \in Threads, Unwatched(th) PROVE Switching'
  BY <1>33 DEF Unwatched
<1>34. ASSUME NEW th \in Threads, Park(th) PROVE Switching'
  BY <1>34 DEF Park
<1>35. ASSUME NEW th \in Threads, Switch(th) PROVE Switching'
  BY <1>35 DEF Switch
<1>36. ASSUME NEW th \in Threads, Switched(th) PROVE Switching'
  BY <1>36, TaskAssumption DEF Switched
<1>37. ASSUME NEW th \in Threads, NEW u \in Tasks, Schedule(th, u) PROVE Switching'
  BY <1>37 DEF Schedule, Enqueue
<1>38. ASSUME NEW th \in Threads, NEW o \in Threads, WakeThread(th, o) PROVE Switching'
  BY <1>38 DEF WakeThread
<1>39. CASE IoReady
  BY <1>39 DEF IoReady
<1>40. CASE UNCHANGED vars
  BY <1>40 DEF vars
<1>. QED
  BY <1>1, <1>2, <1>3, <1>4, <1>5, <1>6, <1>7, <1>8, <1>9, <1>10, <1>11, <1>12, <1>13, <1>14, <1>15, <1>16, <1>17, <1>18, <1>19, <1>20, <1>21, <1>22, <1>23, <1>24, <1>25, <1>26, <1>27, <1>28, <1>29, <1>30, <1>31, <1>32, <1>33, <1>34, <1>35, <1>36, <1>37, <1>38, <1>39, <1>40, <1>41, <1>42 DEF Next, Thread, Wakes, Locks, Runs, Searches, Switches

\* A tid changes only for a task that was not on a thread, or has left it.
LEMMA TidsStep == TypeOK /\ Switching /\ Tids /\ Queued /\ [Next]_vars => Tids'
<1>. SUFFICES ASSUME TypeOK, Switching, Tids, Queued, [Next]_vars PROVE Tids'
  OBVIOUS
<1>. USE DEF Tids, Switching, TypeOK, running, queues, announce, uv, region, locals, events, counts, Goto, Call, Return, SetSleep, StartWakeup, NoWakeup
<1>1. ASSUME NEW th \in Threads, WakeSelf(th) PROVE Tids'
  BY <1>1 DEF WakeSelf
<1>2. ASSUME NEW th \in Threads, Signal(th) PROVE Tids'
  BY <1>2 DEF Signal
<1>3. ASSUME NEW th \in Threads, WakeLibuv(th) PROVE Tids'
  BY <1>3 DEF WakeLibuv
<1>4. ASSUME NEW th \in Threads, LockFree(th) PROVE Tids'
  BY <1>4 DEF LockFree
<1>5. ASSUME NEW th \in Threads, LockTaken(th) PROVE Tids'
  BY <1>5 DEF LockTaken
<1>6. ASSUME NEW th \in Threads, LockKick(th) PROVE Tids'
  BY <1>6 DEF LockKick
<1>7. ASSUME NEW th \in Threads, LockSpin(th) PROVE Tids'
  BY <1>7 DEF LockSpin
<1>8. ASSUME NEW th \in Threads, LockGot(th) PROVE Tids'
  BY <1>8 DEF LockGot
<1>9. ASSUME NEW th \in Threads, Yield(th) PROVE Tids'
  BY <1>9 DEF Yield, Enqueue
<1>10. ASSUME NEW th \in Threads, Wait(th) PROVE Tids'
  BY <1>10 DEF Wait
<1>11. ASSUME NEW th \in Threads, Finish(th) PROVE Tids'
  BY <1>11 DEF Finish
<1>12. ASSUME NEW th \in Threads, BeginIo(th) PROVE Tids'
  BY <1>12 DEF BeginIo
<1>13. ASSUME NEW th \in Threads, StartIo(th) PROVE Tids'
  BY <1>13 DEF StartIo
<1>14. ASSUME NEW th \in Threads, EnterThreadedRegion(th) PROVE Tids'
  BY <1>14 DEF EnterThreadedRegion
<1>15. ASSUME NEW th \in Threads, ExitThreadedRegion(th) PROVE Tids'
  BY <1>15 DEF ExitThreadedRegion
<1>16. ASSUME NEW th \in Threads, LeftRegion(th) PROVE Tids'
  BY <1>16 DEF LeftRegion, wakes_thread_0
<1>17. ASSUME NEW th \in Threads, GetNextTask(th) PROVE Tids'
  <2>1. PICK t \in Tasks :
          /\ tid[t] \in {-1, th} /\ (t \in Sticky => tid[t] = th)
          /\ Take(th, t)
          /\ multiq' \subseteq multiq
          /\ workqueue' \in [Threads -> Seq(Tasks)]
          /\ \A a \in Threads : \A i \in 1..Len(workqueue'[a]) :
               \E j \in 1..Len(workqueue[a]) : workqueue'[a][i] = workqueue[a][j]
    BY <1>17, Takes DEF GetNextTask
  <2>2. /\ next' = [next EXCEPT ![th] = t] /\ tid' = [tid EXCEPT ![t] = th]
        /\ current' = current /\ previous' = previous
    BY <2>1 DEF Take
  <2>3. -1 \notin Threads
    BY TaskAssumption DEF Threads
  <2>. QED
    BY <2>1, <2>2, <2>3
<1>18. ASSUME NEW th \in Threads, TryNothing(th) PROVE Tids'
  BY <1>18 DEF TryNothing, FoundNothing
<1>19. ASSUME NEW th \in Threads, Look(th) PROVE Tids'
  BY <1>19 DEF Look
<1>20. ASSUME NEW th \in Threads, Poll(th) PROVE Tids'
  BY <1>20 DEF Poll
<1>21. ASSUME NEW th \in Threads, Announce(th) PROVE Tids'
  BY <1>21 DEF Announce
<1>22. ASSUME NEW th \in Threads, Recheck(th) PROVE Tids'
  BY <1>22 DEF Recheck
<1>23. ASSUME NEW th \in Threads, GetNextTaskAgain(th) PROVE Tids'
  <2>1. PICK t \in Tasks :
          /\ tid[t] \in {-1, th} /\ (t \in Sticky => tid[t] = th)
          /\ Take(th, t)
          /\ multiq' \subseteq multiq
          /\ workqueue' \in [Threads -> Seq(Tasks)]
          /\ \A a \in Threads : \A i \in 1..Len(workqueue'[a]) :
               \E j \in 1..Len(workqueue[a]) : workqueue'[a][i] = workqueue[a][j]
    BY <1>23, Takes DEF GetNextTaskAgain
  <2>2. /\ next' = [next EXCEPT ![th] = t] /\ tid' = [tid EXCEPT ![t] = th]
        /\ current' = current /\ previous' = previous
    BY <2>1 DEF Take
  <2>3. -1 \notin Threads
    BY TaskAssumption DEF Threads
  <2>. QED
    BY <2>1, <2>2, <2>3
<1>24. ASSUME NEW th \in Threads, AgainNothing(th) PROVE Tids'
  BY <1>24 DEF AgainNothing, FoundNothing
<1>25. ASSUME NEW th \in Threads, Idle(th) PROVE Tids'
  BY <1>25 DEF Idle
<1>41. ASSUME NEW th \in Threads, TryWatch(th) PROVE Tids'
  BY <1>41 DEF TryWatch
<1>42. ASSUME NEW th \in Threads, AskThread0(th) PROVE Tids'
  BY <1>42 DEF AskThread0
<1>26. ASSUME NEW th \in Threads, Watch(th) PROVE Tids'
  BY <1>26 DEF Watch
<1>27. ASSUME NEW th \in Threads, Waiters(th) PROVE Tids'
  BY <1>27 DEF Waiters
<1>28. ASSUME NEW th \in Threads, RunNotAlive(th) PROVE Tids'
  BY <1>28 DEF RunNotAlive
<1>29. ASSUME NEW th \in Threads, RunKicked(th) PROVE Tids'
  BY <1>29 DEF RunKicked
<1>30. ASSUME NEW th \in Threads, RunCallback(th) PROVE Tids'
  BY <1>30 DEF RunCallback, Enqueue
<1>31. ASSUME NEW th \in Threads, Polled(th) PROVE Tids'
  BY <1>31 DEF Polled
<1>32. ASSUME NEW th \in Threads, UvUnlock(th) PROVE Tids'
  BY <1>32 DEF UvUnlock
<1>33. ASSUME NEW th \in Threads, Unwatched(th) PROVE Tids'
  BY <1>33 DEF Unwatched
<1>34. ASSUME NEW th \in Threads, Park(th) PROVE Tids'
  BY <1>34 DEF Park
<1>35. ASSUME NEW th \in Threads, Switch(th) PROVE Tids'
  BY <1>35 DEF Switch
<1>36. ASSUME NEW th \in Threads, Switched(th) PROVE Tids'
  BY <1>36 DEF Switched
<1>37. ASSUME NEW th \in Threads, NEW u \in Tasks, Schedule(th, u) PROVE Tids'
  BY <1>37 DEF Schedule, Enqueue
<1>38. ASSUME NEW th \in Threads, NEW o \in Threads, WakeThread(th, o) PROVE Tids'
  BY <1>38 DEF WakeThread
<1>39. CASE IoReady
  BY <1>39 DEF IoReady
<1>40. CASE UNCHANGED vars
  BY <1>40 DEF vars
<1>. QED
  BY <1>1, <1>2, <1>3, <1>4, <1>5, <1>6, <1>7, <1>8, <1>9, <1>10, <1>11, <1>12, <1>13, <1>14, <1>15, <1>16, <1>17, <1>18, <1>19, <1>20, <1>21, <1>22, <1>23, <1>24, <1>25, <1>26, <1>27, <1>28, <1>29, <1>30, <1>31, <1>32, <1>33, <1>34, <1>35, <1>36, <1>37, <1>38, <1>39, <1>40, <1>41, <1>42 DEF Next, Thread, Wakes, Locks, Runs, Searches, Switches

\* Sticky tasks stay with their thread.
LEMMA QueuedStep == TypeOK /\ Switching /\ Tids /\ Queued /\ [Next]_vars => Queued'
<1>. SUFFICES ASSUME TypeOK, Switching, Tids, Queued, [Next]_vars PROVE Queued'
  OBVIOUS
<1>. USE DEF Queued, TypeOK, running, queues, announce, uv, region, locals, events, counts, Goto, Call, Return, SetSleep, StartWakeup, NoWakeup
<1>1. ASSUME NEW th \in Threads, WakeSelf(th) PROVE Queued'
  BY <1>1 DEF WakeSelf
<1>2. ASSUME NEW th \in Threads, Signal(th) PROVE Queued'
  BY <1>2 DEF Signal
<1>3. ASSUME NEW th \in Threads, WakeLibuv(th) PROVE Queued'
  BY <1>3 DEF WakeLibuv
<1>4. ASSUME NEW th \in Threads, LockFree(th) PROVE Queued'
  BY <1>4 DEF LockFree
<1>5. ASSUME NEW th \in Threads, LockTaken(th) PROVE Queued'
  BY <1>5 DEF LockTaken
<1>6. ASSUME NEW th \in Threads, LockKick(th) PROVE Queued'
  BY <1>6 DEF LockKick
<1>7. ASSUME NEW th \in Threads, LockSpin(th) PROVE Queued'
  BY <1>7 DEF LockSpin
<1>8. ASSUME NEW th \in Threads, LockGot(th) PROVE Queued'
  BY <1>8 DEF LockGot
<1>9. ASSUME NEW th \in Threads, Yield(th) PROVE Queued'
  BY <1>9, Enqueues DEF Yield, Enqueue
<1>10. ASSUME NEW th \in Threads, Wait(th) PROVE Queued'
  BY <1>10 DEF Wait
<1>11. ASSUME NEW th \in Threads, Finish(th) PROVE Queued'
  BY <1>11 DEF Finish
<1>12. ASSUME NEW th \in Threads, BeginIo(th) PROVE Queued'
  BY <1>12 DEF BeginIo
<1>13. ASSUME NEW th \in Threads, StartIo(th) PROVE Queued'
  BY <1>13 DEF StartIo
<1>14. ASSUME NEW th \in Threads, EnterThreadedRegion(th) PROVE Queued'
  BY <1>14 DEF EnterThreadedRegion
<1>15. ASSUME NEW th \in Threads, ExitThreadedRegion(th) PROVE Queued'
  BY <1>15 DEF ExitThreadedRegion
<1>16. ASSUME NEW th \in Threads, LeftRegion(th) PROVE Queued'
  BY <1>16 DEF LeftRegion, wakes_thread_0
<1>17. ASSUME NEW th \in Threads, GetNextTask(th) PROVE Queued'
  <2>1. PICK t \in Tasks :
          /\ tid[t] \in {-1, th} /\ (t \in Sticky => tid[t] = th)
          /\ Take(th, t)
          /\ multiq' \subseteq multiq
          /\ workqueue' \in [Threads -> Seq(Tasks)]
          /\ \A a \in Threads : \A i \in 1..Len(workqueue'[a]) :
               \E j \in 1..Len(workqueue[a]) : workqueue'[a][i] = workqueue[a][j]
    BY <1>17, Takes DEF GetNextTask
  <2>2. tid' = [tid EXCEPT ![t] = th]
    BY <2>1 DEF Take
  <2>3. \A u \in Sticky : tid'[u] = tid[u]
    BY <2>1, <2>2, TaskAssumption DEF Sticky
  <2>4. ASSUME NEW a \in Threads, NEW i \in 1..Len(workqueue'[a])
        PROVE  workqueue'[a][i] \in Sticky /\ tid[workqueue'[a][i]] = a
    <3>1. \E j \in 1..Len(workqueue[a]) : workqueue'[a][i] = workqueue[a][j]
      BY <2>1
    <3>. QED
      BY <3>1
  <2>. QED
    BY <2>1, <2>3, <2>4
<1>18. ASSUME NEW th \in Threads, TryNothing(th) PROVE Queued'
  BY <1>18 DEF TryNothing, FoundNothing
<1>19. ASSUME NEW th \in Threads, Look(th) PROVE Queued'
  BY <1>19 DEF Look
<1>20. ASSUME NEW th \in Threads, Poll(th) PROVE Queued'
  BY <1>20 DEF Poll
<1>21. ASSUME NEW th \in Threads, Announce(th) PROVE Queued'
  BY <1>21 DEF Announce
<1>22. ASSUME NEW th \in Threads, Recheck(th) PROVE Queued'
  BY <1>22 DEF Recheck
<1>23. ASSUME NEW th \in Threads, GetNextTaskAgain(th) PROVE Queued'
  <2>1. PICK t \in Tasks :
          /\ tid[t] \in {-1, th} /\ (t \in Sticky => tid[t] = th)
          /\ Take(th, t)
          /\ multiq' \subseteq multiq
          /\ workqueue' \in [Threads -> Seq(Tasks)]
          /\ \A a \in Threads : \A i \in 1..Len(workqueue'[a]) :
               \E j \in 1..Len(workqueue[a]) : workqueue'[a][i] = workqueue[a][j]
    BY <1>23, Takes DEF GetNextTaskAgain
  <2>2. tid' = [tid EXCEPT ![t] = th]
    BY <2>1 DEF Take
  <2>3. \A u \in Sticky : tid'[u] = tid[u]
    BY <2>1, <2>2, TaskAssumption DEF Sticky
  <2>4. ASSUME NEW a \in Threads, NEW i \in 1..Len(workqueue'[a])
        PROVE  workqueue'[a][i] \in Sticky /\ tid[workqueue'[a][i]] = a
    <3>1. \E j \in 1..Len(workqueue[a]) : workqueue'[a][i] = workqueue[a][j]
      BY <2>1
    <3>. QED
      BY <3>1
  <2>. QED
    BY <2>1, <2>3, <2>4
<1>24. ASSUME NEW th \in Threads, AgainNothing(th) PROVE Queued'
  BY <1>24 DEF AgainNothing, FoundNothing
<1>25. ASSUME NEW th \in Threads, Idle(th) PROVE Queued'
  BY <1>25 DEF Idle
<1>41. ASSUME NEW th \in Threads, TryWatch(th) PROVE Queued'
  BY <1>41 DEF TryWatch
<1>42. ASSUME NEW th \in Threads, AskThread0(th) PROVE Queued'
  BY <1>42 DEF AskThread0
<1>26. ASSUME NEW th \in Threads, Watch(th) PROVE Queued'
  BY <1>26 DEF Watch
<1>27. ASSUME NEW th \in Threads, Waiters(th) PROVE Queued'
  BY <1>27 DEF Waiters
<1>28. ASSUME NEW th \in Threads, RunNotAlive(th) PROVE Queued'
  BY <1>28 DEF RunNotAlive
<1>29. ASSUME NEW th \in Threads, RunKicked(th) PROVE Queued'
  BY <1>29 DEF RunKicked
<1>30. ASSUME NEW th \in Threads, RunCallback(th) PROVE Queued'
  BY <1>30, Enqueues DEF RunCallback, Enqueue
<1>31. ASSUME NEW th \in Threads, Polled(th) PROVE Queued'
  BY <1>31 DEF Polled
<1>32. ASSUME NEW th \in Threads, UvUnlock(th) PROVE Queued'
  BY <1>32 DEF UvUnlock
<1>33. ASSUME NEW th \in Threads, Unwatched(th) PROVE Queued'
  BY <1>33 DEF Unwatched
<1>34. ASSUME NEW th \in Threads, Park(th) PROVE Queued'
  BY <1>34 DEF Park
<1>35. ASSUME NEW th \in Threads, Switch(th) PROVE Queued'
  BY <1>35 DEF Switch
<1>36. ASSUME NEW th \in Threads, Switched(th) PROVE Queued'
  BY <1>36 DEF Switched, Tids, Switching
<1>37. ASSUME NEW th \in Threads, NEW u \in Tasks, Schedule(th, u) PROVE Queued'
  BY <1>37, Enqueues DEF Schedule, Enqueue
<1>38. ASSUME NEW th \in Threads, NEW o \in Threads, WakeThread(th, o) PROVE Queued'
  BY <1>38 DEF WakeThread
<1>39. CASE IoReady
  BY <1>39 DEF IoReady
<1>40. CASE UNCHANGED vars
  BY <1>40 DEF vars
<1>. QED
  BY <1>1, <1>2, <1>3, <1>4, <1>5, <1>6, <1>7, <1>8, <1>9, <1>10, <1>11, <1>12, <1>13, <1>14, <1>15, <1>16, <1>17, <1>18, <1>19, <1>20, <1>21, <1>22, <1>23, <1>24, <1>25, <1>26, <1>27, <1>28, <1>29, <1>30, <1>31, <1>32, <1>33, <1>34, <1>35, <1>36, <1>37, <1>38, <1>39, <1>40, <1>41, <1>42 DEF Next, Thread, Wakes, Locks, Runs, Searches, Switches

\* A thread leaves the wait for its signal when it was signalled.
LEMMA ParkedStep == TypeOK /\ Parked /\ [Next]_vars => Parked'
<1>. SUFFICES ASSUME TypeOK, Parked, [Next]_vars PROVE Parked'
  OBVIOUS
<1>. USE DEF Parked, TypeOK, running, queues, announce, uv, region, locals, events, counts, Goto, Call, Return, SetSleep, StartWakeup, NoWakeup
<1>1. ASSUME NEW th \in Threads, WakeSelf(th) PROVE Parked'
  BY <1>1 DEF WakeSelf
<1>2. ASSUME NEW th \in Threads, Signal(th) PROVE Parked'
  BY <1>2 DEF Signal
<1>3. ASSUME NEW th \in Threads, WakeLibuv(th) PROVE Parked'
  BY <1>3 DEF WakeLibuv
<1>4. ASSUME NEW th \in Threads, LockFree(th) PROVE Parked'
  BY <1>4 DEF LockFree
<1>5. ASSUME NEW th \in Threads, LockTaken(th) PROVE Parked'
  BY <1>5 DEF LockTaken
<1>6. ASSUME NEW th \in Threads, LockKick(th) PROVE Parked'
  BY <1>6 DEF LockKick
<1>7. ASSUME NEW th \in Threads, LockSpin(th) PROVE Parked'
  BY <1>7 DEF LockSpin
<1>8. ASSUME NEW th \in Threads, LockGot(th) PROVE Parked'
  BY <1>8 DEF LockGot
<1>9. ASSUME NEW th \in Threads, Yield(th) PROVE Parked'
  BY <1>9 DEF Yield, Enqueue
<1>10. ASSUME NEW th \in Threads, Wait(th) PROVE Parked'
  BY <1>10 DEF Wait
<1>11. ASSUME NEW th \in Threads, Finish(th) PROVE Parked'
  BY <1>11 DEF Finish
<1>12. ASSUME NEW th \in Threads, BeginIo(th) PROVE Parked'
  BY <1>12 DEF BeginIo
<1>13. ASSUME NEW th \in Threads, StartIo(th) PROVE Parked'
  BY <1>13 DEF StartIo
<1>14. ASSUME NEW th \in Threads, EnterThreadedRegion(th) PROVE Parked'
  BY <1>14 DEF EnterThreadedRegion
<1>15. ASSUME NEW th \in Threads, ExitThreadedRegion(th) PROVE Parked'
  BY <1>15 DEF ExitThreadedRegion
<1>16. ASSUME NEW th \in Threads, LeftRegion(th) PROVE Parked'
  BY <1>16 DEF LeftRegion, wakes_thread_0
<1>17. ASSUME NEW th \in Threads, GetNextTask(th) PROVE Parked'
  BY <1>17 DEF GetNextTask, TakeSticky, TakeMulti, Take
<1>18. ASSUME NEW th \in Threads, TryNothing(th) PROVE Parked'
  BY <1>18 DEF TryNothing, FoundNothing
<1>19. ASSUME NEW th \in Threads, Look(th) PROVE Parked'
  BY <1>19 DEF Look
<1>20. ASSUME NEW th \in Threads, Poll(th) PROVE Parked'
  BY <1>20 DEF Poll
<1>21. ASSUME NEW th \in Threads, Announce(th) PROVE Parked'
  BY <1>21 DEF Announce
<1>22. ASSUME NEW th \in Threads, Recheck(th) PROVE Parked'
  BY <1>22 DEF Recheck
<1>23. ASSUME NEW th \in Threads, GetNextTaskAgain(th) PROVE Parked'
  BY <1>23 DEF GetNextTaskAgain, TakeSticky, TakeMulti, Take
<1>24. ASSUME NEW th \in Threads, AgainNothing(th) PROVE Parked'
  BY <1>24 DEF AgainNothing, FoundNothing
<1>25. ASSUME NEW th \in Threads, Idle(th) PROVE Parked'
  BY <1>25 DEF Idle
<1>41. ASSUME NEW th \in Threads, TryWatch(th) PROVE Parked'
  BY <1>41 DEF TryWatch
<1>42. ASSUME NEW th \in Threads, AskThread0(th) PROVE Parked'
  BY <1>42 DEF AskThread0
<1>26. ASSUME NEW th \in Threads, Watch(th) PROVE Parked'
  BY <1>26 DEF Watch
<1>27. ASSUME NEW th \in Threads, Waiters(th) PROVE Parked'
  BY <1>27 DEF Waiters
<1>28. ASSUME NEW th \in Threads, RunNotAlive(th) PROVE Parked'
  BY <1>28 DEF RunNotAlive
<1>29. ASSUME NEW th \in Threads, RunKicked(th) PROVE Parked'
  BY <1>29 DEF RunKicked
<1>30. ASSUME NEW th \in Threads, RunCallback(th) PROVE Parked'
  BY <1>30 DEF RunCallback, Enqueue
<1>31. ASSUME NEW th \in Threads, Polled(th) PROVE Parked'
  BY <1>31 DEF Polled
<1>32. ASSUME NEW th \in Threads, UvUnlock(th) PROVE Parked'
  BY <1>32 DEF UvUnlock
<1>33. ASSUME NEW th \in Threads, Unwatched(th) PROVE Parked'
  BY <1>33 DEF Unwatched
<1>34. ASSUME NEW th \in Threads, Park(th) PROVE Parked'
  BY <1>34 DEF Park
<1>35. ASSUME NEW th \in Threads, Switch(th) PROVE Parked'
  BY <1>35 DEF Switch
<1>36. ASSUME NEW th \in Threads, Switched(th) PROVE Parked'
  BY <1>36 DEF Switched
<1>37. ASSUME NEW th \in Threads, NEW u \in Tasks, Schedule(th, u) PROVE Parked'
  BY <1>37 DEF Schedule, Enqueue
<1>38. ASSUME NEW th \in Threads, NEW o \in Threads, WakeThread(th, o) PROVE Parked'
  BY <1>38 DEF WakeThread
<1>39. CASE IoReady
  BY <1>39 DEF IoReady
<1>40. CASE UNCHANGED vars
  BY <1>40 DEF vars
<1>. QED
  BY <1>1, <1>2, <1>3, <1>4, <1>5, <1>6, <1>7, <1>8, <1>9, <1>10, <1>11, <1>12, <1>13, <1>14, <1>15, <1>16, <1>17, <1>18, <1>19, <1>20, <1>21, <1>22, <1>23, <1>24, <1>25, <1>26, <1>27, <1>28, <1>29, <1>30, <1>31, <1>32, <1>33, <1>34, <1>35, <1>36, <1>37, <1>38, <1>39, <1>40, <1>41, <1>42 DEF Next, Thread, Wakes, Locks, Runs, Searches, Switches

\* Who wakes a thread that waits goes on to signal it.
LEMMA AsleepStep == TypeOK /\ WakeupOK /\ Parked /\ AsleepMeansSleeping /\ [Next]_vars => AsleepMeansSleeping'
<1>. SUFFICES ASSUME TypeOK, WakeupOK, Parked, AsleepMeansSleeping, [Next]_vars PROVE AsleepMeansSleeping'
  OBVIOUS
<1>. USE DEF AsleepMeansSleeping, may_sleep, Parked, WakeupOK, TypeOK, running, queues, announce, uv, region, locals, events, counts, Goto, Call, Return, SetSleep, StartWakeup, NoWakeup
<1>1. ASSUME NEW th \in Threads, WakeSelf(th) PROVE AsleepMeansSleeping'
  BY <1>1 DEF WakeSelf
<1>2. ASSUME NEW th \in Threads, Signal(th) PROVE AsleepMeansSleeping'
  BY <1>2 DEF Signal
<1>3. ASSUME NEW th \in Threads, WakeLibuv(th) PROVE AsleepMeansSleeping'
  BY <1>3 DEF WakeLibuv
<1>4. ASSUME NEW th \in Threads, LockFree(th) PROVE AsleepMeansSleeping'
  BY <1>4 DEF LockFree
<1>5. ASSUME NEW th \in Threads, LockTaken(th) PROVE AsleepMeansSleeping'
  BY <1>5 DEF LockTaken
<1>6. ASSUME NEW th \in Threads, LockKick(th) PROVE AsleepMeansSleeping'
  BY <1>6 DEF LockKick
<1>7. ASSUME NEW th \in Threads, LockSpin(th) PROVE AsleepMeansSleeping'
  BY <1>7 DEF LockSpin
<1>8. ASSUME NEW th \in Threads, LockGot(th) PROVE AsleepMeansSleeping'
  BY <1>8 DEF LockGot
<1>9. ASSUME NEW th \in Threads, Yield(th) PROVE AsleepMeansSleeping'
  BY <1>9 DEF Yield, Enqueue
<1>10. ASSUME NEW th \in Threads, Wait(th) PROVE AsleepMeansSleeping'
  BY <1>10 DEF Wait
<1>11. ASSUME NEW th \in Threads, Finish(th) PROVE AsleepMeansSleeping'
  BY <1>11 DEF Finish
<1>12. ASSUME NEW th \in Threads, BeginIo(th) PROVE AsleepMeansSleeping'
  BY <1>12 DEF BeginIo
<1>13. ASSUME NEW th \in Threads, StartIo(th) PROVE AsleepMeansSleeping'
  BY <1>13 DEF StartIo
<1>14. ASSUME NEW th \in Threads, EnterThreadedRegion(th) PROVE AsleepMeansSleeping'
  BY <1>14 DEF EnterThreadedRegion
<1>15. ASSUME NEW th \in Threads, ExitThreadedRegion(th) PROVE AsleepMeansSleeping'
  BY <1>15 DEF ExitThreadedRegion
<1>16. ASSUME NEW th \in Threads, LeftRegion(th) PROVE AsleepMeansSleeping'
  BY <1>16 DEF LeftRegion, wakes_thread_0
<1>17. ASSUME NEW th \in Threads, GetNextTask(th) PROVE AsleepMeansSleeping'
  <2>1. /\ pc[th] = "try" /\ signalable' = signalable /\ wk' = wk
        /\ sleep_check_state' = sleep_check_state
        /\ pc' = [pc EXCEPT ![th] = "switch"]
    BY <1>17 DEF GetNextTask, TakeSticky, TakeMulti, Take
  <2>2. th \notin signalable
    BY <2>1
  <2>3. \A a \in signalable : sleep_check_state'[a] = sleep_check_state[a]
    BY <2>1, <2>2
  <2>4. \A a \in Threads : pc[a] = "signal" => pc'[a] = "signal"
    BY <2>1
  <2>. QED
    BY <2>1, <2>3, <2>4
<1>18. ASSUME NEW th \in Threads, TryNothing(th) PROVE AsleepMeansSleeping'
  BY <1>18 DEF TryNothing, FoundNothing
<1>19. ASSUME NEW th \in Threads, Look(th) PROVE AsleepMeansSleeping'
  BY <1>19 DEF Look
<1>20. ASSUME NEW th \in Threads, Poll(th) PROVE AsleepMeansSleeping'
  BY <1>20 DEF Poll
<1>21. ASSUME NEW th \in Threads, Announce(th) PROVE AsleepMeansSleeping'
  BY <1>21 DEF Announce
<1>22. ASSUME NEW th \in Threads, Recheck(th) PROVE AsleepMeansSleeping'
  BY <1>22 DEF Recheck
<1>23. ASSUME NEW th \in Threads, GetNextTaskAgain(th) PROVE AsleepMeansSleeping'
  <2>1. /\ pc[th] = "again" /\ signalable' = signalable /\ wk' = wk
        /\ sleep_check_state' = [sleep_check_state EXCEPT ![th] = "not_sleeping"]
        /\ pc' = [pc EXCEPT ![th] = "switch"]
    BY <1>23 DEF GetNextTaskAgain, TakeSticky, TakeMulti, Take
  <2>2. th \notin signalable
    BY <2>1
  <2>3. \A a \in signalable : sleep_check_state'[a] = sleep_check_state[a]
    BY <2>1, <2>2
  <2>4. \A a \in Threads : pc[a] = "signal" => pc'[a] = "signal"
    BY <2>1
  <2>. QED
    BY <2>1, <2>3, <2>4
<1>24. ASSUME NEW th \in Threads, AgainNothing(th) PROVE AsleepMeansSleeping'
  BY <1>24 DEF AgainNothing, FoundNothing
<1>25. ASSUME NEW th \in Threads, Idle(th) PROVE AsleepMeansSleeping'
  BY <1>25 DEF Idle
<1>41. ASSUME NEW th \in Threads, TryWatch(th) PROVE AsleepMeansSleeping'
  BY <1>41 DEF TryWatch
<1>42. ASSUME NEW th \in Threads, AskThread0(th) PROVE AsleepMeansSleeping'
  <2>1. /\ pc[th] = "ask" /\ signalable' = signalable /\ sleep_check_state' = sleep_check_state
        /\ \A a \in Threads \ {th} : pc'[a] = pc[a] /\ wk'[a] = wk[a]
    BY <1>42 DEF AskThread0
  <2>2. \A a \in Threads : pc[a] = "signal" => pc'[a] = "signal" /\ wk'[a] = wk[a]
    BY <2>1
  <2>3. ASSUME NEW x \in signalable
        PROVE  \/ sleep_check_state'[x] = "sleeping"
               \/ \E a \in Threads : pc'[a] = "signal" /\ wk'[a].other = x
    <3>1. CASE sleep_check_state[x] = "sleeping"
      BY <2>1, <3>1
    <3>2. CASE \E a \in Threads : pc[a] = "signal" /\ wk[a].other = x
      BY <2>2, <3>2
    <3>. QED
      BY <2>3, <3>1, <3>2
  <2>4. signalable' = signalable
    BY <2>1
  <2>. QED
    BY <2>3, <2>4
<1>26. ASSUME NEW th \in Threads, Watch(th) PROVE AsleepMeansSleeping'
  BY <1>26 DEF Watch
<1>27. ASSUME NEW th \in Threads, Waiters(th) PROVE AsleepMeansSleeping'
  BY <1>27 DEF Waiters
<1>28. ASSUME NEW th \in Threads, RunNotAlive(th) PROVE AsleepMeansSleeping'
  BY <1>28 DEF RunNotAlive
<1>29. ASSUME NEW th \in Threads, RunKicked(th) PROVE AsleepMeansSleeping'
  BY <1>29 DEF RunKicked
<1>30. ASSUME NEW th \in Threads, RunCallback(th) PROVE AsleepMeansSleeping'
  BY <1>30 DEF RunCallback, Enqueue
<1>31. ASSUME NEW th \in Threads, Polled(th) PROVE AsleepMeansSleeping'
  BY <1>31 DEF Polled
<1>32. ASSUME NEW th \in Threads, UvUnlock(th) PROVE AsleepMeansSleeping'
  BY <1>32 DEF UvUnlock
<1>33. ASSUME NEW th \in Threads, Unwatched(th) PROVE AsleepMeansSleeping'
  <2>1. /\ pc[th] = "unwatched" /\ signalable' = signalable /\ wk' = wk
        /\ \A a \in Threads \ {th} : pc'[a] = pc[a] /\ sleep_check_state'[a] = sleep_check_state[a]
    BY <1>33 DEF Unwatched
  <2>2. th \notin signalable /\ signalable \subseteq Threads
    BY <2>1
  <2>3. \A a \in Threads : pc[a] = "signal" => pc'[a] = "signal" /\ wk'[a] = wk[a]
    BY <2>1
  <2>4. ASSUME NEW x \in signalable
        PROVE  \/ sleep_check_state'[x] = "sleeping"
               \/ \E a \in Threads : pc'[a] = "signal" /\ wk'[a].other = x
    <3>1. CASE sleep_check_state[x] = "sleeping"
      BY <2>1, <2>2, <3>1
    <3>2. CASE \E a \in Threads : pc[a] = "signal" /\ wk[a].other = x
      BY <2>3, <3>2
    <3>. QED
      BY <2>4, <3>1, <3>2
  <2>. QED
    BY <2>1, <2>4
<1>34. ASSUME NEW th \in Threads, Park(th) PROVE AsleepMeansSleeping'
  BY <1>34 DEF Park, stays
<1>35. ASSUME NEW th \in Threads, Switch(th) PROVE AsleepMeansSleeping'
  BY <1>35 DEF Switch
<1>36. ASSUME NEW th \in Threads, Switched(th) PROVE AsleepMeansSleeping'
  BY <1>36 DEF Switched
<1>37. ASSUME NEW th \in Threads, NEW u \in Tasks, Schedule(th, u) PROVE AsleepMeansSleeping'
  BY <1>37 DEF Schedule, Enqueue
<1>38. ASSUME NEW th \in Threads, NEW o \in Threads, WakeThread(th, o) PROVE AsleepMeansSleeping'
  <2>1. CASE ~announced(o)
    <3>1. /\ pc[th] = "wakeup" /\ pc' = pc /\ signalable' = signalable
          /\ sleep_check_state' = sleep_check_state
          /\ wk' = [wk EXCEPT ![th] = awake(wk[th], o)]
      BY <1>38, <2>1 DEF WakeThread
    <3>2. \A a \in Threads : pc[a] = "signal" => pc'[a] = "signal" /\ wk'[a] = wk[a]
      BY <3>1
    <3>3. \A x \in signalable :
            \/ sleep_check_state'[x] = "sleeping"
            \/ \E a \in Threads : pc'[a] = "signal" /\ wk'[a].other = x
      BY <3>1, <3>2
    <3>. QED
      BY <3>1, <3>3
  <2>2. CASE announced(o)
    <3>1. /\ pc[th] = "wakeup" /\ pc' = [pc EXCEPT ![th] = "signal"]
          /\ sleep_check_state' = [sleep_check_state EXCEPT ![o] = "not_sleeping"]
          /\ signalable' = signalable
      BY <1>38, <2>2 DEF WakeThread
    <3>4. o \in Int /\ wk[th] \in Wakeup
      BY TaskAssumption DEF Threads
    <3>5. asleep(wk[th], o).other = o
      BY <3>4, NotedAsleep
    <3>2. pc'[th] = "signal" /\ wk'[th].other = o /\ \A a \in Threads \ {th} : wk'[a] = wk[a]
      BY <1>38, <2>2, <3>5 DEF WakeThread
    <3>3. ASSUME NEW x \in signalable
          PROVE  sleep_check_state'[x] = "sleeping" \/ \E a \in Threads : pc'[a] = "signal" /\ wk'[a].other = x
      <4>1. CASE x = o
        BY <3>2, <3>3, <4>1
      <4>2. CASE x # o
        <5>1. sleep_check_state'[x] = sleep_check_state[x]
          BY <3>1, <3>3, <4>2
        <5>2. ASSUME NEW a \in Threads, pc[a] = "signal", wk[a].other = x
              PROVE  pc'[a] = "signal" /\ wk'[a].other = x
          BY <3>1, <3>2, <5>2
        <5>. QED
          BY <3>3, <5>1, <5>2
      <4>. QED
        BY <4>1, <4>2
    <3>. QED
      BY <3>1, <3>3
  <2>. QED
    BY <2>1, <2>2
<1>39. CASE IoReady
  BY <1>39 DEF IoReady
<1>40. CASE UNCHANGED vars
  BY <1>40 DEF vars
<1>. QED
  BY <1>1, <1>2, <1>3, <1>4, <1>5, <1>6, <1>7, <1>8, <1>9, <1>10, <1>11, <1>12, <1>13, <1>14, <1>15, <1>16, <1>17, <1>18, <1>19, <1>20, <1>21, <1>22, <1>23, <1>24, <1>25, <1>26, <1>27, <1>28, <1>29, <1>30, <1>31, <1>32, <1>33, <1>34, <1>35, <1>36, <1>37, <1>38, <1>39, <1>40, <1>41, <1>42 DEF Next, Thread, Wakes, Locks, Runs, Searches, Switches

-----------------------------------------------------------------------------

LEMMA Initially == Init => IInv
<1>. SUFFICES ASSUME Init PROVE IInv
  OBVIOUS
<1>0. \A th \in Threads : Root[th] \in Sticky /\ tid[Root[th]] = th
  BY TaskAssumption DEF Init, Sticky
<1>1. TypeOK
  <2>1. \A t \in Sticky : tid[t] \in Threads
    BY <1>0 DEF Sticky
  <2>2. tid \in [Tasks -> Threads \cup {-1}]
    BY <2>1 DEF Init
  <2>. QED
    BY <2>2, TaskAssumption DEF Init, TypeOK, Places, Returns
<1>5. WakeupOK
  BY DEF Init, WakeupOK, Wakeup, NoWakeup
<1>2. Switching /\ Tids
  BY <1>0, TaskAssumption DEF Init, Switching, Tids
<1>3. Queued
  <2>1. \A t \in Sticky : tid[t] \in Threads
    BY <1>0 DEF Sticky
  <2>2. \A th \in Threads : 1..Len(workqueue[th]) = {}
    BY DEF Init
  <2>. QED
    BY <2>1, <2>2 DEF Init, Queued
<1>4. Parked /\ AsleepMeansSleeping
  BY DEF Init, Parked, AsleepMeansSleeping
<1>. QED
  BY <1>1, <1>2, <1>3, <1>4, <1>5 DEF IInv

LEMMA Inductively == IInv /\ [Next]_vars => IInv'
  BY TypeStep, WakeupStep, SwitchingStep, TidsStep, QueuedStep, ParkedStep, AsleepStep DEF IInv

LEMMA Invariantly == Spec => []IInv
  BY Initially, Inductively, PTL DEF Spec

\* jl_task_get_next, jl_set_task_tid and jl_switch: however tasks are queued, taken
\* and left, no task is on two threads, or on one and on its way to another.
THEOREM TasksAreExclusive == Spec => []OneThreadPerTask
<1>1. ASSUME TypeOK, Tids, NEW a \in Threads, NEW c \in Threads, a # c
      PROVE  /\ current[a] # current[c]
             /\ previous[a] # current[c]
             /\ next[a] # NoTask => next[a] \notin {current[c], next[c], previous[c]}
  <2>1. current[a] \in Tasks /\ current[c] \in Tasks /\ NoTask \notin Tasks
    BY <1>1, TaskAssumption DEF TypeOK
  <2>. QED
    BY <1>1, <2>1 DEF Tids
<1>2. IInv => OneThreadPerTask
  BY <1>1 DEF IInv, OneThreadPerTask
<1>. QED
  BY <1>2, Invariantly, PTL

\* partr.c: a thread that waits for its signal has announced it, or is about to be
\* signalled.
THEOREM SleepersAnnounce == Spec => []AsleepMeansSleeping
<1>1. IInv => AsleepMeansSleeping
  BY DEF IInv
<1>. QED
  BY <1>1, Invariantly, PTL

=============================================================================
