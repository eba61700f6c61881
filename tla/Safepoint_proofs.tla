-------------------------- MODULE Safepoint_proofs --------------------------
(***************************************************************************)
(* Theorems about stopping the world, for any numbers of threads, adopted   *)
(* threads, collections and ^C's.                                           *)
(*                                                                           *)
(* The inductive invariant IInv says that one thread at most is between     *)
(* winning jl_gc_running and giving it up, that the counter of              *)
(* jl_gc_enable counts the threads that turned the collector off and those  *)
(* that are being adopted, that nobody is adopted once a collection is      *)
(* committed, and that a thread the collector has seen stopped stays so, or *)
(* is the master on the way out of a ^C.                                    *)
(***************************************************************************)
EXTENDS Safepoint, TLAPS, FiniteSetTheorems

\* Between WinStart and ClearRunning, and from the look at the counter on.
Committing == {"protect", "snapshot", "stopping", "collecting", "collected", "unprotected"}
Collecting == {"started"} \cup Committing
Joining == {"join", "joined"}

\* jl_gc_running is set while a thread collects, and one thread at most does.
OneCollector ==
  /\ \A t, u \in Threads : pc[t] \in Collecting /\ pc[u] \in Collecting => t = u
  /\ jl_gc_running <=> \E t \in Threads : pc[t] \in Collecting

\* Who runs is in the list the collector reads.
Listed ==
  \A t \in Threads : pc[t] \notin {"outside", "adopt", "join"} => t \in known

\* jl_gc_disable_counter counts.
Disablers == {t \in Threads : disable_gc[t]}
Adopters == {t \in Threads : pc[t] \in {"adopt", "join", "joined"}}
CounterAgrees == jl_gc_disable_counter = Cardinality(Disablers) + Cardinality(Adopters)

\* Nobody is adopted while a collection is committed.
NobodyJoins ==
  (\E t \in Threads : pc[t] \in Committing) => \A u \in Threads : pc[u] \notin Joining

\* Who was seen stopped has not come back, unless the master threw; and who turned
\* the collector off since the collection began waits for its end.
SeenStopped ==
  \A t \in Threads :
    /\ pc[t] \in {"stopping", "collecting"} =>
         \A u \in Threads \ unseen : pc[u] = "run" => gc_state[u] # "unsafe"
    /\ pc[t] = "collecting" =>
         unseen = {} /\ \A u \in Disablers : u = Master /\ pc[u] \in {"poll", "handler"}

IInv ==
  TypeOK /\ OneCollector /\ Listed /\ CounterAgrees /\ NobodyJoins /\ PagesAgree
  /\ SeenStopped

-----------------------------------------------------------------------------

\* Types are kept.
LEMMA TypeStep == TypeOK /\ [Next]_vars => TypeOK'
<1>. SUFFICES ASSUME TypeOK, [Next]_vars PROVE TypeOK'
  OBVIOUS
<1>. USE DEF TypeOK, Steps, collector, switches, signals, Goto, SetState, Running, Threads
<1>1. ASSUME NEW t \in Threads, EnterSafe(t) PROVE TypeOK'
  BY <1>1 DEF EnterSafe
<1>2. ASSUME NEW t \in Threads, LeaveSafe(t) PROVE TypeOK'
  BY <1>2 DEF LeaveSafe
<1>3. ASSUME NEW t \in Threads, GcDisable(t) PROVE TypeOK'
  BY <1>3 DEF GcDisable
<1>4. ASSUME NEW t \in Threads, GcEnable(t) PROVE TypeOK'
  BY <1>4 DEF GcEnable
<1>5. ASSUME NEW t \in Threads, Adopt(t) PROVE TypeOK'
  BY <1>5 DEF Adopt
<1>6. ASSUME NEW t \in Threads, Exit(t) PROVE TypeOK'
  BY <1>6 DEF Exit
<1>7. ASSUME NEW t \in Threads, Fault(t) PROVE TypeOK'
  BY <1>7 DEF Fault
<1>8. ASSUME NEW t \in Threads, PollPassed(t) PROVE TypeOK'
  BY <1>8 DEF PollPassed
<1>9. ASSUME NEW t \in Threads, Block(t) PROVE TypeOK'
  BY <1>9 DEF Block
<1>10. ASSUME NEW t \in Threads, WaitOver(t) PROVE TypeOK'
  BY <1>10 DEF WaitOver
<1>10a. ASSUME NEW t \in Threads, LeaveHandler(t) PROVE TypeOK'
  BY <1>10a DEF LeaveHandler
<1>10b. ASSUME NEW t \in Threads, LeaveCollect(t) PROVE TypeOK'
  BY <1>10b DEF LeaveCollect
<1>11. ASSUME NEW t \in Threads, Collect(t) PROVE TypeOK'
  BY <1>11 DEF Collect
<1>12. ASSUME NEW t \in Threads, WinStart(t) PROVE TypeOK'
  BY <1>12 DEF WinStart
<1>13. ASSUME NEW t \in Threads, LoseStart(t) PROVE TypeOK'
  BY <1>13 DEF LoseStart
<1>14. ASSUME NEW t \in Threads, BackOut(t) PROVE TypeOK'
  BY <1>14 DEF BackOut
<1>15. ASSUME NEW t \in Threads, Committed(t) PROVE TypeOK'
  BY <1>15 DEF Committed
<1>16. ASSUME NEW t \in Threads, ProtectPages(t) PROVE TypeOK'
  BY <1>16 DEF ProtectPages
<1>17. ASSUME NEW t \in Threads, Snapshot(t) PROVE TypeOK'
  BY <1>17 DEF Snapshot
<1>18. ASSUME NEW t \in Threads, BeginCollection(t) PROVE TypeOK'
  BY <1>18 DEF BeginCollection
<1>19. ASSUME NEW t \in Threads, EndCollection(t) PROVE TypeOK'
  BY <1>19 DEF EndCollection
<1>20. ASSUME NEW t \in Threads, UnprotectPages(t) PROVE TypeOK'
  BY <1>20 DEF UnprotectPages
<1>21. ASSUME NEW t \in Threads, ClearRunning(t) PROVE TypeOK'
  BY <1>21 DEF ClearRunning
<1>22. ASSUME NEW t \in Threads, Broadcast(t) PROVE TypeOK'
  BY <1>22 DEF Broadcast
<1>23. ASSUME NEW t \in Threads, AdoptMayJoin(t) PROVE TypeOK'
  BY <1>23 DEF AdoptMayJoin
<1>24. ASSUME NEW t \in Threads, Join(t) PROVE TypeOK'
  BY <1>24 DEF Join
<1>25. ASSUME NEW t \in Threads, Adopted(t) PROVE TypeOK'
  BY <1>25 DEF Adopted
<1>26. ASSUME NEW t \in Threads, NEW u \in Threads, SeeStopped(t, u) PROVE TypeOK'
  BY <1>26 DEF SeeStopped, is_stopped
<1>27. CASE Sigint
  BY <1>27, SafepointAssumption DEF Sigint
<1>28. CASE HandleSigint
  BY <1>28, SafepointAssumption DEF HandleSigint, Consume, Defer
<1>29. CASE Usr2
  <2>1. Master \in Threads
    BY SafepointAssumption DEF Threads
  <2>2. /\ signal_pending' \in 0..2 /\ enable_cnt' \in [0..2 -> Int]
    BY <1>29 DEF Usr2, Consume
  <2>3. pc' \in [Threads -> Steps] /\ gc_state' \in [Threads -> {"unsafe", "waiting", "safe"}]
    BY <1>29, <2>1 DEF Usr2
  <2>. QED
    BY <1>29, <2>2, <2>3 DEF Usr2
<1>30. CASE SigatomicBegin
  BY <1>30, SafepointAssumption DEF SigatomicBegin
<1>31. CASE SigatomicEnd
  BY <1>31, SafepointAssumption DEF SigatomicEnd
<1>32. CASE UNCHANGED vars
  BY <1>32 DEF vars
<1>. QED
  BY <1>1, <1>2, <1>3, <1>4, <1>5, <1>6, <1>7, <1>8, <1>9, <1>10, <1>10a, <1>10b, <1>11, <1>12, <1>13, <1>14, <1>15, <1>16, <1>17, <1>18, <1>19, <1>20, <1>21, <1>22, <1>23, <1>24, <1>25, <1>26, <1>27, <1>28, <1>29, <1>30, <1>31, <1>32 DEF Next, Works, Waits, Collects, Adopts

\* Who wins jl_gc_running is alone until it gives it up.
LEMMA OneCollectorStep == TypeOK /\ OneCollector /\ [Next]_vars => OneCollector'
<1>. SUFFICES ASSUME TypeOK, OneCollector, [Next]_vars PROVE OneCollector'
  OBVIOUS
<1>. USE DEF OneCollector, TypeOK, Collecting, Committing, collector, switches, signals, Goto, SetState, Running
<1>1. ASSUME NEW t \in Threads, EnterSafe(t) PROVE OneCollector'
  BY <1>1 DEF EnterSafe
<1>2. ASSUME NEW t \in Threads, LeaveSafe(t) PROVE OneCollector'
  BY <1>2 DEF LeaveSafe
<1>3. ASSUME NEW t \in Threads, GcDisable(t) PROVE OneCollector'
  BY <1>3 DEF GcDisable
<1>4. ASSUME NEW t \in Threads, GcEnable(t) PROVE OneCollector'
  BY <1>4 DEF GcEnable
<1>5. ASSUME NEW t \in Threads, Adopt(t) PROVE OneCollector'
  BY <1>5 DEF Adopt
<1>6. ASSUME NEW t \in Threads, Exit(t) PROVE OneCollector'
  BY <1>6 DEF Exit
<1>7. ASSUME NEW t \in Threads, Fault(t) PROVE OneCollector'
  BY <1>7 DEF Fault
<1>8. ASSUME NEW t \in Threads, PollPassed(t) PROVE OneCollector'
  BY <1>8 DEF PollPassed
<1>9. ASSUME NEW t \in Threads, Block(t) PROVE OneCollector'
  BY <1>9 DEF Block
<1>10. ASSUME NEW t \in Threads, WaitOver(t) PROVE OneCollector'
  BY <1>10 DEF WaitOver
<1>10a. ASSUME NEW t \in Threads, LeaveHandler(t) PROVE OneCollector'
  BY <1>10a DEF LeaveHandler
<1>10b. ASSUME NEW t \in Threads, LeaveCollect(t) PROVE OneCollector'
  BY <1>10b DEF LeaveCollect
<1>11. ASSUME NEW t \in Threads, Collect(t) PROVE OneCollector'
  BY <1>11 DEF Collect
<1>12. ASSUME NEW t \in Threads, WinStart(t) PROVE OneCollector'
  BY <1>12 DEF WinStart
<1>13. ASSUME NEW t \in Threads, LoseStart(t) PROVE OneCollector'
  BY <1>13 DEF LoseStart
<1>14. ASSUME NEW t \in Threads, BackOut(t) PROVE OneCollector'
  BY <1>14 DEF BackOut
<1>15. ASSUME NEW t \in Threads, Committed(t) PROVE OneCollector'
  BY <1>15 DEF Committed
<1>16. ASSUME NEW t \in Threads, ProtectPages(t) PROVE OneCollector'
  BY <1>16 DEF ProtectPages
<1>17. ASSUME NEW t \in Threads, Snapshot(t) PROVE OneCollector'
  BY <1>17 DEF Snapshot
<1>18. ASSUME NEW t \in Threads, BeginCollection(t) PROVE OneCollector'
  BY <1>18 DEF BeginCollection
<1>19. ASSUME NEW t \in Threads, EndCollection(t) PROVE OneCollector'
  BY <1>19 DEF EndCollection
<1>20. ASSUME NEW t \in Threads, UnprotectPages(t) PROVE OneCollector'
  BY <1>20 DEF UnprotectPages
<1>21. ASSUME NEW t \in Threads, ClearRunning(t) PROVE OneCollector'
  BY <1>21 DEF ClearRunning
<1>22. ASSUME NEW t \in Threads, Broadcast(t) PROVE OneCollector'
  BY <1>22 DEF Broadcast
<1>23. ASSUME NEW t \in Threads, AdoptMayJoin(t) PROVE OneCollector'
  BY <1>23 DEF AdoptMayJoin
<1>24. ASSUME NEW t \in Threads, Join(t) PROVE OneCollector'
  BY <1>24 DEF Join
<1>25. ASSUME NEW t \in Threads, Adopted(t) PROVE OneCollector'
  BY <1>25 DEF Adopted
<1>26. ASSUME NEW t \in Threads, NEW u \in Threads, SeeStopped(t, u) PROVE OneCollector'
  BY <1>26 DEF SeeStopped, is_stopped
<1>27. CASE Sigint
  BY <1>27, SafepointAssumption DEF Sigint
<1>28. CASE HandleSigint
  BY <1>28, SafepointAssumption DEF HandleSigint, Consume, Defer
<1>29. CASE Usr2
  BY <1>29, SafepointAssumption DEF Usr2, Consume
<1>30. CASE SigatomicBegin
  BY <1>30, SafepointAssumption DEF SigatomicBegin
<1>31. CASE SigatomicEnd
  BY <1>31, SafepointAssumption DEF SigatomicEnd
<1>32. CASE UNCHANGED vars
  BY <1>32 DEF vars
<1>. QED
  BY <1>1, <1>2, <1>3, <1>4, <1>5, <1>6, <1>7, <1>8, <1>9, <1>10, <1>10a, <1>10b, <1>11, <1>12, <1>13, <1>14, <1>15, <1>16, <1>17, <1>18, <1>19, <1>20, <1>21, <1>22, <1>23, <1>24, <1>25, <1>26, <1>27, <1>28, <1>29, <1>30, <1>31, <1>32 DEF Next, Works, Waits, Collects, Adopts

\* A thread is in the list before it runs.
LEMMA ListedStep == TypeOK /\ Listed /\ [Next]_vars => Listed'
<1>. SUFFICES ASSUME TypeOK, Listed, [Next]_vars PROVE Listed'
  OBVIOUS
<1>. USE DEF Listed, TypeOK, collector, switches, signals, Goto, SetState, Running
<1>1. ASSUME NEW t \in Threads, EnterSafe(t) PROVE Listed'
  BY <1>1 DEF EnterSafe
<1>2. ASSUME NEW t \in Threads, LeaveSafe(t) PROVE Listed'
  BY <1>2 DEF LeaveSafe
<1>3. ASSUME NEW t \in Threads, GcDisable(t) PROVE Listed'
  BY <1>3 DEF GcDisable
<1>4. ASSUME NEW t \in Threads, GcEnable(t) PROVE Listed'
  BY <1>4 DEF GcEnable
<1>5. ASSUME NEW t \in Threads, Adopt(t) PROVE Listed'
  BY <1>5 DEF Adopt
<1>6. ASSUME NEW t \in Threads, Exit(t) PROVE Listed'
  BY <1>6 DEF Exit
<1>7. ASSUME NEW t \in Threads, Fault(t) PROVE Listed'
  BY <1>7 DEF Fault
<1>8. ASSUME NEW t \in Threads, PollPassed(t) PROVE Listed'
  BY <1>8 DEF PollPassed
<1>9. ASSUME NEW t \in Threads, Block(t) PROVE Listed'
  BY <1>9 DEF Block
<1>10. ASSUME NEW t \in Threads, WaitOver(t) PROVE Listed'
  BY <1>10 DEF WaitOver
<1>10a. ASSUME NEW t \in Threads, LeaveHandler(t) PROVE Listed'
  BY <1>10a DEF LeaveHandler
<1>10b. ASSUME NEW t \in Threads, LeaveCollect(t) PROVE Listed'
  BY <1>10b DEF LeaveCollect
<1>11. ASSUME NEW t \in Threads, Collect(t) PROVE Listed'
  BY <1>11 DEF Collect
<1>12. ASSUME NEW t \in Threads, WinStart(t) PROVE Listed'
  BY <1>12 DEF WinStart
<1>13. ASSUME NEW t \in Threads, LoseStart(t) PROVE Listed'
  BY <1>13 DEF LoseStart
<1>14. ASSUME NEW t \in Threads, BackOut(t) PROVE Listed'
  BY <1>14 DEF BackOut
<1>15. ASSUME NEW t \in Threads, Committed(t) PROVE Listed'
  BY <1>15 DEF Committed
<1>16. ASSUME NEW t \in Threads, ProtectPages(t) PROVE Listed'
  BY <1>16 DEF ProtectPages
<1>17. ASSUME NEW t \in Threads, Snapshot(t) PROVE Listed'
  BY <1>17 DEF Snapshot
<1>18. ASSUME NEW t \in Threads, BeginCollection(t) PROVE Listed'
  BY <1>18 DEF BeginCollection
<1>19. ASSUME NEW t \in Threads, EndCollection(t) PROVE Listed'
  BY <1>19 DEF EndCollection
<1>20. ASSUME NEW t \in Threads, UnprotectPages(t) PROVE Listed'
  BY <1>20 DEF UnprotectPages
<1>21. ASSUME NEW t \in Threads, ClearRunning(t) PROVE Listed'
  BY <1>21 DEF ClearRunning
<1>22. ASSUME NEW t \in Threads, Broadcast(t) PROVE Listed'
  BY <1>22 DEF Broadcast
<1>23. ASSUME NEW t \in Threads, AdoptMayJoin(t) PROVE Listed'
  BY <1>23 DEF AdoptMayJoin
<1>24. ASSUME NEW t \in Threads, Join(t) PROVE Listed'
  BY <1>24 DEF Join
<1>25. ASSUME NEW t \in Threads, Adopted(t) PROVE Listed'
  BY <1>25 DEF Adopted
<1>26. ASSUME NEW t \in Threads, NEW u \in Threads, SeeStopped(t, u) PROVE Listed'
  BY <1>26 DEF SeeStopped, is_stopped
<1>27. CASE Sigint
  BY <1>27, SafepointAssumption DEF Sigint
<1>28. CASE HandleSigint
  BY <1>28, SafepointAssumption DEF HandleSigint, Consume, Defer
<1>29. CASE Usr2
  BY <1>29, SafepointAssumption DEF Usr2, Consume
<1>30. CASE SigatomicBegin
  BY <1>30, SafepointAssumption DEF SigatomicBegin
<1>31. CASE SigatomicEnd
  BY <1>31, SafepointAssumption DEF SigatomicEnd
<1>32. CASE UNCHANGED vars
  BY <1>32 DEF vars
<1>. QED
  BY <1>1, <1>2, <1>3, <1>4, <1>5, <1>6, <1>7, <1>8, <1>9, <1>10, <1>10a, <1>10b, <1>11, <1>12, <1>13, <1>14, <1>15, <1>16, <1>17, <1>18, <1>19, <1>20, <1>21, <1>22, <1>23, <1>24, <1>25, <1>26, <1>27, <1>28, <1>29, <1>30, <1>31, <1>32 DEF Next, Works, Waits, Collects, Adopts

\* The sets that are counted are finite.
LEMMA CountedFinite == IsFiniteSet(Disablers) /\ IsFiniteSet(Adopters)
<1>1. Disablers \subseteq Threads /\ Adopters \subseteq Threads
  BY DEF Disablers, Adopters
<1>. QED
  BY <1>1, SafepointAssumption, FS_Subset

\* One more, and one less, to count.
LEMMA CountMore ==
  ASSUME NEW S, NEW t, IsFiniteSet(S), t \notin S
  PROVE  /\ Cardinality(S) \in Nat
         /\ Cardinality(S \cup {t}) = Cardinality(S) + 1
  BY FS_CardinalityType, FS_AddElement

LEMMA CountLess ==
  ASSUME NEW S, NEW t, IsFiniteSet(S), t \in S
  PROVE  /\ Cardinality(S) \in Nat
         /\ Cardinality(S \ {t}) = Cardinality(S) - 1
  BY FS_CardinalityType, FS_RemoveElement

\* jl_gc_disable_counter goes on counting.
LEMMA CounterStep == TypeOK /\ CounterAgrees /\ [Next]_vars => CounterAgrees'
<1>. SUFFICES ASSUME TypeOK, CounterAgrees, [Next]_vars PROVE CounterAgrees'
  OBVIOUS
<1>. USE DEF CounterAgrees, TypeOK, collector, switches, signals, Goto, SetState, Running
<1>1. ASSUME NEW t \in Threads, EnterSafe(t) PROVE CounterAgrees'
  <2>1. Disablers' = Disablers /\ Adopters' = Adopters
    BY <1>1 DEF EnterSafe, Disablers, Adopters
  <2>. QED
    BY <1>1, <2>1 DEF EnterSafe
<1>2. ASSUME NEW t \in Threads, LeaveSafe(t) PROVE CounterAgrees'
  <2>1. Disablers' = Disablers /\ Adopters' = Adopters
    BY <1>2 DEF LeaveSafe, Disablers, Adopters
  <2>. QED
    BY <1>2, <2>1 DEF LeaveSafe
<1>3. ASSUME NEW t \in Threads, GcDisable(t) PROVE CounterAgrees'
  <2>1. Disablers' = Disablers \cup {t}
    BY <1>3 DEF GcDisable, Disablers
  <2>2. Adopters' = Adopters
    BY <1>3 DEF GcDisable, Adopters
  <2>3. jl_gc_disable_counter' = jl_gc_disable_counter + 1
    BY <1>3 DEF GcDisable
  <2>4. t \notin Disablers
    BY <1>3 DEF GcDisable, Disablers
  <2>. QED
    BY <2>1, <2>2, <2>3, <2>4, CountedFinite, CountMore, FS_CardinalityType
<1>4. ASSUME NEW t \in Threads, GcEnable(t) PROVE CounterAgrees'
  <2>1. Disablers' = Disablers \ {t}
    BY <1>4 DEF GcEnable, Disablers
  <2>2. Adopters' = Adopters
    BY <1>4 DEF GcEnable, Adopters
  <2>3. jl_gc_disable_counter' = jl_gc_disable_counter - 1
    BY <1>4 DEF GcEnable
  <2>4. t \in Disablers
    BY <1>4 DEF GcEnable, Disablers
  <2>. QED
    BY <2>1, <2>2, <2>3, <2>4, CountedFinite, CountLess, FS_CardinalityType
<1>5. ASSUME NEW t \in Threads, Adopt(t) PROVE CounterAgrees'
  <2>1. Disablers' = Disablers
    BY <1>5 DEF Adopt, Disablers
  <2>2. Adopters' = Adopters \cup {t}
    BY <1>5 DEF Adopt, Adopters
  <2>3. jl_gc_disable_counter' = jl_gc_disable_counter + 1
    BY <1>5 DEF Adopt
  <2>4. t \notin Adopters
    BY <1>5 DEF Adopt, Adopters
  <2>. QED
    BY <2>1, <2>2, <2>3, <2>4, CountedFinite, CountMore, FS_CardinalityType
<1>6. ASSUME NEW t \in Threads, Exit(t) PROVE CounterAgrees'
  <2>1. Disablers' = Disablers /\ Adopters' = Adopters
    BY <1>6 DEF Exit, Disablers, Adopters
  <2>. QED
    BY <1>6, <2>1 DEF Exit
<1>7. ASSUME NEW t \in Threads, Fault(t) PROVE CounterAgrees'
  <2>1. Disablers' = Disablers /\ Adopters' = Adopters
    BY <1>7 DEF Fault, Disablers, Adopters
  <2>. QED
    BY <1>7, <2>1 DEF Fault
<1>8. ASSUME NEW t \in Threads, PollPassed(t) PROVE CounterAgrees'
  <2>1. Disablers' = Disablers /\ Adopters' = Adopters
    BY <1>8 DEF PollPassed, Disablers, Adopters
  <2>. QED
    BY <1>8, <2>1 DEF PollPassed
<1>9. ASSUME NEW t \in Threads, Block(t) PROVE CounterAgrees'
  <2>1. Disablers' = Disablers /\ Adopters' = Adopters
    BY <1>9 DEF Block, Disablers, Adopters
  <2>. QED
    BY <1>9, <2>1 DEF Block
<1>10. ASSUME NEW t \in Threads, WaitOver(t) PROVE CounterAgrees'
  <2>1. Disablers' = Disablers /\ Adopters' = Adopters
    BY <1>10 DEF WaitOver, Disablers, Adopters
  <2>. QED
    BY <1>10, <2>1 DEF WaitOver
<1>10a. ASSUME NEW t \in Threads, LeaveHandler(t) PROVE CounterAgrees'
  <2>1. Disablers' = Disablers /\ Adopters' = Adopters
    BY <1>10a DEF LeaveHandler, Disablers, Adopters
  <2>. QED
    BY <1>10a, <2>1 DEF LeaveHandler
<1>10b. ASSUME NEW t \in Threads, LeaveCollect(t) PROVE CounterAgrees'
  <2>1. Disablers' = Disablers /\ Adopters' = Adopters
    BY <1>10b DEF LeaveCollect, Disablers, Adopters
  <2>. QED
    BY <1>10b, <2>1 DEF LeaveCollect
<1>11. ASSUME NEW t \in Threads, Collect(t) PROVE CounterAgrees'
  <2>1. Disablers' = Disablers /\ Adopters' = Adopters
    BY <1>11 DEF Collect, Disablers, Adopters
  <2>. QED
    BY <1>11, <2>1 DEF Collect
<1>12. ASSUME NEW t \in Threads, WinStart(t) PROVE CounterAgrees'
  <2>1. Disablers' = Disablers /\ Adopters' = Adopters
    BY <1>12 DEF WinStart, Disablers, Adopters
  <2>. QED
    BY <1>12, <2>1 DEF WinStart
<1>13. ASSUME NEW t \in Threads, LoseStart(t) PROVE CounterAgrees'
  <2>1. Disablers' = Disablers /\ Adopters' = Adopters
    BY <1>13 DEF LoseStart, Disablers, Adopters
  <2>. QED
    BY <1>13, <2>1 DEF LoseStart
<1>14. ASSUME NEW t \in Threads, BackOut(t) PROVE CounterAgrees'
  <2>1. Disablers' = Disablers /\ Adopters' = Adopters
    BY <1>14 DEF BackOut, Disablers, Adopters
  <2>. QED
    BY <1>14, <2>1 DEF BackOut
<1>15. ASSUME NEW t \in Threads, Committed(t) PROVE CounterAgrees'
  <2>1. Disablers' = Disablers /\ Adopters' = Adopters
    BY <1>15 DEF Committed, Disablers, Adopters
  <2>. QED
    BY <1>15, <2>1 DEF Committed
<1>16. ASSUME NEW t \in Threads, ProtectPages(t) PROVE CounterAgrees'
  <2>1. Disablers' = Disablers /\ Adopters' = Adopters
    BY <1>16 DEF ProtectPages, Disablers, Adopters
  <2>. QED
    BY <1>16, <2>1 DEF ProtectPages
<1>17. ASSUME NEW t \in Threads, Snapshot(t) PROVE CounterAgrees'
  <2>1. Disablers' = Disablers /\ Adopters' = Adopters
    BY <1>17 DEF Snapshot, Disablers, Adopters
  <2>. QED
    BY <1>17, <2>1 DEF Snapshot
<1>18. ASSUME NEW t \in Threads, BeginCollection(t) PROVE CounterAgrees'
  <2>1. Disablers' = Disablers /\ Adopters' = Adopters
    BY <1>18 DEF BeginCollection, Disablers, Adopters
  <2>. QED
    BY <1>18, <2>1 DEF BeginCollection
<1>19. ASSUME NEW t \in Threads, EndCollection(t) PROVE CounterAgrees'
  <2>1. Disablers' = Disablers /\ Adopters' = Adopters
    BY <1>19 DEF EndCollection, Disablers, Adopters
  <2>. QED
    BY <1>19, <2>1 DEF EndCollection
<1>20. ASSUME NEW t \in Threads, UnprotectPages(t) PROVE CounterAgrees'
  <2>1. Disablers' = Disablers /\ Adopters' = Adopters
    BY <1>20 DEF UnprotectPages, Disablers, Adopters
  <2>. QED
    BY <1>20, <2>1 DEF UnprotectPages
<1>21. ASSUME NEW t \in Threads, ClearRunning(t) PROVE CounterAgrees'
  <2>1. Disablers' = Disablers /\ Adopters' = Adopters
    BY <1>21 DEF ClearRunning, Disablers, Adopters
  <2>. QED
    BY <1>21, <2>1 DEF ClearRunning
<1>22. ASSUME NEW t \in Threads, Broadcast(t) PROVE CounterAgrees'
  <2>1. Disablers' = Disablers /\ Adopters' = Adopters
    BY <1>22 DEF Broadcast, Disablers, Adopters
  <2>. QED
    BY <1>22, <2>1 DEF Broadcast
<1>23. ASSUME NEW t \in Threads, AdoptMayJoin(t) PROVE CounterAgrees'
  <2>1. Disablers' = Disablers /\ Adopters' = Adopters
    BY <1>23 DEF AdoptMayJoin, Disablers, Adopters
  <2>. QED
    BY <1>23, <2>1 DEF AdoptMayJoin
<1>24. ASSUME NEW t \in Threads, Join(t) PROVE CounterAgrees'
  <2>1. Disablers' = Disablers /\ Adopters' = Adopters
    BY <1>24 DEF Join, Disablers, Adopters
  <2>. QED
    BY <1>24, <2>1 DEF Join
<1>25. ASSUME NEW t \in Threads, Adopted(t) PROVE CounterAgrees'
  <2>1. Disablers' = Disablers
    BY <1>25 DEF Adopted, Disablers
  <2>2. Adopters' = Adopters \ {t}
    BY <1>25 DEF Adopted, Adopters
  <2>3. jl_gc_disable_counter' = jl_gc_disable_counter - 1
    BY <1>25 DEF Adopted
  <2>4. t \in Adopters
    BY <1>25 DEF Adopted, Adopters
  <2>. QED
    BY <2>1, <2>2, <2>3, <2>4, CountedFinite, CountLess, FS_CardinalityType
<1>26. ASSUME NEW t \in Threads, NEW u \in Threads, SeeStopped(t, u) PROVE CounterAgrees'
  BY <1>26 DEF SeeStopped, Disablers, Adopters
<1>27. CASE Sigint
  <2>1. Disablers' = Disablers /\ Adopters' = Adopters
    BY <1>27, SafepointAssumption DEF Sigint, Disablers, Adopters, Threads
  <2>. QED
    BY <1>27, <2>1 DEF Sigint
<1>28. CASE HandleSigint
  <2>1. Disablers' = Disablers /\ Adopters' = Adopters
    BY <1>28, SafepointAssumption DEF HandleSigint, Disablers, Adopters, Threads
  <2>. QED
    BY <1>28, <2>1 DEF HandleSigint
<1>29. CASE Usr2
  <2>1. Disablers' = Disablers /\ Adopters' = Adopters
    BY <1>29, SafepointAssumption DEF Usr2, Disablers, Adopters, Threads
  <2>. QED
    BY <1>29, <2>1 DEF Usr2
<1>30. CASE SigatomicBegin
  <2>1. Disablers' = Disablers /\ Adopters' = Adopters
    BY <1>30, SafepointAssumption DEF SigatomicBegin, Disablers, Adopters, Threads
  <2>. QED
    BY <1>30, <2>1 DEF SigatomicBegin
<1>31. CASE SigatomicEnd
  <2>1. Disablers' = Disablers /\ Adopters' = Adopters
    BY <1>31, SafepointAssumption DEF SigatomicEnd, Disablers, Adopters, Threads
  <2>. QED
    BY <1>31, <2>1 DEF SigatomicEnd
<1>32. CASE UNCHANGED vars
  BY <1>32 DEF vars, Disablers, Adopters
<1>. QED
  BY <1>1, <1>2, <1>3, <1>4, <1>5, <1>6, <1>7, <1>8, <1>9, <1>10, <1>10a, <1>10b, <1>11, <1>12, <1>13, <1>14, <1>15, <1>16, <1>17, <1>18, <1>19, <1>20, <1>21, <1>22, <1>23, <1>24, <1>25, <1>26, <1>27, <1>28, <1>29, <1>30, <1>31, <1>32 DEF Next, Works, Waits, Collects, Adopts

\* A counter that is not above 0 means that nobody is counted.
LEMMA NobodyCounted ==
  ASSUME CounterAgrees, ~(jl_gc_disable_counter > 0)
  PROVE  Disablers = {} /\ Adopters = {}
<1>1. Cardinality(Disablers) \in Nat /\ Cardinality(Adopters) \in Nat
  BY CountedFinite, FS_CardinalityType
<1>2. Cardinality(Disablers) = 0 /\ Cardinality(Adopters) = 0
  BY <1>1 DEF CounterAgrees
<1>. QED
  BY <1>2, CountedFinite, FS_EmptySet

\* A collection is committed when nobody is being adopted, and nobody joins it.
LEMMA NobodyJoinsStep == TypeOK /\ OneCollector /\ CounterAgrees /\ NobodyJoins /\ [Next]_vars => NobodyJoins'
<1>. SUFFICES ASSUME TypeOK, OneCollector, CounterAgrees, NobodyJoins, [Next]_vars PROVE NobodyJoins'
  OBVIOUS
<1>. USE DEF NobodyJoins, OneCollector, TypeOK, Collecting, Committing, Joining, collector, switches, signals, Goto, SetState, Running
<1>1. ASSUME NEW t \in Threads, EnterSafe(t) PROVE NobodyJoins'
  BY <1>1 DEF EnterSafe
<1>2. ASSUME NEW t \in Threads, LeaveSafe(t) PROVE NobodyJoins'
  BY <1>2 DEF LeaveSafe
<1>3. ASSUME NEW t \in Threads, GcDisable(t) PROVE NobodyJoins'
  BY <1>3 DEF GcDisable
<1>4. ASSUME NEW t \in Threads, GcEnable(t) PROVE NobodyJoins'
  BY <1>4 DEF GcEnable
<1>5. ASSUME NEW t \in Threads, Adopt(t) PROVE NobodyJoins'
  BY <1>5 DEF Adopt
<1>6. ASSUME NEW t \in Threads, Exit(t) PROVE NobodyJoins'
  BY <1>6 DEF Exit
<1>7. ASSUME NEW t \in Threads, Fault(t) PROVE NobodyJoins'
  BY <1>7 DEF Fault
<1>8. ASSUME NEW t \in Threads, PollPassed(t) PROVE NobodyJoins'
  BY <1>8 DEF PollPassed
<1>9. ASSUME NEW t \in Threads, Block(t) PROVE NobodyJoins'
  BY <1>9 DEF Block
<1>10. ASSUME NEW t \in Threads, WaitOver(t) PROVE NobodyJoins'
  BY <1>10 DEF WaitOver
<1>10a. ASSUME NEW t \in Threads, LeaveHandler(t) PROVE NobodyJoins'
  BY <1>10a DEF LeaveHandler
<1>10b. ASSUME NEW t \in Threads, LeaveCollect(t) PROVE NobodyJoins'
  BY <1>10b DEF LeaveCollect
<1>11. ASSUME NEW t \in Threads, Collect(t) PROVE NobodyJoins'
  BY <1>11 DEF Collect
<1>12. ASSUME NEW t \in Threads, WinStart(t) PROVE NobodyJoins'
  BY <1>12 DEF WinStart
<1>13. ASSUME NEW t \in Threads, LoseStart(t) PROVE NobodyJoins'
  BY <1>13 DEF LoseStart
<1>14. ASSUME NEW t \in Threads, BackOut(t) PROVE NobodyJoins'
  BY <1>14 DEF BackOut
<1>15. ASSUME NEW t \in Threads, Committed(t) PROVE NobodyJoins'
  BY <1>15, NobodyCounted DEF Committed, disabled_now, Adopters, CounterAgrees
<1>16. ASSUME NEW t \in Threads, ProtectPages(t) PROVE NobodyJoins'
  BY <1>16 DEF ProtectPages
<1>17. ASSUME NEW t \in Threads, Snapshot(t) PROVE NobodyJoins'
  BY <1>17 DEF Snapshot
<1>18. ASSUME NEW t \in Threads, BeginCollection(t) PROVE NobodyJoins'
  BY <1>18 DEF BeginCollection
<1>19. ASSUME NEW t \in Threads, EndCollection(t) PROVE NobodyJoins'
  BY <1>19 DEF EndCollection
<1>20. ASSUME NEW t \in Threads, UnprotectPages(t) PROVE NobodyJoins'
  BY <1>20 DEF UnprotectPages
<1>21. ASSUME NEW t \in Threads, ClearRunning(t) PROVE NobodyJoins'
  BY <1>21 DEF ClearRunning
<1>22. ASSUME NEW t \in Threads, Broadcast(t) PROVE NobodyJoins'
  BY <1>22 DEF Broadcast
<1>23. ASSUME NEW t \in Threads, AdoptMayJoin(t) PROVE NobodyJoins'
  BY <1>23 DEF AdoptMayJoin, may_join
<1>24. ASSUME NEW t \in Threads, Join(t) PROVE NobodyJoins'
  BY <1>24 DEF Join
<1>25. ASSUME NEW t \in Threads, Adopted(t) PROVE NobodyJoins'
  BY <1>25 DEF Adopted
<1>26. ASSUME NEW t \in Threads, NEW u \in Threads, SeeStopped(t, u) PROVE NobodyJoins'
  BY <1>26 DEF SeeStopped, is_stopped
<1>27. CASE Sigint
  BY <1>27, SafepointAssumption DEF Sigint
<1>28. CASE HandleSigint
  BY <1>28, SafepointAssumption DEF HandleSigint, Consume, Defer
<1>29. CASE Usr2
  BY <1>29, SafepointAssumption DEF Usr2, Consume
<1>30. CASE SigatomicBegin
  BY <1>30, SafepointAssumption DEF SigatomicBegin
<1>31. CASE SigatomicEnd
  BY <1>31, SafepointAssumption DEF SigatomicEnd
<1>32. CASE UNCHANGED vars
  BY <1>32 DEF vars
<1>. QED
  BY <1>1, <1>2, <1>3, <1>4, <1>5, <1>6, <1>7, <1>8, <1>9, <1>10, <1>10a, <1>10b, <1>11, <1>12, <1>13, <1>14, <1>15, <1>16, <1>17, <1>18, <1>19, <1>20, <1>21, <1>22, <1>23, <1>24, <1>25, <1>26, <1>27, <1>28, <1>29, <1>30, <1>31, <1>32 DEF Next, Works, Waits, Collects, Adopts

\* The pages are protected as often as there are reasons.
LEMMA PagesStep == TypeOK /\ OneCollector /\ PagesAgree /\ [Next]_vars => PagesAgree'
<1>. SUFFICES ASSUME TypeOK, OneCollector, PagesAgree, [Next]_vars PROVE PagesAgree'
  OBVIOUS
<1>. USE DEF PagesAgree, collections, has_pages, OneCollector, TypeOK, Collecting, Committing, collector, switches, signals, Goto, SetState, Running
<1>1. ASSUME NEW t \in Threads, EnterSafe(t) PROVE PagesAgree'
  BY <1>1 DEF EnterSafe
<1>2. ASSUME NEW t \in Threads, LeaveSafe(t) PROVE PagesAgree'
  BY <1>2 DEF LeaveSafe
<1>3. ASSUME NEW t \in Threads, GcDisable(t) PROVE PagesAgree'
  BY <1>3 DEF GcDisable
<1>4. ASSUME NEW t \in Threads, GcEnable(t) PROVE PagesAgree'
  BY <1>4 DEF GcEnable
<1>5. ASSUME NEW t \in Threads, Adopt(t) PROVE PagesAgree'
  BY <1>5 DEF Adopt
<1>6. ASSUME NEW t \in Threads, Exit(t) PROVE PagesAgree'
  BY <1>6 DEF Exit
<1>7. ASSUME NEW t \in Threads, Fault(t) PROVE PagesAgree'
  BY <1>7 DEF Fault
<1>8. ASSUME NEW t \in Threads, PollPassed(t) PROVE PagesAgree'
  BY <1>8 DEF PollPassed
<1>9. ASSUME NEW t \in Threads, Block(t) PROVE PagesAgree'
  BY <1>9 DEF Block
<1>10. ASSUME NEW t \in Threads, WaitOver(t) PROVE PagesAgree'
  BY <1>10 DEF WaitOver
<1>10a. ASSUME NEW t \in Threads, LeaveHandler(t) PROVE PagesAgree'
  BY <1>10a DEF LeaveHandler
<1>10b. ASSUME NEW t \in Threads, LeaveCollect(t) PROVE PagesAgree'
  BY <1>10b DEF LeaveCollect
<1>11. ASSUME NEW t \in Threads, Collect(t) PROVE PagesAgree'
  BY <1>11 DEF Collect
<1>12. ASSUME NEW t \in Threads, WinStart(t) PROVE PagesAgree'
  BY <1>12 DEF WinStart
<1>13. ASSUME NEW t \in Threads, LoseStart(t) PROVE PagesAgree'
  BY <1>13 DEF LoseStart
<1>14. ASSUME NEW t \in Threads, BackOut(t) PROVE PagesAgree'
  BY <1>14 DEF BackOut
<1>15. ASSUME NEW t \in Threads, Committed(t) PROVE PagesAgree'
  BY <1>15 DEF Committed
<1>16. ASSUME NEW t \in Threads, ProtectPages(t) PROVE PagesAgree'
  BY <1>16 DEF ProtectPages
<1>17. ASSUME NEW t \in Threads, Snapshot(t) PROVE PagesAgree'
  BY <1>17 DEF Snapshot
<1>18. ASSUME NEW t \in Threads, BeginCollection(t) PROVE PagesAgree'
  BY <1>18 DEF BeginCollection
<1>19. ASSUME NEW t \in Threads, EndCollection(t) PROVE PagesAgree'
  BY <1>19 DEF EndCollection
<1>20. ASSUME NEW t \in Threads, UnprotectPages(t) PROVE PagesAgree'
  BY <1>20 DEF UnprotectPages
<1>21. ASSUME NEW t \in Threads, ClearRunning(t) PROVE PagesAgree'
  BY <1>21 DEF ClearRunning
<1>22. ASSUME NEW t \in Threads, Broadcast(t) PROVE PagesAgree'
  BY <1>22 DEF Broadcast
<1>23. ASSUME NEW t \in Threads, AdoptMayJoin(t) PROVE PagesAgree'
  BY <1>23 DEF AdoptMayJoin
<1>24. ASSUME NEW t \in Threads, Join(t) PROVE PagesAgree'
  BY <1>24 DEF Join
<1>25. ASSUME NEW t \in Threads, Adopted(t) PROVE PagesAgree'
  BY <1>25 DEF Adopted
<1>26. ASSUME NEW t \in Threads, NEW u \in Threads, SeeStopped(t, u) PROVE PagesAgree'
  BY <1>26 DEF SeeStopped, is_stopped
<1>27. CASE Sigint
  BY <1>27, SafepointAssumption DEF Sigint
<1>28. CASE HandleSigint
  BY <1>28, SafepointAssumption DEF HandleSigint, Consume, Defer
<1>29. CASE Usr2
  BY <1>29, SafepointAssumption DEF Usr2, Consume
<1>30. CASE SigatomicBegin
  BY <1>30, SafepointAssumption DEF SigatomicBegin
<1>31. CASE SigatomicEnd
  BY <1>31, SafepointAssumption DEF SigatomicEnd
<1>32. CASE UNCHANGED vars
  BY <1>32 DEF vars
<1>. QED
  BY <1>1, <1>2, <1>3, <1>4, <1>5, <1>6, <1>7, <1>8, <1>9, <1>10, <1>10a, <1>10b, <1>11, <1>12, <1>13, <1>14, <1>15, <1>16, <1>17, <1>18, <1>19, <1>20, <1>21, <1>22, <1>23, <1>24, <1>25, <1>26, <1>27, <1>28, <1>29, <1>30, <1>31, <1>32 DEF Next, Works, Waits, Collects, Adopts

\* Who was seen stopped stays so: the pages are protected, the flag is set, and nobody joins.
LEMMA SeenStoppedStep == TypeOK /\ OneCollector /\ Listed /\ CounterAgrees /\ NobodyJoins /\ PagesAgree /\ SeenStopped /\ [Next]_vars => SeenStopped'
<1>. SUFFICES ASSUME TypeOK, OneCollector, Listed, CounterAgrees, NobodyJoins, PagesAgree, SeenStopped, [Next]_vars PROVE SeenStopped'
  OBVIOUS
<1>. USE DEF SeenStopped, Disablers, OneCollector, TypeOK, Collecting, Committing, collector, switches, signals, Goto, SetState, Running
<1>1. ASSUME NEW t \in Threads, EnterSafe(t) PROVE SeenStopped'
  BY <1>1 DEF EnterSafe
<1>2. ASSUME NEW t \in Threads, LeaveSafe(t) PROVE SeenStopped'
  BY <1>2 DEF LeaveSafe
<1>3. ASSUME NEW t \in Threads, GcDisable(t) PROVE SeenStopped'
  BY <1>3 DEF GcDisable
<1>4. ASSUME NEW t \in Threads, GcEnable(t) PROVE SeenStopped'
  BY <1>4 DEF GcEnable
<1>5. ASSUME NEW t \in Threads, Adopt(t) PROVE SeenStopped'
  BY <1>5 DEF Adopt
<1>6. ASSUME NEW t \in Threads, Exit(t) PROVE SeenStopped'
  BY <1>6 DEF Exit
<1>7. ASSUME NEW t \in Threads, Fault(t) PROVE SeenStopped'
  BY <1>7 DEF Fault
<1>8. ASSUME NEW t \in Threads, PollPassed(t) PROVE SeenStopped'
  BY <1>8 DEF PollPassed, protected, page, PagesAgree, collections, has_pages
<1>9. ASSUME NEW t \in Threads, Block(t) PROVE SeenStopped'
  BY <1>9 DEF Block
<1>10. ASSUME NEW t \in Threads, WaitOver(t) PROVE SeenStopped'
  BY <1>10 DEF WaitOver
<1>10a. ASSUME NEW t \in Threads, LeaveHandler(t) PROVE SeenStopped'
  BY <1>10a DEF LeaveHandler
<1>10b. ASSUME NEW t \in Threads, LeaveCollect(t) PROVE SeenStopped'
  BY <1>10b DEF LeaveCollect
<1>11. ASSUME NEW t \in Threads, Collect(t) PROVE SeenStopped'
  BY <1>11 DEF Collect
<1>12. ASSUME NEW t \in Threads, WinStart(t) PROVE SeenStopped'
  BY <1>12 DEF WinStart
<1>13. ASSUME NEW t \in Threads, LoseStart(t) PROVE SeenStopped'
  BY <1>13 DEF LoseStart
<1>14. ASSUME NEW t \in Threads, BackOut(t) PROVE SeenStopped'
  BY <1>14 DEF BackOut
<1>15. ASSUME NEW t \in Threads, Committed(t) PROVE SeenStopped'
  BY <1>15 DEF Committed
<1>16. ASSUME NEW t \in Threads, ProtectPages(t) PROVE SeenStopped'
  BY <1>16 DEF ProtectPages
<1>17. ASSUME NEW t \in Threads, Snapshot(t) PROVE SeenStopped'
  BY <1>17 DEF Snapshot, Listed
<1>18. ASSUME NEW t \in Threads, BeginCollection(t) PROVE SeenStopped'
  BY <1>18, NobodyCounted DEF BeginCollection, still_enabled, CounterAgrees
<1>19. ASSUME NEW t \in Threads, EndCollection(t) PROVE SeenStopped'
  BY <1>19 DEF EndCollection
<1>20. ASSUME NEW t \in Threads, UnprotectPages(t) PROVE SeenStopped'
  BY <1>20 DEF UnprotectPages
<1>21. ASSUME NEW t \in Threads, ClearRunning(t) PROVE SeenStopped'
  BY <1>21 DEF ClearRunning
<1>22. ASSUME NEW t \in Threads, Broadcast(t) PROVE SeenStopped'
  BY <1>22 DEF Broadcast
<1>23. ASSUME NEW t \in Threads, AdoptMayJoin(t) PROVE SeenStopped'
  BY <1>23 DEF AdoptMayJoin
<1>24. ASSUME NEW t \in Threads, Join(t) PROVE SeenStopped'
  BY <1>24 DEF Join
<1>25. ASSUME NEW t \in Threads, Adopted(t) PROVE SeenStopped'
  BY <1>25 DEF Adopted, NobodyJoins, Joining
<1>26. ASSUME NEW t \in Threads, NEW u \in Threads, SeeStopped(t, u) PROVE SeenStopped'
  BY <1>26 DEF SeeStopped, is_stopped
<1>27. CASE Sigint
  BY <1>27, SafepointAssumption DEF Sigint
<1>28. CASE HandleSigint
  BY <1>28, SafepointAssumption DEF HandleSigint, Consume, Defer
<1>29. CASE Usr2
  <2>1. /\ UNCHANGED <<disable_gc, unseen>>
        /\ \A u \in Threads \ {Master} : pc'[u] = pc[u] /\ gc_state'[u] = gc_state[u]
        /\ \/ pc'[Master] = pc[Master] /\ gc_state'[Master] = gc_state[Master]
           \/ pc'[Master] = "poll" /\ pc[Master] = "run"
           \/ pc'[Master] = "thrown" /\ pc[Master] = "thrown"
    BY <1>29, SafepointAssumption DEF Usr2, Consume
  <2>. QED
    BY <2>1, SafepointAssumption
<1>30. CASE SigatomicBegin
  BY <1>30, SafepointAssumption DEF SigatomicBegin
<1>31. CASE SigatomicEnd
  BY <1>31, SafepointAssumption DEF SigatomicEnd
<1>32. CASE UNCHANGED vars
  BY <1>32 DEF vars
<1>. QED
  BY <1>1, <1>2, <1>3, <1>4, <1>5, <1>6, <1>7, <1>8, <1>9, <1>10, <1>10a, <1>10b, <1>11, <1>12, <1>13, <1>14, <1>15, <1>16, <1>17, <1>18, <1>19, <1>20, <1>21, <1>22, <1>23, <1>24, <1>25, <1>26, <1>27, <1>28, <1>29, <1>30, <1>31, <1>32 DEF Next, Works, Waits, Collects, Adopts

-----------------------------------------------------------------------------

LEMMA Initially == Init => IInv
<1>. SUFFICES ASSUME Init PROVE IInv
  OBVIOUS
<1>1. TypeOK
  <2>1. known \subseteq Threads
    BY DEF Init, Threads
  <2>2. pc \in [Threads -> Steps]
    BY DEF Init, Steps
  <2>3. enable_cnt \in [0..2 -> Int] /\ jl_gc_disable_counter \in Int /\ signal_pending \in 0..2
    BY DEF Init
  <2>. QED
    BY <2>1, <2>2, <2>3 DEF Init, TypeOK
<1>2. OneCollector /\ Listed /\ NobodyJoins /\ SeenStopped
  BY DEF Init, OneCollector, Listed, NobodyJoins, SeenStopped, Collecting, Committing, Joining, Threads
<1>3. CounterAgrees
  <2>1. Disablers = {} /\ Adopters = {}
    BY DEF Init, Disablers, Adopters
  <2>. QED
    BY <2>1, FS_EmptySet DEF Init, CounterAgrees
<1>4. PagesAgree
  BY DEF Init, PagesAgree, collections, has_pages
<1>. QED
  BY <1>1, <1>2, <1>3, <1>4 DEF IInv

LEMMA Inductively == IInv /\ [Next]_vars => IInv'
  BY TypeStep, OneCollectorStep, ListedStep, CounterStep, NobodyJoinsStep, PagesStep, SeenStoppedStep
     DEF IInv

LEMMA Invariantly == Spec => []IInv
  BY Initially, Inductively, PTL DEF Spec

\* Every reachable state is well typed, for any threads.
THEOREM TypeCorrect == Spec => []TypeOK
<1>1. IInv => TypeOK
  BY DEF IInv
<1>. QED
  BY <1>1, Invariantly, PTL

\* jl_gc_collect: while one thread marks and sweeps, no other thread touches the
\* heap, however many are adopted, collect, or come back from native code: but for
\* the master, between the throw of a ^C and its next safepoint.
THEOREM WorldIsStopped == Spec => []WorldStopped
<1>1. IInv => WorldStopped
  BY DEF IInv, TypeOK, WorldStopped, TouchesHeap, Running, SeenStopped, NobodyJoins, Committing,
     Joining
<1>. QED
  BY <1>1, Invariantly, PTL

\* jl_gc_enable(0) and jl_adopt_thread: no collection while anybody has it disabled,
\* but for a master that asks during one and waits for its end.
THEOREM DisabledIsDisabled == Spec => []DisabledMeansNoCollection
<1>1. IInv => DisabledMeansNoCollection
  BY DEF IInv, DisabledMeansNoCollection, SeenStopped, Disablers, NobodyJoins, Committing, Joining
<1>. QED
  BY <1>1, Invariantly, PTL

\* safepoint.c: every page is protected once for every reason, whatever collections
\* and ^C's overlap.
THEOREM PagesAreCounted == Spec => []PagesAgree
<1>1. IInv => PagesAgree
  BY DEF IInv
<1>. QED
  BY <1>1, Invariantly, PTL

=============================================================================
