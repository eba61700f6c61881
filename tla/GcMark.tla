------------------------------- MODULE GcMark -------------------------------
(***************************************************************************)
(* The parallel marking of one stopped world (gc.c, partr.c): the thread    *)
(* that collects, the master, and the mark threads drain queues of objects  *)
(* to scan and steal from each other's, and stop when nobody is marking.    *)
(*                                                                           *)
(* A queue is what WorkStealingQueue promises: its owner pushes and pops at *)
(* one end, a thief reads the other end and claims what it read if nobody   *)
(* was faster.  Chunks of large arrays are queued, popped and stolen like   *)
(* objects, before them; here both are objects.  A thief tries the victims  *)
(* in any order; the random tries that precede the walk over all of them    *)
(* may happen or not.                                                       *)
(***************************************************************************)
EXTENDS Integers, Sequences, SequencesExt, FiniteSets

CONSTANTS
  MarkThreads,   \* the mark threads
  Master,        \* the thread that collects
  Objects,
  Roots,         \* what the roots of the mutators refer to
  FinRoots,      \* what the finalizer lists refer to
  Refs,          \* the references of each object
  MaxCollections,\* bound
  Nobody, Nothing

Threads == MarkThreads \cup {Master}

\* References and roots lead to objects.
ASSUME MarkingAssumption ==
  /\ IsFiniteSet(MarkThreads) /\ Master \notin MarkThreads /\ Nobody \notin Threads
  /\ IsFiniteSet(Objects) /\ Roots \subseteq Objects /\ FinRoots \subseteq Objects
  /\ Refs \in [Objects -> SUBSET Objects]

VARIABLES
  pc,            \* what each thread is about to do
  queue,         \* ptls->mark_queue: the thieves' end first
  hand,          \* the object a thread scans, or has read and not yet claimed
  victim,        \* whose queue that was read from
  untried,       \* the queues a thief has still to try
  marked,        \* the objects whose mark bit is set
  gc_n_threads_marking, gc_master_tid,
  gc_queue_observer_lock,
  sleepers,      \* in uv_cond_wait(&gc_threads_cond)
  collections

vars == <<pc, queue, hand, victim, untried, marked, gc_n_threads_marking, gc_master_tid,
          gc_queue_observer_lock, sleepers, collections>>
protocol == <<gc_n_threads_marking, gc_master_tid, gc_queue_observer_lock, sleepers>>

Goto(t, to) == pc' = [pc EXCEPT ![t] = to]

\* gc_try_claim_and_push: a thread that sets a mark bit first queues the object.
Unclaimed(S) == S
Fresh(S) == {o \in S : o \notin marked}
queued(S) == SetToSeq(Fresh(S))

Init ==
  /\ pc = [t \in Threads |-> IF t = Master THEN "mutate" ELSE "check"]
  /\ queue = [t \in Threads |-> << >>]
  /\ hand = [t \in Threads |-> Nothing] /\ victim = [t \in Threads |-> Nobody]
  /\ untried = [t \in Threads |-> {}]
  /\ marked = {}
  /\ gc_n_threads_marking = 0 /\ gc_master_tid = Nobody
  /\ gc_queue_observer_lock = Nobody /\ sleepers = {}
  /\ collections = 0

-----------------------------------------------------------------------------
(* The master.                                                              *)

\* _jl_gc_collect puts the roots into the queues of the mark threads, and of
\* the master, before anybody marks.
QueueRoots ==
  /\ pc[Master] = "mutate" /\ collections < MaxCollections
  /\ collections' = collections + 1
  /\ marked' = Roots
  /\ \E dest \in [Roots -> Threads] :
       queue' = [t \in Threads |-> SetToSeq({o \in Roots : dest[o] = t})]
  /\ Goto(Master, "announce")
  /\ UNCHANGED <<hand, victim, untried, protocol>>

\* gc_mark_loop_parallel, master: its tid, its count, then the wakeup.
Announce ==
  /\ pc[Master] = "announce"
  /\ gc_master_tid' = Master
  /\ gc_n_threads_marking' = gc_n_threads_marking + 1
  /\ Goto(Master, "wake")
  /\ UNCHANGED <<queue, hand, victim, untried, marked, gc_queue_observer_lock, sleepers, collections>>

\* gc_wake_all_for_marking
WakeAll ==
  /\ pc[Master] = "wake"
  /\ sleepers' = {}
  /\ Goto(Master, "pop")
  /\ UNCHANGED <<queue, hand, victim, untried, marked, gc_n_threads_marking, gc_master_tid,
                 gc_queue_observer_lock, collections>>

\* gc_mark_loop_barrier
Barrier ==
  /\ pc[Master] = "left"
  /\ gc_n_threads_marking = 0
  /\ gc_master_tid' = Nobody
  /\ Goto(Master, "alone")
  /\ UNCHANGED <<queue, hand, victim, untried, marked, gc_n_threads_marking,
                 gc_queue_observer_lock, sleepers, collections>>

\* gc_mark_finlist: the finalizer lists go into the master's queue ...
MarkFinList ==
  /\ pc[Master] = "alone"
  /\ queue' = [queue EXCEPT ![Master] = @ \o queued(FinRoots)]
  /\ marked' = marked \cup FinRoots
  /\ Goto(Master, "serial")
  /\ UNCHANGED <<hand, victim, untried, protocol, collections>>

\* ... which gc_mark_loop_serial drains by itself.
MarkSerial ==
  /\ pc[Master] = "serial" /\ queue[Master] # << >>
  /\ LET o == Last(queue[Master])
     IN /\ queue' = [queue EXCEPT ![Master] = Front(@) \o queued(Refs[o])]
        /\ marked' = marked \cup Refs[o]
  /\ UNCHANGED <<pc, hand, victim, untried, protocol, collections>>

\* The sweep is over; the mutators run again.
FinishCollection ==
  /\ pc[Master] = "serial" /\ queue[Master] = << >>
  /\ Goto(Master, "mutate")
  /\ UNCHANGED <<queue, hand, victim, untried, marked, protocol, collections>>

-----------------------------------------------------------------------------
(* A mark thread between two collections: jl_gc_mark_threadfun.             *)

may_mark == gc_n_threads_marking > 0

Check(t) ==
  /\ t \in MarkThreads /\ pc[t] = "check" /\ t \notin sleepers
  /\ IF may_mark THEN Goto(t, "observe") /\ UNCHANGED sleepers
                 ELSE sleepers' = sleepers \cup {t} /\ UNCHANGED pc
  /\ UNCHANGED <<queue, hand, victim, untried, marked, gc_n_threads_marking, gc_master_tid,
                 gc_queue_observer_lock, collections>>

-----------------------------------------------------------------------------
(* gc_should_mark, under its lock.                                          *)

\* Nobody marks: the thread leaves the mark loop.
ObserveZero(t) ==
  /\ pc[t] = "observe" /\ gc_queue_observer_lock = Nobody
  /\ gc_n_threads_marking = 0
  /\ Goto(t, IF t = Master THEN "left" ELSE "check")
  /\ UNCHANGED <<queue, hand, victim, untried, marked, protocol, collections>>

\* Somebody marks: the thread looks for work, holding the lock.
ObserveMarking(t) ==
  /\ pc[t] = "observe" /\ gc_queue_observer_lock = Nobody
  /\ gc_n_threads_marking > 0
  /\ gc_queue_observer_lock' = t
  /\ Goto(t, "estimate")
  /\ UNCHANGED <<queue, hand, victim, untried, marked, gc_n_threads_marking, gc_master_tid,
                 sleepers, collections>>

\* The sizes of the queues are read while they change, and an owner that pops
\* makes an empty queue look enormous for a moment: the sum may say anything.
Join(t) ==
  /\ pc[t] = "estimate"
  /\ gc_n_threads_marking' = gc_n_threads_marking + 1
  /\ gc_queue_observer_lock' = Nobody
  /\ Goto(t, "pop")
  /\ UNCHANGED <<queue, hand, victim, untried, marked, gc_master_tid, sleepers, collections>>

\* The next turn of the loop, which reads the count again, finds that nobody marks any more.
EstimateZero(t) ==
  /\ pc[t] = "estimate"
  /\ gc_n_threads_marking = 0
  /\ gc_queue_observer_lock' = Nobody
  /\ Goto(t, IF t = Master THEN "left" ELSE "check")
  /\ UNCHANGED <<queue, hand, victim, untried, marked, gc_n_threads_marking, gc_master_tid,
                 sleepers, collections>>

-----------------------------------------------------------------------------
(* gc_mark_and_steal                                                        *)

Pop(t) ==
  /\ pc[t] = "pop" /\ queue[t] # << >>
  /\ hand' = [hand EXCEPT ![t] = Last(queue[t])]
  /\ queue' = [queue EXCEPT ![t] = Front(@)]
  /\ Goto(t, "mark")
  /\ UNCHANGED <<victim, untried, marked, protocol, collections>>

PopNothing(t) ==
  /\ pc[t] = "pop" /\ queue[t] = << >>
  /\ untried' = [untried EXCEPT ![t] = Threads]
  /\ Goto(t, "steal")
  /\ UNCHANGED <<queue, hand, victim, marked, protocol, collections>>

\* gc_mark_outrefs
Mark(t) ==
  /\ pc[t] = "mark"
  /\ queue' = [queue EXCEPT ![t] = @ \o queued(Refs[hand[t]])]
  /\ marked' = marked \cup Refs[hand[t]]
  /\ hand' = [hand EXCEPT ![t] = Nothing]
  /\ Goto(t, "pop")
  /\ UNCHANGED <<victim, untried, protocol, collections>>

\* A queue that looks empty is done with, as far as this walk goes.
StealNothing(t, v) ==
  /\ pc[t] = "steal" /\ v \in untried[t] /\ queue[v] = << >>
  /\ untried' = [untried EXCEPT ![t] = @ \ {v}]
  /\ UNCHANGED <<pc, queue, hand, victim, marked, protocol, collections>>

StealRead(t, v) ==
  /\ pc[t] = "steal" /\ queue[v] # << >>
  /\ hand' = [hand EXCEPT ![t] = Head(queue[v])]
  /\ victim' = [victim EXCEPT ![t] = v]
  /\ Goto(t, "claim")
  /\ UNCHANGED <<queue, untried, marked, protocol, collections>>

\* What was read is still the thieves' end of the queue.
still_there(t) == queue[victim[t]] # << >> /\ Head(queue[victim[t]]) = hand[t]

StealWins(t) ==
  /\ pc[t] = "claim" /\ still_there(t)
  /\ queue' = [queue EXCEPT ![victim[t]] = Tail(@)]
  /\ victim' = [victim EXCEPT ![t] = Nobody]
  /\ untried' = [untried EXCEPT ![t] = {}]
  /\ Goto(t, "mark")
  /\ UNCHANGED <<hand, marked, protocol, collections>>

\* Somebody was faster.  On the walk over all queues this was the try for this one,
\* whatever is still in it.
StealLoses(t) ==
  /\ pc[t] = "claim" /\ ~still_there(t)
  /\ hand' = [hand EXCEPT ![t] = Nothing]
  /\ untried' \in {untried, [untried EXCEPT ![t] = @ \ {victim[t]}]}
  /\ victim' = [victim EXCEPT ![t] = Nobody]
  /\ Goto(t, "steal")
  /\ UNCHANGED <<queue, marked, protocol, collections>>

\* Every queue was tried: the thread no longer counts as marking.
tried_own(t) == t \notin untried[t]
tried_all(t) == untried[t] = {}

StopMarking(t) ==
  /\ pc[t] = "steal" /\ tried_all(t)
  /\ gc_n_threads_marking' = gc_n_threads_marking - 1
  /\ Goto(t, "observe")
  /\ UNCHANGED <<queue, hand, victim, untried, marked, gc_master_tid, gc_queue_observer_lock,
                 sleepers, collections>>

-----------------------------------------------------------------------------

Leads == QueueRoots \/ Announce \/ WakeAll \/ Barrier \/ MarkFinList \/ MarkSerial \/ FinishCollection
Observes(t) == Check(t) \/ ObserveZero(t) \/ ObserveMarking(t) \/ Join(t) \/ EstimateZero(t)
Marks(t) ==
  \/ Pop(t) \/ PopNothing(t) \/ Mark(t) \/ StealWins(t) \/ StealLoses(t) \/ StopMarking(t)
  \/ \E v \in Threads : StealNothing(t, v) \/ StealRead(t, v)

\* All collections are over, and every mark thread sleeps.
Idle ==
  /\ pc[Master] = "mutate" /\ collections = MaxCollections /\ MarkThreads \subseteq sleepers
  /\ UNCHANGED vars

Next == Leads \/ Idle \/ \E t \in Threads : Observes(t) \/ Marks(t)

Spec == Init /\ [][Next]_vars

\* What a thread does without being asked to: no collection has to begin, and a
\* thread that looks for work need not see any.
Duty(t) ==
  \/ Marks(t) \/ ObserveZero(t) \/ EstimateZero(t)
  \/ t = Master /\ (Announce \/ WakeAll \/ Barrier \/ MarkFinList \/ MarkSerial \/ FinishCollection)

\* The operating system runs the threads of the collector.
Fairness == \A t \in Threads : WF_vars(Duty(t))

FairSpec == Spec /\ Fairness

-----------------------------------------------------------------------------

Marking(t) == pc[t] \in {"pop", "mark", "steal", "claim"}

\* What S leads to: the least set that contains S and what its members refer to.
Reachable(S) ==
  {o \in Objects : \A C \in SUBSET Objects :
                     S \subseteq C /\ (\A c \in C : Refs[c] \subseteq C) => o \in C}

\* The two promises of gc_should_mark.  "No work items shall be in any thread's
\* queues when gc_should_mark observes that gc_n_threads_marking is zero": the
\* master leaves the mark loop only when every object that the roots lead to is
\* marked and nothing is left to scan.  "No work item shall be stolen from the
\* master thread after" that: while it marks the finalizer lists by itself, and
\* until the next collection, nobody else marks.
ZeroMeansDone ==
  /\ pc[Master] \in {"left", "alone"} =>
       /\ \A t \in Threads : queue[t] = << >>
       /\ Reachable(Roots) \subseteq marked
  /\ pc[Master] \in {"alone", "serial", "mutate", "announce"} =>
       \A t \in MarkThreads : ~Marking(t)

\* A thread joins although every queue is empty.
NothingQueued == \A t \in Threads : queue[t] = << >>
JoinForNothing(t) == Join(t) /\ NothingQueued

\* Every marking ends, unless threads go on joining for ever while every queue is empty,
\* which they do only when each of them looks in the moment in which another one pops.
MarkingEnds ==
  \/ pc[Master] = "announce" ~> pc[Master] = "mutate"
  \/ []<><<\E t \in Threads : JoinForNothing(t)>>_vars

=============================================================================
