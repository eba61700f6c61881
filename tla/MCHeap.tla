-------------------------------- MODULE MCHeap --------------------------------
(***************************************************************************)
(* What a collection does while the world is stopped, for TLC: the marking  *)
(* by several threads, the queue that they steal from, the generations, and *)
(* the finalizer lists.  The marking assumes of the queue what WorkBag says  *)
(* it promises; the generations and the finalizers assume that the marking   *)
(* marks what it reaches.  The parts share no variable, and a behaviour is   *)
(* one part's, chosen at the start.                                          *)
(***************************************************************************)
EXTENDS GcMark

CONSTANTS
  Thieves, Owner, InitialCapacity, MaxItems,
  HeapObjects, WeakRefs, Finalized, Big, PageOf,
  nthreads, FinObjects, MaxEntries, MaxEvents, ExitWhileRunning

VARIABLES
  part,   \* the part whose behaviour this is
  top, bottom, arrays, array, q_pc, q_t, ary, b, got, pushed, winners,
  roots, heap, just_full,
  fin_pc, object, items, len, oldlen, newentry, visit, o, newlen, copied_list,
  finalizer_list_marked, to_finalize, jl_gc_have_pending_finalizers, finalizers_lock,
  finalizers_inhibited, batches, runs, dropped, old, oldfun, prev_sweep_full, exiting,
  fin_collections, inhibits

Queue == INSTANCE WorkStealingQueue WITH pc <- q_pc, t <- q_t
Generations == INSTANCE GenerationalGc WITH Objects <- HeapObjects
Fin == INSTANCE Finalizers WITH
  pc <- fin_pc, Objects <- FinObjects, collections <- fin_collections

queueVars == <<top, bottom, arrays, array, q_pc, q_t, ary, b, got, pushed, winners>>
heapVars == <<roots, heap, just_full>>
finVars == <<fin_pc, object, items, len, oldlen, newentry, visit, o, newlen, copied_list,
             finalizer_list_marked, to_finalize, jl_gc_have_pending_finalizers, finalizers_lock,
             finalizers_inhibited, batches, runs, dropped, old, oldfun, prev_sweep_full, exiting,
             fin_collections, inhibits>>

ASSUME QueueSetting == Queue!Setting
ASSUME FinalizerSetting == Fin!Setting
ASSUME HeapIsFinite == IsFiniteSet(HeapObjects)

allVars == <<part, vars, queueVars, heapVars, finVars>>

HeapInit ==
  /\ part \in {"marking", "queue", "generations", "finalizers"}
  /\ Init /\ Queue!Init /\ Generations!Init /\ Fin!Init

MarkStep == part = "marking" /\ Next /\ UNCHANGED <<part, queueVars, heapVars, finVars>>
QueueStep == part = "queue" /\ Queue!Next /\ UNCHANGED <<part, vars, heapVars, finVars>>
GenerationStep == part = "generations" /\ Generations!Next /\ UNCHANGED <<part, vars, queueVars, finVars>>
FinStep == part = "finalizers" /\ Fin!Next /\ UNCHANGED <<part, vars, queueVars, heapVars>>

HeapNext == MarkStep \/ QueueStep \/ GenerationStep \/ FinStep

HeapSpec == HeapInit /\ [][HeapNext]_allVars /\ \A t \in Threads : WF_vars(part = "marking" /\ Duty(t))

\* a refers to b and c, b to c and back to a.
SomeRefs == [x \in Objects |-> CASE x = "a" -> {"b", "c"} [] x = "b" -> {"a", "c"} [] OTHER -> {}]
OnePage == [x \in HeapObjects \ Big |-> "p"]

-----------------------------------------------------------------------------
(* The properties of the parts, in this module's variables.                 *)

\* The queue implements a bag of work; see WorkStealingQueue.
TakenOnce == Queue!TakenOnce

\* No item of the queue is lost; see WorkStealingQueue.
NothingLost == Queue!NothingLost

\* Nothing that can still be reached is freed; see GenerationalGc.
NoDangling == Generations!NoDangling

\* A full collection frees all garbage; see GenerationalGc.
FullCollects == Generations!FullCollects

\* No finalizer is lost, none runs twice; see Finalizers.
OnceInOnePlace == Fin!OnceInOnePlace

\* Finalizers are scheduled when they are due, and not forgotten; see Finalizers.
PendingIsDue == Fin!PendingIsDue

=============================================================================
