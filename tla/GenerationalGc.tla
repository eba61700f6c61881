--------------------------- MODULE GenerationalGc ---------------------------
(***************************************************************************)
(* The generations of the Julia heap (gc.c): the two GC bits of an object,  *)
(* the write barrier and the remembered set, weak references, finalizers,   *)
(* and the pages that a quick sweep leaves out.                             *)
(*                                                                           *)
(* An object is clean (young), old, and marked or not.  A quick sweep keeps  *)
(* the mark of the old objects, so that the next collection neither frees    *)
(* nor scans them; those that refer to young objects are remembered, and     *)
(* carry the bits of a marked young object so that the barrier leaves them   *)
(* alone.  A full sweep takes the marks away.                                *)
(*                                                                           *)
(* A collection is one step, for the world is stopped (Safepoint) and the    *)
(* marking marks what the queues lead to (GcMark).  The remembered sets of   *)
(* the threads are one set: only their union is used.                        *)
(***************************************************************************)
EXTENDS Integers, FiniteSets

CONSTANTS
  Objects,
  WeakRefs,   \* the objects that are weak references
  Finalized,  \* the objects that a finalizer may be registered for
  Big,        \* the objects allocated on their own, in big_objects
  PageOf,     \* the page of every other object
  Nothing     \* no reference

Pages == {PageOf[o] : o \in Objects \ Big}

VARIABLES
  roots,     \* what the stacks of the tasks refer to
  heap,      \* all that a collection reads and writes
  just_full  \* the last step was a full collection

vars == <<roots, heap, just_full>>

\* bits.gc of a live object: GC_CLEAN, GC_MARKED, GC_OLD, GC_OLD_MARKED.
FREE == -1
CLEAN == 0
MARKED == 1
OLD == 2
OLD_MARKED == 3

gc_marked(bits) == bits \in {MARKED, OLD_MARKED}
gc_old(bits) == bits \in {OLD, OLD_MARKED}

Init ==
  /\ roots = {} /\ just_full = FALSE
  /\ heap = [bits |-> [o \in Objects |-> FREE],
             ref |-> [o \in Objects |-> Nothing],
             remset |-> {}, weak_refs |-> {},
             finalizers |-> {}, finalizer_list_marked |-> {}, to_finalize |-> {},
             big_objects_marked |-> {},
             has_marked |-> {}, has_young |-> {},
             nold |-> [p \in Pages |-> 0], prev_nold |-> [p \in Pages |-> 0],
             prev_sweep_full |-> TRUE]

-----------------------------------------------------------------------------
(* The program.                                                             *)

\* jl_gc_pool_alloc, jl_gc_big_alloc; jl_gc_new_weakref_th, without a barrier.
Allocate(o, v) ==
  /\ heap.bits[o] = FREE /\ v \in roots \cup {Nothing}
  /\ roots' = roots \cup {o}
  /\ heap' = [heap EXCEPT !.bits[o] = CLEAN, !.ref[o] = v,
                          !.has_young = IF o \in Big THEN @ ELSE @ \cup {PageOf[o]},
                          !.weak_refs = IF o \in WeakRefs THEN @ \cup {o} ELSE @]

\* jl_gc_wb: the parent is old and not remembered, the child is not marked.
barrier(p, v) == heap.bits[p] = OLD_MARKED /\ ~gc_marked(heap.bits[v])

\* A store into a field; jl_gc_queue_root remembers the parent.
Store(p, v) ==
  /\ p \in roots \ WeakRefs /\ v \in roots /\ heap.ref[p] # v
  /\ heap' = [heap EXCEPT !.ref[p] = v,
                          !.bits[p] = IF barrier(p, v) THEN MARKED ELSE @,
                          !.remset = IF barrier(p, v) THEN @ \cup {p} ELSE @]
  /\ UNCHANGED roots

\* A load, of a field or through a weak reference.
Load(p) ==
  /\ p \in roots /\ heap.ref[p] # Nothing
  /\ roots' = roots \cup {heap.ref[p]}
  /\ UNCHANGED heap

Forget(o) ==
  /\ o \in roots
  /\ roots' = roots \ {o}
  /\ UNCHANGED heap

\* jl_gc_add_finalizer
AddFinalizer(o) ==
  /\ o \in roots \cap Finalized
  /\ o \notin heap.finalizers \cup heap.finalizer_list_marked \cup heap.to_finalize
  /\ heap' = [heap EXCEPT !.finalizers = @ \cup {o}]
  /\ UNCHANGED roots

\* run_finalizers: the finalizer gets the object, and may keep it.
RunFinalizer(o) ==
  /\ o \in heap.to_finalize
  /\ heap' = [heap EXCEPT !.to_finalize = @ \ {o}]
  /\ roots' = roots \cup {o}

-----------------------------------------------------------------------------
(* Marking.                                                                 *)

\* What gc_mark_outrefs follows: a weak reference has no outgoing references.
Children(h, S) == {h.ref[o] : o \in S \ WeakRefs} \ {Nothing}
Unmarked(h, S) == {o \in S : ~gc_marked(h.bits[o])}

\* The objects that get their mark when those of S are claimed: the least set that has
\* the unmarked ones of S and of what its members refer to.
Claimed(h, S) ==
  {o \in Objects : \A C \in SUBSET Objects :
     Unmarked(h, S \cup Children(h, C)) \subseteq C => o \in C}

\* gc_mark_push_remset: the old ones among S that refer to a young object.
refers_to_young(h, o) == Children(h, {o}) # {} /\ \A c \in Children(h, {o}) : ~gc_old(h.bits[c])
remembered(h, S) == {o \in S : gc_old(h.bits[o]) /\ refers_to_young(h, o)}

\* The number of cells of page p among S.
cells(S, p) == Cardinality({o \in S \ Big : PageOf[o] = p})
pages_of(S) == {PageOf[o] : o \in S \ Big}

\* gc_try_setmark_tag, gc_setmark_pool_, gc_setmark_big.
Mark(h, S) ==
  LET C == Claimed(h, S)
      O == {o \in C : gc_old(h.bits[o])}
  IN [h EXCEPT !.bits = [o \in Objects |-> IF o \in O THEN OLD_MARKED
                                           ELSE IF o \in C THEN MARKED ELSE @[o]],
               !.remset = @ \cup remembered(h, C),
               !.has_marked = @ \cup pages_of(C),
               !.nold = [p \in Pages |-> @[p] + cells(O, p)],
               !.big_objects_marked = @ \cup (O \cap Big)]

\* The same under mark_reset_age: as if the objects had just been allocated.
reset_pages_kept(C) == {}
reset_pages(C) == pages_of(C)

MarkReset(h, S) ==
  LET C == Claimed(h, S)
  IN [h EXCEPT !.bits = [o \in Objects |-> IF o \in C THEN MARKED ELSE @[o]],
               !.has_marked = @ \cup pages_of(C),
               !.has_young = @ \cup reset_pages(C),
               !.big_objects_marked = @ \ C]

\* gc_premark: the remembered objects look like old marked ones again ...
Premark(h) ==
  [h EXCEPT !.bits = [o \in Objects |-> IF o \in h.remset THEN OLD_MARKED ELSE @[o]],
            !.remset = {}]

\* ... and gc_queue_remset scans them, with the roots.
MarkRoots(h, R) ==
  LET m == Mark(Premark(h), R \cup Children(h, h.remset))
  IN [m EXCEPT !.remset = @ \cup remembered(Premark(h), h.remset)]

\* clear_weak_refs
dead_referent(h, w) == h.ref[w] # Nothing /\ ~gc_marked(h.bits[h.ref[w]])

ClearWeakRefs(h) ==
  [h EXCEPT !.ref = [o \in Objects |->
     IF o \in h.weak_refs /\ dead_referent(h, o) THEN Nothing ELSE @[o]]]

\* sweep_finalizer_list, of the threads' lists and, after a full sweep, of the
\* list of the old objects.  The finalizers themselves are old and marked.
SweepFinalizers(h) ==
  LET swept == IF h.prev_sweep_full THEN h.finalizers \cup h.finalizer_list_marked ELSE h.finalizers
      freed == Unmarked(h, swept)
      old == {o \in h.finalizers : h.bits[o] = OLD_MARKED}
  IN [h EXCEPT !.finalizers = @ \ (freed \cup old),
               !.finalizer_list_marked = (@ \ freed) \cup old,
               !.to_finalize = @ \cup freed]

-----------------------------------------------------------------------------
(* Sweeping.                                                                *)

\* gc_sweep_page leaves a page out when nothing in it can have died.
skipped_unread(h, p, full) == ~full /\ p \notin h.has_young
skipped(h, p, full) ==
  /\ ~full /\ p \notin h.has_young
  /\ ~h.prev_sweep_full \/ h.prev_nold[p] = h.nold[p]

\* A page without a mark is freed whole; of the others the unmarked cells are.
\* The old big objects are only swept by a full sweep.
visited(h, o, full) ==
  IF o \in Big THEN full \/ o \notin h.big_objects_marked
  ELSE PageOf[o] \notin h.has_marked \/ ~skipped(h, PageOf[o], full)

freed_by(h, full) ==
  {o \in Objects : /\ visited(h, o, full)
                   /\ ~gc_marked(h.bits[o]) \/ (o \notin Big /\ PageOf[o] \notin h.has_marked)}

\* The bits of a survivor: promoted, or unmarked by a full sweep.
swept_bits(bits, full) == IF full \/ bits = MARKED THEN OLD ELSE bits

Sweep(h, full) ==
  LET dead == freed_by(h, full)
      seen == {o \in Objects : visited(h, o, full)}
      bits == [o \in Objects |-> IF o \in dead THEN FREE
                                 ELSE IF o \in seen THEN swept_bits(h.bits[o], full) ELSE h.bits[o]]
      walked == {p \in Pages : p \in h.has_marked /\ ~skipped(h, p, full)}
      whole == Pages \ h.has_marked
  IN [h EXCEPT !.bits = bits,
               !.ref = [o \in Objects |-> IF o \in dead THEN Nothing ELSE @[o]],
               !.weak_refs = {w \in @ : gc_marked(h.bits[w])},
               !.big_objects_marked = IF full THEN {} ELSE @,
               !.has_marked = (@ \ walked) \cup pages_of({o \in seen : gc_marked(bits[o])}),
               !.has_young = @ \ (walked \cup whole),
               !.nold = [p \in Pages |-> IF p \in whole \/ (full /\ p \in walked) THEN 0 ELSE @[p]],
               !.prev_nold = [p \in Pages |->
                  IF p \in whole THEN 0
                  ELSE IF full /\ p \in walked THEN cells(seen \ dead, p) ELSE @[p]]]

\* Step 7 of _jl_gc_collect: the remembered objects go back to their disguise, or
\* nothing is remembered.
Remember(h, full) ==
  [h EXCEPT !.bits = [o \in Objects |-> IF ~full /\ o \in h.remset THEN MARKED ELSE @[o]],
            !.remset = IF full THEN {} ELSE @,
            !.prev_sweep_full = full]

\* The mark phase of _jl_gc_collect, as a set with one element.
MarkPhase(h) ==
  {MarkReset(f, f.to_finalize) :
     f \in {SweepFinalizers(c) : c \in {ClearWeakRefs(m) : m \in {MarkRoots(h, roots)}}}}

\* The pages that the free lists point into, which have a free cell, count as
\* young, whether or not a cell was taken.
free_pages(h) == {p \in Pages : \E o \in Objects \ Big : PageOf[o] = p /\ h.bits[o] = FREE}

\* The outcomes of _jl_gc_collect; kinds says which sweeps are possible: full ones
\* (TRUE), quick ones (FALSE).
Pass(h, kinds) ==
  UNION {{Remember(s, full) :
            s \in {Sweep([m EXCEPT !.has_young = @ \cup current], full) :
                     current \in SUBSET free_pages(h)}} :
           m \in MarkPhase(h), full \in kinds}

\* JL_GC_AUTO and JL_GC_INCREMENTAL: the heuristics choose the kind of the sweep.
AnyPass(h) == Pass(h, BOOLEAN)

Collect ==
  /\ heap' \in AnyPass(heap)
  /\ just_full' = FALSE
  /\ UNCHANGED roots

\* JL_GC_FULL: after a quick sweep a full one, and then once more.
CollectFull ==
  /\ heap' \in IF heap.prev_sweep_full THEN AnyPass(heap)
                ELSE UNION {AnyPass(h) : h \in Pass(heap, {TRUE})}
  /\ just_full' = TRUE
  /\ UNCHANGED roots

-----------------------------------------------------------------------------

Next ==
  \/ /\ \/ \E o \in Objects : Load(o) \/ Forget(o) \/ AddFinalizer(o) \/ RunFinalizer(o)
        \/ \E o \in Objects, v \in Objects \cup {Nothing} : Allocate(o, v)
        \/ \E p, v \in Objects : Store(p, v)
     /\ just_full' = FALSE
  \/ Collect \/ CollectFull

Spec == Init /\ [][Next]_vars

-----------------------------------------------------------------------------

TypeOK ==
  /\ roots \subseteq Objects
  /\ heap.bits \in [Objects -> {FREE, CLEAN, MARKED, OLD, OLD_MARKED}]
  /\ heap.ref \in [Objects -> Objects \cup {Nothing}]
  /\ heap.finalizers \cup heap.finalizer_list_marked \cup heap.to_finalize \subseteq Finalized

\* What S leads to.
Reachable(h, S) ==
  {o \in Objects : \A C \in SUBSET Objects : S \cup Children(h, C) \subseteq C => o \in C}

\* What the program can still get at, and what its finalizers will.
Needed == Reachable(heap, roots \cup heap.finalizers \cup heap.finalizer_list_marked
                                \cup heap.to_finalize)

\* Nothing that the program or a finalizer can reach is ever freed, and a weak
\* reference that it can reach never leads to a freed object.
NoDangling ==
  \A o \in Needed : /\ heap.bits[o] # FREE
                    /\ heap.ref[o] # Nothing => heap.bits[heap.ref[o]] # FREE

\* A full collection frees all that neither the program nor a finalizer can
\* reach, whatever generation it is in and whatever page, and clears the weak
\* references to what only a finalizer can reach.
FullCollects ==
  just_full =>
    \A o \in Objects :
      /\ o \notin Needed => heap.bits[o] = FREE
      /\ o \in WeakRefs /\ o \in Needed => heap.ref[o] \in Reachable(heap, roots) \cup {Nothing}

=============================================================================
