----------------------------- MODULE Finalizers -----------------------------
(***************************************************************************)
(* The finalizers of the Julia runtime (gc.c): threads register a function  *)
(* for an object in a list of their own without a lock, while another       *)
(* thread that finalizes an object takes entries out of that list, the      *)
(* collector moves entries on, and the program's end flushes all lists.     *)
(*                                                                           *)
(* An entry is a number, in the order of registration.  A list is its       *)
(* buffer `items` and its length; 0 is an empty slot.  A list that is full  *)
(* grows under the lock, where the owner reads the length again: it is as   *)
(* if it came then.  Errors that a finalizer throws are caught and shown.   *)
(***************************************************************************)
EXTENDS Integers, Sequences, SequencesExt, FiniteSets

CONSTANTS
  nthreads,
  Objects,
  MaxEntries,      \* bound: registrations
  MaxEvents,       \* bound: collections, and the times that finalizers are inhibited
  ExitWhileRunning \* whether other threads go on while the program ends

Threads == 1..nthreads
Entries == 1..MaxEntries
NoOwner == 0

VARIABLES
  pc,
  object,          \* the object of each entry registered so far
  items, len,      \* ptls->finalizers
  oldlen,          \* local: the length that an owner, or who finalizes, has read
  newentry,        \* local: the entry that a thread registers
  visit, o,        \* locals: the list that is visited, the object that is finalized
  newlen, copied_list,
  finalizer_list_marked,
  to_finalize,
  jl_gc_have_pending_finalizers,
  finalizers_lock,
  finalizers_inhibited,
  batches,         \* the lists of finalizers that a thread runs, the innermost last
  runs,            \* (history) how often each entry was run
  dropped,         \* the objects that the program no longer reaches
  old, oldfun,     \* the objects in the old generation, the entries whose function is
  prev_sweep_full,
  exiting,
  collections, inhibits

lists == <<items, len>>
global == <<finalizer_list_marked, to_finalize, jl_gc_have_pending_finalizers, finalizers_lock>>
locals == <<oldlen, newentry, visit, o, newlen, copied_list>>
heap == <<dropped, old, oldfun, prev_sweep_full, collections>>
progress == <<batches, runs>>
control == <<finalizers_inhibited, exiting, inhibits>>
vars == <<pc, object, lists, global, locals, heap, progress, control>>

Goto(t, to) == pc' = [pc EXCEPT ![t] = to]
used == Len(object)

\* The entries of `s` that are in S, in their order.
Kept(s, S) ==
  LET kept[i \in 0..Len(s)] ==
        IF i = 0 THEN << >> ELSE kept[i - 1] \o (IF s[i] \in S THEN <<s[i]>> ELSE << >>)
  IN kept[Len(s)]

\* The entries of a list: what its owner published and nobody has emptied.
Live(t) == Kept(SubSeq(items[t], 1, len[t]), Entries)
Of(s, ob) == Kept(s, {n \in 1..used : object[n] = ob})
Except(s, ob) == Kept(s, {n \in 1..used : object[n] # ob})
Padded(s) == [i \in Entries |-> IF i <= Len(s) THEN s[i] ELSE 0]

running(t) == batches[t] # << >>
in_finalizer(t) == \E i \in DOMAIN batches[t] : batches[t][i].pending

Init ==
  /\ pc = [t \in Threads |-> "user"]
  /\ object = << >>
  /\ items = [t \in Threads |-> Padded(<< >>)] /\ len = [t \in Threads |-> 0]
  /\ oldlen = [t \in Threads |-> 0] /\ newentry = [t \in Threads |-> 0]
  /\ visit = 0 /\ o = {} /\ newlen = 0 /\ copied_list = << >>
  /\ finalizer_list_marked = << >> /\ to_finalize = << >>
  /\ jl_gc_have_pending_finalizers = FALSE /\ finalizers_lock = NoOwner
  /\ finalizers_inhibited = [t \in Threads |-> FALSE]
  /\ batches = [t \in Threads |-> << >>] /\ runs = [n \in Entries |-> 0]
  /\ dropped = {} /\ old = {} /\ oldfun = {} /\ prev_sweep_full = TRUE
  /\ exiting = FALSE /\ collections = 0 /\ inhibits = 0

\* schedule_finalization of the entries `s`: jl_gc_have_pending_finalizers.
flagged_stale(s) == jl_gc_have_pending_finalizers
flagged(s) == jl_gc_have_pending_finalizers \/ s # << >>

-----------------------------------------------------------------------------
(* jl_gc_add_finalizer_: by the owner of the list, without the lock.         *)

\* The finalizer that runs may register its object again.
reaches(t, ob) ==
  \/ ob \notin dropped
  \/ running(t) /\ ob \in {object[n] : n \in ToSet(Last(batches[t]).items)}

AddFinalizer(t, ob) ==
  /\ pc[t] = "user" /\ used < MaxEntries /\ reaches(t, ob)
  /\ exiting => ExitWhileRunning
  /\ object' = Append(object, ob)
  /\ newentry' = [newentry EXCEPT ![t] = used + 1]
  /\ oldlen' = [oldlen EXCEPT ![t] = len[t]]
  /\ Goto(t, "push")
  /\ UNCHANGED <<lists, global, visit, o, newlen, copied_list, heap, progress, control>>

PushItem(t) ==
  /\ pc[t] = "push"
  /\ items' = [items EXCEPT ![t][oldlen[t] + 1] = newentry[t]]
  /\ Goto(t, "publish")
  /\ UNCHANGED <<object, len, global, locals, heap, progress, control>>

PublishLen(t) ==
  /\ pc[t] = "publish"
  /\ len' = [len EXCEPT ![t] = oldlen[t] + 1]
  /\ oldlen' = [oldlen EXCEPT ![t] = 0] /\ newentry' = [newentry EXCEPT ![t] = 0]
  /\ Goto(t, "user")
  /\ UNCHANGED <<object, items, global, visit, o, newlen, copied_list, heap, progress, control>>

-----------------------------------------------------------------------------
(* jl_finalize_th                                                           *)

\* The lock keeps others out, except the owners of the lists.
Finalize(t, ob) ==
  /\ pc[t] = "user" /\ ob \notin dropped /\ finalizers_lock = NoOwner /\ used > 0
  /\ finalizers_lock' = t
  /\ o' = {ob} /\ visit' = 1 /\ copied_list' = << >>
  /\ Goto(t, "visit")
  /\ UNCHANGED <<object, lists, finalizer_list_marked, to_finalize, heap,
                 jl_gc_have_pending_finalizers, oldlen, newentry, newlen, progress, control>>

\* finalize_object on the list of thread `visit`: its entries below the length that
\* was read are compacted, and what is left over is emptied.  The owner's length is
\* its own business unless it is the caller.
kept_tail(s, kept, l) == [i \in Entries |-> IF i <= Len(kept) THEN kept[i] ELSE s[i]]
emptied_tail(s, kept, l) ==
  [i \in Entries |-> IF i <= Len(kept) THEN kept[i] ELSE IF i <= l THEN 0 ELSE s[i]]

FinalizeObject(t) ==
  /\ pc[t] = "visit" /\ visit <= nthreads
  /\ LET ob == CHOOSE ob \in o : TRUE
         kept == Except(Live(visit), ob)
     IN /\ copied_list' = copied_list \o Of(Live(visit), ob)
        /\ IF Len(kept) = len[visit]
           THEN visit' = visit + 1 /\ UNCHANGED <<pc, items, len, oldlen, newlen>>
           ELSE IF visit = t
           THEN /\ items' = [items EXCEPT ![t] = kept_tail(@, kept, len[t])]
                /\ len' = [len EXCEPT ![t] = Len(kept)]
                /\ visit' = visit + 1
                /\ UNCHANGED <<pc, oldlen, newlen>>
           ELSE /\ items' = [items EXCEPT ![visit] = emptied_tail(@, kept, len[visit])]
                /\ oldlen' = [oldlen EXCEPT ![t] = len[visit]]
                /\ newlen' = Len(kept)
                /\ Goto(t, "cmpswap")
                /\ UNCHANGED <<len, visit>>
  /\ UNCHANGED <<object, global, newentry, o, heap, progress, control>>

\* The new length is published unless the owner has published a longer list.
unmoved_anyway(t) == TRUE
unmoved(t) == len[visit] = oldlen[t]

CmpswapLen(t) ==
  /\ pc[t] = "cmpswap"
  /\ len' = [len EXCEPT ![visit] = IF unmoved(t) THEN newlen ELSE @]
  /\ visit' = visit + 1
  /\ oldlen' = [oldlen EXCEPT ![t] = 0] /\ newlen' = 0
  /\ Goto(t, "visit")
  /\ UNCHANGED <<object, items, global, newentry, o, copied_list, heap, progress, control>>

\* The list of the old objects comes last; then the lock is released and the
\* finalizers run, the last one first.
FinalizeMarked(t) ==
  /\ pc[t] = "visit" /\ visit > nthreads
  /\ LET ob == CHOOSE ob \in o : TRUE
         all == copied_list \o Of(finalizer_list_marked, ob)
     IN /\ finalizer_list_marked' = Except(finalizer_list_marked, ob)
        /\ batches' = [batches EXCEPT ![t] =
             IF all = << >> THEN @ ELSE Append(@, [pending |-> FALSE, items |-> all])]
  /\ finalizers_lock' = NoOwner
  /\ visit' = 0 /\ o' = {} /\ copied_list' = << >>
  /\ Goto(t, "user")
  /\ UNCHANGED <<object, lists, to_finalize, jl_gc_have_pending_finalizers, oldlen, newentry,
                 newlen, heap, runs, control>>

\* run_finalizer: the innermost list, from its end.
RunFinalizer(t) ==
  /\ pc[t] = "user" /\ running(t)
  /\ LET batch == Last(batches[t])
         left == Front(batch.items)
     IN /\ runs' = [runs EXCEPT ![Last(batch.items)] = @ + 1]
        /\ batches' = [batches EXCEPT ![t] =
             IF left = << >> THEN Front(@) ELSE Append(Front(@), [batch EXCEPT !.items = left])]
  /\ UNCHANGED <<pc, object, lists, global, locals, heap, control>>

-----------------------------------------------------------------------------
(* run_finalizers: the entries that the collector or the end of the program *)
(* scheduled.                                                               *)

RunFinalizers(t) ==
  /\ finalizers_lock = NoOwner
  /\ to_finalize' = << >>
  /\ jl_gc_have_pending_finalizers' = IF to_finalize = << >> THEN jl_gc_have_pending_finalizers
                                      ELSE FALSE
  /\ batches' = [batches EXCEPT ![t] =
       IF to_finalize = << >> THEN @ ELSE Append(@, [pending |-> TRUE, items |-> to_finalize])]
  /\ Goto(t, "user")
  /\ UNCHANGED <<object, lists, finalizer_list_marked, finalizers_lock, locals, heap, runs>>

\* jl_gc_run_pending_finalizers, after an unlock.
RunPending(t) ==
  /\ pc[t] = "user" /\ jl_gc_have_pending_finalizers
  /\ ~in_finalizer(t) /\ ~finalizers_inhibited[t]
  /\ RunFinalizers(t)
  /\ UNCHANGED control

Inhibit(t) ==
  /\ pc[t] = "user" /\ ~finalizers_inhibited[t]
  /\ collections + inhibits < MaxEvents
  /\ inhibits' = inhibits + 1
  /\ finalizers_inhibited' = [finalizers_inhibited EXCEPT ![t] = TRUE]
  /\ UNCHANGED <<pc, object, lists, global, locals, heap, progress, exiting>>

Enable(t) ==
  /\ pc[t] = "user" /\ finalizers_inhibited[t]
  /\ finalizers_inhibited' = [finalizers_inhibited EXCEPT ![t] = FALSE]
  /\ IF jl_gc_have_pending_finalizers /\ ~in_finalizer(t)
     THEN RunFinalizers(t)
     ELSE UNCHANGED <<pc, object, lists, global, locals, heap, progress>>
  /\ UNCHANGED <<exiting, inhibits>>

-----------------------------------------------------------------------------
(* jl_gc_collect.  The functions above that hold or wait for the lock, or    *)
(* push, have no safepoint: the world is stopped when nobody is in them.     *)

Drop(ob) ==
  /\ ob \notin dropped
  /\ dropped' = dropped \cup {ob}
  /\ UNCHANGED <<pc, object, lists, global, locals, old, oldfun, prev_sweep_full, collections,
                 progress, control>>

\* Marked from the roots: what the program reaches, and what is about to be finalized.
\* What is old keeps its mark until a collection that follows a full sweep.
rooted(ob) ==
  \/ ob \notin dropped
  \/ \E t \in Threads : \E i \in DOMAIN batches[t] :
       ob \in {object[n] : n \in ToSet(batches[t][i].items)}
isfreed(ob) == ~rooted(ob) /\ (prev_sweep_full \/ ob \notin old)

\* sweep_finalizer_list
freed == {n \in 1..used : isfreed(object[n])}
Freed(s) == Kept(s, freed)
Stays(s, aged) == Kept(s, (1..used) \ (freed \cup aged))
Moves(s, aged) == Kept(s, aged \ freed)

all_lists(F(_)) == FlattenSeq([t \in Threads |-> F(t)])

\* The lists of the threads are swept before the list of old objects, and that one
\* only after a full sweep.
swept_marked == IF prev_sweep_full THEN finalizer_list_marked ELSE << >>

Collect(t, full, objects, functions) ==
  /\ pc[t] = "user" /\ \A u \in Threads : pc[u] \in {"user", "collected"}
  /\ collections + inhibits < MaxEvents
  /\ collections' = collections + 1
  /\ old' = old \cup objects /\ oldfun' = oldfun \cup functions
  /\ LET aged == {n \in oldfun' : object[n] \in old'}
         scheduled == all_lists(LAMBDA u : Freed(Live(u))) \o Freed(swept_marked)
     IN /\ items' = [u \in Threads |-> Padded(Stays(Live(u), aged))]
        /\ len' = [u \in Threads |-> Len(Stays(Live(u), aged))]
        /\ finalizer_list_marked' =
             (IF prev_sweep_full THEN Stays(finalizer_list_marked, {}) ELSE finalizer_list_marked)
               \o all_lists(LAMBDA u : Moves(Live(u), aged))
        /\ to_finalize' = to_finalize \o scheduled
        /\ jl_gc_have_pending_finalizers' = flagged(scheduled)
  /\ prev_sweep_full' = full
  /\ Goto(t, "collected")
  /\ UNCHANGED <<object, finalizers_lock, locals, dropped, progress, control>>

\* Afterwards the thread that collected runs them, unless they are inhibited there.
Collected(t) ==
  /\ pc[t] = "collected"
  /\ IF finalizers_inhibited[t]
     THEN Goto(t, "user") /\ UNCHANGED <<object, lists, global, locals, heap, progress>>
     ELSE RunFinalizers(t)
  /\ UNCHANGED control

-----------------------------------------------------------------------------
(* jl_gc_run_all_finalizers, from jl_atexit_hook                            *)

Exit(t) ==
  /\ pc[t] = "user" /\ t = 1 /\ ~exiting /\ finalizers_lock = NoOwner
  /\ ~ExitWhileRunning => \A u \in Threads : pc[u] = "user"
  /\ exiting' = TRUE
  /\ finalizers_lock' = t
  /\ to_finalize' = to_finalize \o finalizer_list_marked
  /\ finalizer_list_marked' = << >>
  /\ jl_gc_have_pending_finalizers' = flagged(finalizer_list_marked)
  /\ visit' = 1
  /\ Goto(t, "schedule")
  /\ UNCHANGED <<object, lists, oldlen, newentry, o, newlen, copied_list, heap, progress,
                 finalizers_inhibited, inhibits>>

\* schedule_all_finalizers: all that is in the list ...
ScheduleAll(t) ==
  /\ pc[t] = "schedule" /\ visit <= nthreads
  /\ to_finalize' = to_finalize \o Live(visit)
  /\ jl_gc_have_pending_finalizers' = flagged(Live(visit))
  /\ Goto(t, "clear")
  /\ UNCHANGED <<object, lists, finalizer_list_marked, finalizers_lock, locals, heap, progress,
                 control>>

\* ... and then the list is empty.
ClearList(t) ==
  /\ pc[t] = "clear"
  /\ len' = [len EXCEPT ![visit] = 0]
  /\ visit' = visit + 1
  /\ Goto(t, "schedule")
  /\ UNCHANGED <<object, items, global, oldlen, newentry, o, newlen, copied_list, heap, progress,
                 control>>

ScheduledAll(t) ==
  /\ pc[t] = "schedule" /\ visit > nthreads
  /\ finalizers_lock' = NoOwner
  /\ visit' = 0
  /\ Goto(t, "flush")
  /\ UNCHANGED <<object, lists, finalizer_list_marked, to_finalize, oldlen, newentry, o, newlen,
                 jl_gc_have_pending_finalizers, copied_list, heap, progress, control>>

Flush(t) == pc[t] = "flush" /\ RunFinalizers(t) /\ UNCHANGED control

-----------------------------------------------------------------------------

Registers(t) == (\E ob \in Objects : AddFinalizer(t, ob)) \/ PushItem(t) \/ PublishLen(t)
Finalizes(t) ==
  \/ (\E ob \in Objects : Finalize(t, ob)) \/ FinalizeObject(t) \/ CmpswapLen(t)
  \/ FinalizeMarked(t) \/ RunFinalizer(t)
Schedules(t) == RunPending(t) \/ Inhibit(t) \/ Enable(t)
Collects(t) ==
  \/ \E full \in BOOLEAN :
       \E objects \in SUBSET (Objects \ dropped), functions \in {{}, 1..used} :
         Collect(t, full, objects, functions)
  \/ Collected(t)
Exits(t) == Exit(t) \/ ScheduleAll(t) \/ ClearList(t) \/ ScheduledAll(t) \/ Flush(t)

\* The threads do something else.
Elsewhere == (\A t \in Threads : pc[t] = "user") /\ UNCHANGED vars

Next ==
  \/ Elsewhere
  \/ \E t \in Threads : Registers(t) \/ Finalizes(t) \/ Schedules(t) \/ Collects(t) \/ Exits(t)
  \/ \E ob \in Objects : Drop(ob)

Spec == Init /\ [][Next]_vars

Setting == nthreads \in Nat /\ MaxEntries \in Nat

-----------------------------------------------------------------------------

Count(s, n) == Cardinality({i \in DOMAIN s : s[i] = n})
InBatches ==
  all_lists(LAMBDA t : FlattenSeq([i \in DOMAIN batches[t] |-> batches[t][i].items]))
Places(n) ==
  Count(all_lists(Live) \o finalizer_list_marked \o to_finalize \o InBatches, n) + runs[n]
Registered == {n \in 1..used : \A t \in Threads : newentry[t] # n}

\* No finalizer is lost and none is run twice: between the critical sections every
\* entry that was registered is in one list, or is about to be run, or was run, once.
OnceInOnePlace == finalizers_lock = NoOwner => \A n \in Registered : Places(n) = 1

\* The collector schedules a finalizer only for an object that nobody reaches, and
\* finalizers that are pending are never forgotten: the flag says so.
PendingIsDue ==
  /\ ~exiting => \A n \in ToSet(to_finalize) : object[n] \in dropped
  /\ to_finalize # << >> => jl_gc_have_pending_finalizers

=============================================================================
