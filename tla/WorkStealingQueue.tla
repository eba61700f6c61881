------------------------- MODULE WorkStealingQueue -------------------------
(***************************************************************************)
(* The work-stealing queue of the parallel marking (work-stealing-queue.h): *)
(* one owner pushes and pops at the bottom, thieves steal at the top.       *)
(* Each step is one access of top, bottom, array or a slot; memory is       *)
(* sequentially consistent (the fences of the header are what makes the     *)
(* weaker models behave so).                                                *)
(*                                                                           *)
(* An array that was grown out of is never written again, and it is kept    *)
(* until the collection is over, so a thief may still read from it.         *)
(***************************************************************************)
EXTENDS Integers, Sequences

CONSTANTS
  Thieves,
  Owner,
  InitialCapacity,   \* of the first array, a power of two
  MaxItems,          \* bound: the items pushed
  Nothing            \* what a failed pop or steal returns

\* What the theorems about the queue assume; MCHeap has it as its assumption.
Setting ==
  /\ Owner \notin Thieves
  /\ InitialCapacity \in Nat \ {0}
  /\ MaxItems \in Nat

Items == 1..MaxItems
Workers == Thieves \cup {Owner}

VARIABLES
  top, bottom,
  arrays,      \* every ws_array_t that was made
  array,       \* the current one
  pc, t, ary,  \* locals: the next step, the top and the array that were read
  b,           \* local of the owner: the bottom it works on
  got,         \* local: the slot that was read; afterwards the result
  pushed,      \* (history) items are pushed in the order 1, 2, ...
  winners      \* (history) who kept each item

vars == <<top, bottom, arrays, array, pc, t, ary, b, got, pushed, winners>>
history == <<pushed, winners>>

capacity(a) == arrays[a].capacity
slot(a, i) == arrays[a].buffer[i % capacity(a)]

Goto(w, to) == pc' = [pc EXCEPT ![w] = to]

\* `w` keeps item `i`.
Keep(i, w) == winners' = [j \in DOMAIN winners \cup {i} |-> IF j = i THEN w ELSE winners[j]]

Init ==
  /\ top = 0 /\ bottom = 0
  /\ arrays = << [capacity |-> InitialCapacity, buffer |-> [i \in 0..InitialCapacity - 1 |-> Nothing]] >>
  /\ array = 1
  /\ pc = [w \in Workers |-> "idle"]
  /\ t = [w \in Workers |-> 0] /\ ary = [w \in Workers |-> 1] /\ b = 0
  /\ got = [w \in Workers |-> Nothing]
  /\ pushed = 0 /\ winners = [i \in {} |-> Owner]

-----------------------------------------------------------------------------
(* ws_queue_push                                                            *)

PushReadTop ==
  /\ pc[Owner] = "idle" /\ pushed < MaxItems
  /\ pushed' = pushed + 1
  /\ b' = bottom
  /\ t' = [t EXCEPT ![Owner] = top]
  /\ Goto(Owner, "push")
  /\ UNCHANGED <<top, bottom, arrays, array, ary, got, winners>>

is_full == b - t[Owner] > capacity(array) - 1

\* Twice the size, the same items under the same indices.
Grow ==
  /\ pc[Owner] = "push" /\ is_full
  /\ LET size == capacity(array)
         copy == [i \in 0..2 * size - 1 |->
                    IF \E k \in 0..size - 1 : (t[Owner] + k) % (2 * size) = i
                    THEN slot(array, i) ELSE Nothing]
     IN arrays' = Append(arrays, [capacity |-> 2 * size, buffer |-> copy])
  /\ array' = Len(arrays) + 1
  /\ UNCHANGED <<top, bottom, pc, t, ary, b, got, history>>

PushWrite ==
  /\ pc[Owner] = "push" /\ ~is_full
  /\ arrays' = [arrays EXCEPT ![array].buffer[b % capacity(array)] = pushed]
  /\ Goto(Owner, "publish")
  /\ UNCHANGED <<top, bottom, array, t, ary, b, got, history>>

PushPublish ==
  /\ pc[Owner] = "publish"
  /\ bottom' = b + 1
  /\ Goto(Owner, "idle")
  /\ UNCHANGED <<top, arrays, array, t, ary, b, got, history>>

-----------------------------------------------------------------------------
(* ws_queue_pop                                                             *)

\* The bottom is taken back before the top is read.
PopDecrement ==
  /\ pc[Owner] = "idle"
  /\ b' = bottom - 1 /\ bottom' = bottom - 1
  /\ Goto(Owner, "pop")
  /\ UNCHANGED <<top, arrays, array, t, ary, got, history>>

\* More than one item was left: no thief can reach this one.
out_of_reach_wrong == top <= b
out_of_reach == top < b

PopTake ==
  /\ pc[Owner] = "pop" /\ out_of_reach
  /\ got' = [got EXCEPT ![Owner] = slot(array, b)]
  /\ Keep(slot(array, b), Owner)
  /\ Goto(Owner, "idle")
  /\ UNCHANGED <<top, bottom, arrays, array, t, ary, b, pushed>>

\* The last item: thieves may be after it.
PopLast ==
  /\ pc[Owner] = "pop" /\ top = b /\ ~out_of_reach
  /\ t' = [t EXCEPT ![Owner] = top]
  /\ got' = [got EXCEPT ![Owner] = slot(array, b)]
  /\ Goto(Owner, "last")
  /\ UNCHANGED <<top, bottom, arrays, array, ary, b, history>>

PopRace ==
  /\ pc[Owner] = "last"
  /\ IF top = t[Owner]
     THEN top' = top + 1 /\ Keep(got[Owner], Owner) /\ UNCHANGED got
     ELSE got' = [got EXCEPT ![Owner] = Nothing] /\ UNCHANGED <<top, winners>>
  /\ Goto(Owner, "restore")
  /\ UNCHANGED <<bottom, arrays, array, t, ary, b, pushed>>

PopEmpty ==
  /\ pc[Owner] = "pop" /\ top > b
  /\ got' = [got EXCEPT ![Owner] = Nothing]
  /\ Goto(Owner, "restore")
  /\ UNCHANGED <<top, bottom, arrays, array, t, ary, b, history>>

PopRestore ==
  /\ pc[Owner] = "restore"
  /\ bottom' = b + 1
  /\ Goto(Owner, "idle")
  /\ UNCHANGED <<top, arrays, array, t, ary, b, got, history>>

-----------------------------------------------------------------------------
(* ws_queue_steal_from                                                      *)

StealReadTop(w) ==
  /\ pc[w] = "idle"
  /\ t' = [t EXCEPT ![w] = top]
  /\ got' = [got EXCEPT ![w] = Nothing]
  /\ Goto(w, "steal")
  /\ UNCHANGED <<top, bottom, arrays, array, ary, b, history>>

StealReadBottom(w) ==
  /\ pc[w] = "steal"
  /\ Goto(w, IF t[w] < bottom THEN "reach" ELSE "idle")
  /\ UNCHANGED <<top, bottom, arrays, array, t, ary, b, got, history>>

StealReadArray(w) ==
  /\ pc[w] = "reach"
  /\ ary' = [ary EXCEPT ![w] = array]
  /\ Goto(w, "copy")
  /\ UNCHANGED <<top, bottom, arrays, array, t, b, got, history>>

StealReadSlot(w) ==
  /\ pc[w] = "copy"
  /\ got' = [got EXCEPT ![w] = slot(ary[w], t[w])]
  /\ Goto(w, "claim")
  /\ UNCHANGED <<top, bottom, arrays, array, t, ary, b, history>>

\* What was read counts only if the top has not moved since it was read.
claim_wins_anyway(w) == TRUE
claim_wins(w) == top = t[w]

StealClaim(w) ==
  /\ pc[w] = "claim"
  /\ IF claim_wins(w)
     THEN top' = t[w] + 1 /\ Keep(got[w], w) /\ UNCHANGED got
     ELSE got' = [got EXCEPT ![w] = Nothing] /\ UNCHANGED <<top, winners>>
  /\ Goto(w, "idle")
  /\ UNCHANGED <<bottom, arrays, array, t, ary, b, pushed>>

-----------------------------------------------------------------------------

Push == PushReadTop \/ Grow \/ PushWrite \/ PushPublish
Pop == PopDecrement \/ PopTake \/ PopLast \/ PopRace \/ PopEmpty \/ PopRestore
Steal(w) ==
  \/ StealReadTop(w) \/ StealReadBottom(w) \/ StealReadArray(w) \/ StealReadSlot(w)
  \/ StealClaim(w)

Next == Push \/ Pop \/ \E w \in Thieves : Steal(w)

Spec == Init /\ [][Next]_vars

-----------------------------------------------------------------------------

\* What is in the queue for others to see: published, and kept by nobody.
published == IF pc[Owner] \in {"push", "publish"} THEN pushed - 1 ELSE pushed
Pending == 1..published \ DOMAIN winners

\* The queue implements a bag of work: every item is kept at most once, only an
\* item that was published, and never a stale or an empty slot.
Bag == INSTANCE WorkBag WITH pending <- Pending, taken <- winners
TakenOnce == Bag!Spec

\* Nothing is lost: between its operations the owner finds every item that nobody
\* kept between top and bottom; and a pop that comes back empty is right (while a
\* steal may come back empty because it lost a race).
NothingLost ==
  /\ pc[Owner] = "idle" => {slot(array, i) : i \in top..bottom - 1} = Pending
  /\ pc[Owner] = "restore" => Pending = {}

=============================================================================
