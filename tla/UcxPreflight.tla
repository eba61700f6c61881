---------------------------- MODULE UcxPreflight ----------------------------
(***************************************************************************)
(* Soft locks on Synapse for UCX jobs (integrations/ucx/                    *)
(* execution_adapter.jl, module UcxPreflight).  Before a job starts its      *)
(* caller reads the agent's balance and asks preflight to reserve the        *)
(* estimated cost; when the job is over, settle releases the reservation     *)
(* and the caller debits the actual cost.                                    *)
(*                                                                         *)
(* The lock table outlives a request and has one mutex, which preflight      *)
(* takes twice: to add up what is reserved, and to insert its ticket.  An    *)
(* action is one critical section, or one step of the caller.  A client is   *)
(* a task that runs such calls one after the other; the jobs themselves      *)
(* overlap.                                                                  *)
(***************************************************************************)
EXTENDS Integers, FiniteSets, FiniteSetsExt, Functions

CONSTANTS
  Clients,        \* the tasks that call preflight and settle
  Agents,         \* agent_id
  LockIds,        \* lock_id: agent, job and time_ns, never used twice
  Estimates,      \* what estimate_synapse_cost may return
  Actuals,        \* what a job may turn out to cost
  InitialBalance, \* the Synapse an agent starts with
  None            \* no ticket under a lock_id, no call in a client

Ticket == [agent_id : Agents, estimated_synapse : Estimates]

VARIABLES
  synapse_balance, \* vm.synapse_balance, kept and debited by the callers
  lock_table,      \* _lock_table
  issued,          \* the lock_ids that preflight has handed out
  pc,              \* where the call of each client stands
  call             \* the local variables of that call, None when idle

vars == <<synapse_balance, lock_table, issued, pc, call>>

Asking == [agent_id : Agents, synapse_balance : Int, estimated : Estimates]
Settled == [agent_id : Agents, actual_synapse : Actuals]

-----------------------------------------------------------------------------
Held(a) == {id \in LockIds : lock_table[id] # None /\ lock_table[id].agent_id = a}

\* The sum that preflight takes over the table, and active_locks reports.
already_locked(a) == SumFunction([id \in Held(a) |-> lock_table[id].estimated_synapse])

Init ==
  /\ synapse_balance = [a \in Agents |-> InitialBalance]
  /\ lock_table = [id \in LockIds |-> None]
  /\ issued = {}
  /\ pc = [c \in Clients |-> "idle"]
  /\ call = [c \in Clients |-> None]

Goto(c, from, to) == pc[c] = from /\ pc' = [pc EXCEPT ![c] = to]

Return(c, from) == Goto(c, from, "idle") /\ call' = [call EXCEPT ![c] = None]

\* Bound of the model: a call is begun only while there is a lock_id for it.
IdsLeft ==
  Cardinality(issued) + Cardinality({c \in Clients : pc[c] \in {"asking", "admitted"}})
    < Cardinality(LockIds)

\* The caller reads the balance it will pass to preflight.
ReadBalance(c, a, estimated) ==
  /\ IdsLeft
  /\ Goto(c, "idle", "asking")
  /\ call' = [call EXCEPT ![c] = [agent_id |-> a, estimated |-> estimated,
                                  synapse_balance |-> synapse_balance[a]]]
  /\ UNCHANGED <<synapse_balance, lock_table, issued>>

\* Mutant: reservations are not counted.
sufficient_unlocked(c) == call[c].estimated <= call[c].synapse_balance

sufficient(c) ==
  call[c].estimated <= call[c].synapse_balance - already_locked(call[c].agent_id)

\* preflight, first critical section: enough Synapse is neither spent nor reserved.
CheckAvailable(c) ==
  /\ Goto(c, "asking", "admitted")
  /\ sufficient(c)
  /\ UNCHANGED <<synapse_balance, lock_table, issued, call>>

RefusePreflight(c) ==
  /\ Return(c, "asking")
  /\ ~sufficient(c)
  /\ UNCHANGED <<synapse_balance, lock_table, issued>>

reserved(c) == call[c].estimated

\* preflight, second critical section: the ticket enters the table.
InsertTicket(c, id) ==
  /\ Return(c, "admitted")
  /\ id \notin issued
  /\ issued' = issued \cup {id}
  /\ lock_table' = [lock_table EXCEPT ![id] =
       [agent_id |-> call[c].agent_id, estimated_synapse |-> reserved(c)]]
  /\ UNCHANGED synapse_balance

released(id) == [lock_table EXCEPT ![id] = None]

\* settle releases the reservation and reports the cost to charge.
Settle(c, id, actual) ==
  /\ lock_table[id] # None
  /\ Goto(c, "idle", "settled")
  /\ lock_table' = released(id)
  /\ call' = [call EXCEPT ![c] =
                [agent_id |-> lock_table[id].agent_id, actual_synapse |-> actual]]
  /\ UNCHANGED <<synapse_balance, issued>>

\* A lock that is unknown or already settled is an error and changes nothing.
RefuseSettle(c, id) ==
  /\ pc[c] = "idle"
  /\ lock_table[id] = None
  /\ UNCHANGED vars

\* The caller charges what settle reported.
Debit(c) ==
  /\ Return(c, "settled")
  /\ synapse_balance' =
       [synapse_balance EXCEPT ![call[c].agent_id] = @ - call[c].actual_synapse]
  /\ UNCHANGED <<lock_table, issued>>

Next ==
  \E c \in Clients :
    \/ \E a \in Agents, estimated \in Estimates : ReadBalance(c, a, estimated)
    \/ CheckAvailable(c)
    \/ RefusePreflight(c)
    \/ \E id \in LockIds : InsertTicket(c, id)
    \/ \E id \in LockIds, actual \in Actuals : Settle(c, id, actual)
    \/ \E id \in LockIds : RefuseSettle(c, id)
    \/ Debit(c)

Spec == Init /\ [][Next]_vars

-----------------------------------------------------------------------------
\* Every variable has its type; a ticket is in the table only under an id that
\* preflight has handed out.
TypeOK ==
  /\ synapse_balance \in [Agents -> Int]
  /\ lock_table \in [LockIds -> Ticket \cup {None}]
  /\ issued \in SUBSET LockIds
  /\ pc \in [Clients -> {"idle", "asking", "admitted", "settled"}]
  /\ DOMAIN call = Clients
  /\ \A c \in Clients :
       /\ pc[c] \in {"asking", "admitted"} => call[c] \in Asking
       /\ pc[c] = "settled" => call[c] \in Settled
  /\ \A id \in LockIds : lock_table[id] # None => id \in issued

\* An agent's reservations need not be covered by its balance ("prevents
\* double-spend across concurrent jobs" holds for one client at a time): two
\* preflights that add up the table before either inserts are both admitted.  But
\* each still had to fit the balance alone: reservations stay within one balance
\* per client.
OverReserveBounded ==
  \A a \in Agents : already_locked(a) <= InitialBalance * Cardinality(Clients)

=============================================================================
