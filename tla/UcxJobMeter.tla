----------------------------- MODULE UcxJobMeter -----------------------------
(***************************************************************************)
(* Live metering of UCX jobs (integrations/ucx/resource_meter.jl, module     *)
(* UcxJobMeter).  A registry maps the session_id of a job to its session;    *)
(* the registry has a mutex and every session a lock of its own.             *)
(* record_sample and stop_session look the session up under the mutex and    *)
(* then work on it under its lock, so a session may be stopped or replaced   *)
(* in between.                                                              *)
(*                                                                         *)
(* Time is a counter of seconds, the utilisation of a sample a number of     *)
(* hundredths, and GPU time is counted in hundredths of a second.  The       *)
(* Synapse cost, the memory peak and the sample count accrue in the same      *)
(* critical section under the same guard and are left out.                   *)
(***************************************************************************)
EXTENDS Integers, FiniteSets

CONSTANTS
  Callers,       \* the tasks that call the meter
  Jobs,          \* job_id; the session_id is made from it alone
  Utilizations,  \* gpu_utilization as it is passed in, in hundredths
  MaxSessions,   \* bound of the model on the sessions ever started
  MaxTime,       \* bound of the model on the clock
  None           \* no session in the registry, no session fetched

Full == 100         \* a GPU in full use
Sessions == 1..MaxSessions

Setting ==
  /\ MaxSessions \in Nat /\ MaxTime \in Nat
  /\ Utilizations \subseteq Int
  /\ None \notin Nat

VARIABLES
  now,       \* the wall clock
  session,   \* every MeterSession ever made, also those no longer registered
  started,   \* how many there are
  registry,  \* _registry: the session of a job
  pc,        \* where the call of each caller stands
  entry      \* the session that call has looked up

vars == <<now, session, started, registry, pc, entry>>

MeterSession ==
  [job_id : Jobs, started_at : Nat, last_sample_at : Nat,
   gpu_seconds_elapsed : Nat, active : BOOLEAN]

Live == 1..started

Init ==
  /\ now = 0
  /\ session = [s \in {} |-> None]
  /\ started = 0
  /\ registry = [j \in Jobs |-> None]
  /\ pc = [c \in Callers |-> "idle"]
  /\ entry = [c \in Callers |-> None]

Tick ==
  /\ now < MaxTime
  /\ now' = now + 1
  /\ UNCHANGED <<session, started, registry, pc, entry>>

\* start_session replaces a session of the same job, which keeps running for
\* those who hold it and is never stopped through the registry.
StartSession(j) ==
  /\ started < MaxSessions
  /\ started' = started + 1
  /\ session' = [s \in 1..(started + 1) |->
       IF s \in Live THEN session[s]
       ELSE [job_id |-> j, started_at |-> now, last_sample_at |-> now,
             gpu_seconds_elapsed |-> 0, active |-> TRUE]]
  /\ registry' = [registry EXCEPT ![j] = started + 1]
  /\ UNCHANGED <<now, pc, entry>>

\* Look the session up under the registry's mutex.
Fetch(c, j, step) ==
  /\ pc[c] = "idle"
  /\ registry[j] # None
  /\ pc' = [pc EXCEPT ![c] = step]
  /\ entry' = [entry EXCEPT ![c] = registry[j]]
  /\ UNCHANGED <<now, session, started>>

Return(c, from) ==
  /\ pc[c] = from
  /\ pc' = [pc EXCEPT ![c] = "idle"]
  /\ entry' = [entry EXCEPT ![c] = None]
  /\ UNCHANGED <<now, started, registry>>

\* record_sample and stop_session on a session that is not registered.
UnknownSession(c, j) ==
  /\ pc[c] = "idle"
  /\ registry[j] = None
  /\ UNCHANGED vars

BeginSample(c, j) == Fetch(c, j, "sampling") /\ UNCHANGED registry

clamp(utilization) ==
  IF utilization < 0 THEN 0 ELSE IF utilization > Full THEN Full ELSE utilization

\* Mutant: the time of the sample is not kept.
sampled_untimed(s, utilization) ==
  [s EXCEPT !.gpu_seconds_elapsed = @ + (now - s.last_sample_at) * clamp(utilization)]

\* The time since the last sample counts as far as the GPU was in use.
sampled(s, utilization) ==
  [s EXCEPT !.gpu_seconds_elapsed = @ + (now - s.last_sample_at) * clamp(utilization),
            !.last_sample_at = now]

\* The time since the last sample counts in full.
stopped(s) ==
  [s EXCEPT !.active = FALSE,
            !.gpu_seconds_elapsed = @ + (now - s.last_sample_at) * Full]

\* Mutant: a stopped session still counts.
counts_always(s) == TRUE

counts(s) == session[s].active

\* record_sample under the session's lock.
RecordSample(c, utilization) ==
  /\ Return(c, "sampling")
  /\ counts(entry[c])
  /\ session' = [session EXCEPT ![entry[c]] = sampled(@, utilization)]

SampleStopped(c) ==
  /\ Return(c, "sampling")
  /\ ~counts(entry[c])
  /\ UNCHANGED session

unregistered(j) == [registry EXCEPT ![j] = None]

\* stop_session takes the session out of the registry ...
BeginStop(c, j) == Fetch(c, j, "stopping") /\ registry' = unregistered(j)

\* ... and closes it under its own lock.
StopSession(c) ==
  /\ Return(c, "stopping")
  /\ session' = [session EXCEPT ![entry[c]] = stopped(@)]

Next ==
  \/ Tick
  \/ \E j \in Jobs : StartSession(j)
  \/ \E c \in Callers :
       \/ \E j \in Jobs : UnknownSession(c, j) \/ BeginSample(c, j) \/ BeginStop(c, j)
       \/ \E utilization \in Utilizations : RecordSample(c, utilization)
       \/ SampleStopped(c)
       \/ StopSession(c)

Spec == Init /\ [][Next]_vars

-----------------------------------------------------------------------------
\* Every variable has its type; a caller in the middle of a call holds a session.
TypeOK ==
  /\ now \in Nat
  /\ started \in 0..MaxSessions
  /\ session \in [Live -> MeterSession]
  /\ registry \in [Jobs -> Live \cup {None}]
  /\ pc \in [Callers -> {"idle", "sampling", "stopping"}]
  /\ entry \in [Callers -> Live \cup {None}]
  /\ \A c \in Callers : pc[c] # "idle" => entry[c] \in Live

\* No session is billed for more GPU time than has passed since it started,
\* whatever the samples claim and whoever samples concurrently.
BilledWithinWallTime ==
  \A s \in Live :
    /\ session[s].gpu_seconds_elapsed <= (now - session[s].started_at) * Full
    /\ session[s].last_sample_at <= now

\* The reading that stop_session returned is final: a sample that had already
\* looked the session up, or a second stop, does not change it.
ReadingFinal ==
  [][\A s \in Live : ~session[s].active => session'[s] = session[s]]_vars

\* A registered session is running and no caller is stopping it, so at most one
\* caller ever stops a session and it is charged to settle once.
Stopping(c) == pc[c] = "stopping"

OneStop ==
  /\ \A j \in Jobs : registry[j] # None =>
       /\ session[registry[j]].job_id = j
       /\ session[registry[j]].active
       /\ \A c \in Callers : Stopping(c) => entry[c] # registry[j]
  /\ \A c, d \in Callers : Stopping(c) /\ Stopping(d) /\ entry[c] = entry[d] => c = d
  /\ \A c \in Callers : Stopping(c) => session[entry[c]].active

\* The strengthening that makes these inductive: what is billed on a running
\* session covers no time past its last sample.
SampledInv ==
  \A s \in Live :
    /\ session[s].started_at <= session[s].last_sample_at
    /\ session[s].last_sample_at <= now
    /\ session[s].active =>
         session[s].gpu_seconds_elapsed
           <= (session[s].last_sample_at - session[s].started_at) * Full
    /\ ~session[s].active =>
         session[s].gpu_seconds_elapsed <= (now - session[s].started_at) * Full

MeterInv == TypeOK /\ SampledInv /\ OneStop

=============================================================================
