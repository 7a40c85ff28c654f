---------------------------- MODULE SchedulerInit ----------------------------
(***************************************************************************)
(* Work that one replica does for all, behind a Redis key set with NX and  *)
(* a time to live: initializeJobSchedulers, initializeMonitorSchedulers    *)
(* and the worker of the data life cycle clean-up.  The key is deleted     *)
(* without a look at who set it, and it may expire under its holder.       *)
(***************************************************************************)
EXTENDS Integers, FiniteSets

CONSTANTS
  Replica,      \* app processes
  Service,      \* the kinds of work a behaviour may be about
  MaxAttempts,  \* maxRetries of the initializers, attempts of the clean-up job
  MaxFaults,    \* bound: failed Redis calls and queries, crashes
  MaxOverruns,  \* bound: locks that expire while their holder works
  NoReplica

ASSUME ReplicaAssumption == IsFiniteSet(Replica) /\ NoReplica \notin Replica
ASSUME ServiceAssumption == Service \subseteq {"jobs", "monitors", "cleanup"}
ASSUME BoundAssumption == MaxAttempts \in Nat /\ MaxFaults \in Nat /\ MaxOverruns \in Nat

VARIABLES
  service,   \* what the lock protects
  lock,      \* the replica that set the key, NoReplica when it is absent
  pc,        \* "release": DEL after the work; "unwind": DEL after an error
  attempt,   \* the attempt a replica is at
  overruns,  \* how many locks expired while their holder worked
  stale,     \* a Redis call failed or a process died: a lock may outlive its holder
  faults

vars == <<service, lock, pc, attempt, overruns, stale, faults>>

PCs == {"idle", "acquire", "work", "release", "unwind", "backoff", "done", "skipped", "failed"}

TypeOK ==
  /\ service \in Service
  /\ lock \in Replica \cup {NoReplica}
  /\ pc \in [Replica -> PCs]
  /\ attempt \in [Replica -> 0 .. MaxAttempts]
  /\ overruns \in 0 .. MaxOverruns
  /\ stale \in {"no", "yes"}
  /\ faults \in 0 .. MaxFaults

Init ==
  /\ service \in Service
  /\ lock = NoReplica
  /\ pc = [r \in Replica |-> "idle"]
  /\ attempt = [r \in Replica |-> 0]
  /\ overruns = 0
  /\ stale = "no"
  /\ faults = 0

Fault == faults < MaxFaults /\ faults' = faults + 1

\* Replicas between the answer to their SET and the answer to their DEL.
Active == {r \in Replica : pc[r] \in {"work", "release", "unwind"}}

-----------------------------------------------------------------------------
\* A process starts, or its clean-up job is due.
Start(r) ==
  /\ pc[r] = "idle"
  /\ MaxAttempts > 0
  /\ pc' = [pc EXCEPT ![r] = "acquire"]
  /\ attempt' = [attempt EXCEPT ![r] = 1]
  /\ UNCHANGED <<service, lock, overruns, stale, faults>>

AcquireMutant(r) ==
  /\ pc[r] = "acquire"
  /\ lock' = r
  /\ pc' = [pc EXCEPT ![r] = "work"]
  /\ UNCHANGED <<service, attempt, overruns, stale, faults>>
\* SET NX EX: taken, or another instance is taken to be at work and this one answers success.
Acquire(r) ==
  /\ pc[r] = "acquire"
  /\ IF lock = NoReplica
     THEN lock' = r /\ pc' = [pc EXCEPT ![r] = "work"]
     ELSE UNCHANGED lock /\ pc' = [pc EXCEPT ![r] = "skipped"]
  /\ UNCHANGED <<service, attempt, overruns, stale, faults>>

AfterErrorMutant(r) == IF attempt[r] <= MaxAttempts THEN "backoff" ELSE "failed"
\* Where an error leads: a pause before the next attempt, or the end.
AfterError(r) == IF attempt[r] < MaxAttempts THEN "backoff" ELSE "failed"

\* The SET fails, maybe after it took effect.  The clean-up then gives way.
AcquireFails(r) ==
  /\ pc[r] = "acquire"
  /\ lock' \in {lock, IF lock = NoReplica THEN r ELSE lock}
  /\ pc' = [pc EXCEPT ![r] = IF service = "cleanup" THEN "skipped" ELSE AfterError(r)]
  /\ stale' = "yes"
  /\ Fault
  /\ UNCHANGED <<service, attempt, overruns>>

\* Monitors: the lock is deleted when there was nothing to schedule, else left to expire.
Work(r) ==
  /\ pc[r] = "work"
  /\ \/ pc' = [pc EXCEPT ![r] = "release"]
     \/ service = "monitors" /\ pc' = [pc EXCEPT ![r] = "done"]
  /\ UNCHANGED <<service, lock, attempt, overruns, stale, faults>>

WorkFailsMutant(r) ==
  /\ pc[r] = "work"
  /\ pc' = [pc EXCEPT ![r] = AfterError(r)]
  /\ Fault
  /\ UNCHANGED <<service, lock, attempt, overruns, stale>>
\* A query throws.  Jobs and clean-up delete the lock in `finally`, monitors do not.
WorkFails(r) ==
  /\ pc[r] = "work"
  /\ pc' = [pc EXCEPT ![r] = IF service = "monitors" THEN AfterError(r) ELSE "unwind"]
  /\ Fault
  /\ UNCHANGED <<service, lock, attempt, overruns, stale>>

Released(r) == IF pc[r] = "release" THEN "done" ELSE AfterError(r)

\* DEL, whoever holds the lock by now.
Release(r) ==
  /\ pc[r] \in {"release", "unwind"}
  /\ lock' = NoReplica
  /\ pc' = [pc EXCEPT ![r] = Released(r)]
  /\ UNCHANGED <<service, attempt, overruns, stale, faults>>

\* Only logged (by monitors: caught, and the attempt repeated; with nothing to schedule).
ReleaseFails(r) ==
  /\ pc[r] \in {"release", "unwind"}
  /\ pc' = [pc EXCEPT ![r] = IF service = "monitors" THEN AfterError(r) ELSE Released(r)]
  /\ stale' = "yes"
  /\ Fault
  /\ UNCHANGED <<service, lock, attempt, overruns>>

Retry(r) ==
  /\ pc[r] = "backoff"
  /\ pc' = [pc EXCEPT ![r] = "acquire"]
  /\ attempt' = [attempt EXCEPT ![r] = attempt[r] + 1]
  /\ UNCHANGED <<service, lock, overruns, stale, faults>>

\* The process dies and starts again, or the next clean-up is due.
Restart(r) ==
  /\ pc[r] # "idle"
  /\ pc' = [pc EXCEPT ![r] = "idle"]
  /\ stale' = IF r \in Active THEN "yes" ELSE stale
  /\ Fault
  /\ UNCHANGED <<service, lock, attempt, overruns>>

ExpireMutant ==
  /\ lock \in Active
  /\ overruns < MaxOverruns
  /\ overruns' = overruns + 1
  /\ lock' = NoReplica
  /\ UNCHANGED <<service, pc, attempt, stale, faults>>
\* The time to live ends.  Under a holder that works it is an overrun.
Expire ==
  /\ lock # NoReplica
  /\ IF lock \in Active
     THEN overruns < MaxOverruns /\ overruns' = overruns + 1
     ELSE UNCHANGED overruns
  /\ lock' = NoReplica
  /\ UNCHANGED <<service, pc, attempt, stale, faults>>

Step(r) ==
  \/ Acquire(r)
  \/ Work(r)
  \/ Release(r)
  \/ Retry(r)

Next ==
  \/ Expire
  \/ \E r \in Replica :
       \/ Start(r)
       \/ Step(r)
       \/ AcquireFails(r)
       \/ WorkFails(r)
       \/ ReleaseFails(r)
       \/ Restart(r)

\* A replica goes on with what it started (the work is a bounded number of calls); Redis
\* removes expired keys.
Fairness == WF_vars(Expire) /\ \A r \in Replica : WF_vars(Step(r))

Spec == Init /\ [][Next]_vars /\ Fairness

-----------------------------------------------------------------------------
(* Properties.                                                             *)

\* Besides the holder of the lock at most one replica works for each lock that ever expired
\* under its holder, although a late DEL also removes the lock of the next holder and lets
\* one more replica in: the delete without an owner check does not multiply the overlap.  When
\* no lock expires too early, "a distributed lock to prevent race conditions in clustered
\* environments" is what it is: who works is the holder.
OverlapBounded == Cardinality(Active \ {lock}) <= overruns

\* For jobs and clean-up a lock stands for a replica at work, so that a retry never meets its
\* own lock and a skip means another instance is at work, unless a Redis call failed or a
\* process died.
LockMeansWork ==
  service # "monitors" /\ stale = "no" => lock \in Active \cup {NoReplica}

\* Whoever dies, the lock becomes free.
LockIsFreed == []<>(lock = NoReplica)

\* A replica that gives way to the holder of the lock, with no failed Redis call or dead
\* process before, does so while another one is at work.
SkipJustified ==
  \A r \in Replica :
    pc[r] = "acquire" /\ pc'[r] = "skipped" /\ stale' = "no" => Active \ {r} # {}

\* "Another instance is initializing schedulers, skipping...": a replica skips only if another
\* one is at work.
SkipMeansOtherAtWork == [][SkipJustified]_vars
=============================================================================
