--------------------------- MODULE CapacityManager ---------------------------
(***************************************************************************)
(* Admission of the runs of one organization: capacity-manager.ts, the     *)
(* add*ToQueue functions of queue.ts that call it and the queue part of    *)
(* the cancel route.                                                       *)
(*                                                                         *)
(* A run asks for a slot and either goes to BullMQ at once or waits in a   *)
(* Redis sorted set, from which every app replica promotes it.  One action *)
(* is one awaited Redis call (a Lua script, a pipelined command, a         *)
(* queue.add) and the local code up to the next one.  All keys carry the   *)
(* organization, so one organization is modelled.                          *)
(***************************************************************************)
EXTENDS Integers, FiniteSets

CONSTANTS
  Run,               \* run ids, each inserted once as a row before it is submitted
  Replica,           \* app processes: each promotes, listens and reconciles
  RunningCapacity,   \* limits.runningCapacity of the plan
  QueuedCapacity,    \* limits.queuedCapacity of the plan
  Cancellable,       \* bound: the runs a user cancels (once each)
  MaxRequeues,       \* bound: how often BullMQ takes each run's job back (attempts, stalls)
  MaxFaults,         \* bound: Redis errors, crashes and lost events
  NoRun

ASSUME RunAssumption == IsFiniteSet(Run) /\ NoRun \notin Run /\ Cancellable \subseteq Run
ASSUME ReplicaAssumption == IsFiniteSet(Replica)
ASSUME CapacityAssumption == RunningCapacity \in Nat /\ QueuedCapacity \in Nat
ASSUME BoundAssumption == MaxRequeues \in [Run -> Nat] /\ MaxFaults \in Nat

VARIABLES
  running,    \* capacity:running:{org}, 0 when the key is absent
  queued,     \* members of the sorted set capacity:queued:{org}
  queuedAt,   \* the score each run was stamped with, 0 before it is stamped
  data,       \* runs whose capacity:job:{id} key exists
  released,   \* runs whose capacity:released:{id} flag is set
  pc,         \* the request that submits the run; its last value is its answer
  bull,       \* the run's BullMQ job
  requeues,   \* times BullMQ took the job back
  owed,       \* replicas that have yet to see the job's completed/failed event
  cancel,     \* the cancel request for the run
  ppc,        \* queue processor of a replica (isProcessing when not idle)
  slots,      \* its availableSlots
  batch,      \* its jobIds still to be promoted
  job,        \* the job it is promoting
  rpc,        \* reconcileCapacityCounters of a replica
  actual,     \* its actualRunningByOrg
  faults

redisVars == <<running, queued, queuedAt, data, released>>
bullVars == <<bull, requeues, owed>>
promoterVars == <<ppc, slots, batch, job>>
reconcileVars == <<rpc, actual>>
vars == <<redisVars, pc, bullVars, cancel, promoterVars, reconcileVars, faults>>

PCs == {"reserve", "add", "unwind", "enqueue", "store",
        "running", "queued", "rejected", "failed", "crashed"}
JobStates == {"absent", "waiting", "active", "delayed", "finished", "removed"}

TypeOK ==
  /\ running \in Nat
  /\ queued \subseteq Run
  /\ queuedAt \in [Run -> Nat]
  /\ data \subseteq Run
  /\ released \subseteq Run
  /\ pc \in [Run -> PCs]
  /\ bull \in [Run -> JobStates]
  /\ requeues \in [Run -> Nat]
  /\ owed \in [Run -> Nat]
  /\ cancel \in [Run -> {"none", "remove", "release", "zrem", "done"}]
  /\ ppc \in [Replica -> {"idle", "range", "promote", "fetch", "add", "release", "cleanup"}]
  /\ slots \in [Replica -> Nat]
  /\ batch \in [Replica -> SUBSET Run]
  /\ job \in [Replica -> Run \cup {NoRun}]
  /\ rpc \in [Replica -> {"idle", "compare", "set"}]
  /\ actual \in [Replica -> Nat]
  /\ faults \in 0 .. MaxFaults

Init ==
  /\ running = 0
  /\ queued = {}
  /\ queuedAt = [r \in Run |-> 0]
  /\ data = {}
  /\ released = {}
  /\ pc = [r \in Run |-> "reserve"]
  /\ bull = [r \in Run |-> "absent"]
  /\ requeues = [r \in Run |-> 0]
  /\ owed = [r \in Run |-> 0]
  /\ cancel = [r \in Run |-> "none"]
  /\ ppc = [p \in Replica |-> "idle"]
  /\ slots = [p \in Replica |-> 0]
  /\ batch = [p \in Replica |-> {}]
  /\ job = [p \in Replica |-> NoRun]
  /\ rpc = [p \in Replica |-> "idle"]
  /\ actual = [p \in Replica |-> 0]
  /\ faults = 0

-----------------------------------------------------------------------------
(* Parts of the Redis scripts.  A definition whose name ends in "Mutant"   *)
(* is a faulty variant that no action uses: PROJECT.json names the         *)
(* property that refutes it.                                               *)

SlotFree == running < RunningCapacity
QueueFull == Cardinality(queued) >= QueuedCapacity

\* Date.now() read when the queued job is built: later than every earlier stamp.
Stamp == 1 + Cardinality({q \in Run : queuedAt[q] # 0})

DecrementMutant == running - 1
\* DECR, and DEL when the result is not positive.
Decrement == IF running > 1 THEN running - 1 ELSE 0

ReleaseSlotMutant(r) ==
  /\ released' = released \cup {r}
  /\ running' = Decrement
  /\ data' = data \ {r}
\* releaseRunningSlot: only the call that sets the flag decrements; then cleanupJobData.
ReleaseSlot(r) ==
  /\ released' = released \cup {r}
  /\ running' = IF r \in released THEN running ELSE Decrement
  /\ data' = data \ {r}

-----------------------------------------------------------------------------
(* Submission: addTestToQueue, addJobToQueue, addK6TestToQueue,            *)
(* addK6JobToQueue.                                                        *)

Reserve(r) ==
  /\ pc[r] = "reserve"
  /\ \/ /\ QueueFull
        /\ pc' = [pc EXCEPT ![r] = "rejected"]
        /\ UNCHANGED <<running, queuedAt>>
     \/ /\ ~QueueFull
        /\ SlotFree
        /\ running' = running + 1
        /\ pc' = [pc EXCEPT ![r] = "add"]
        /\ UNCHANGED queuedAt
     \/ /\ ~QueueFull
        /\ ~SlotFree
        /\ queuedAt' = [queuedAt EXCEPT ![r] = Stamp]
        /\ pc' = [pc EXCEPT ![r] = "enqueue"]
        /\ UNCHANGED running
  /\ UNCHANGED <<queued, data, released, bullVars, cancel, promoterVars, reconcileVars, faults>>

Add(r) ==
  /\ pc[r] = "add"
  /\ bull' = [bull EXCEPT ![r] = "waiting"]
  /\ pc' = [pc EXCEPT ![r] = "running"]
  /\ UNCHANGED <<redisVars, requeues, owed, cancel, promoterVars, reconcileVars, faults>>

\* getQueues or getQueue throws (no queue for the location) before queue.add.
AddRefused(r) ==
  /\ pc[r] = "add"
  /\ pc' = [pc EXCEPT ![r] = "unwind"]
  /\ UNCHANGED <<redisVars, bullVars, cancel, promoterVars, reconcileVars, faults>>

Unwind(r) ==
  /\ pc[r] = "unwind"
  /\ ReleaseSlot(r)
  /\ pc' = [pc EXCEPT ![r] = "failed"]
  /\ UNCHANGED <<queued, queuedAt, bullVars, cancel, promoterVars, reconcileVars, faults>>

\* addToQueue: the pipeline is no transaction, so its ZADD can be seen before its SETs.
Enqueue(r) ==
  /\ pc[r] = "enqueue"
  /\ queued' = queued \cup {r}
  /\ pc' = [pc EXCEPT ![r] = "store"]
  /\ UNCHANGED <<running, queuedAt, data, released, bullVars, cancel, promoterVars,
                 reconcileVars, faults>>

StoreData(r) ==
  /\ pc[r] = "store"
  /\ data' = data \cup {r}
  /\ pc' = [pc EXCEPT ![r] = "queued"]
  /\ UNCHANGED <<running, queued, queuedAt, released, bullVars, cancel, promoterVars,
                 reconcileVars, faults>>

Submit(r) ==
  \/ Reserve(r)
  \/ Add(r)
  \/ AddRefused(r)
  \/ Unwind(r)
  \/ Enqueue(r)
  \/ StoreData(r)

-----------------------------------------------------------------------------
(* The queue processor of replica p: processOrganizationQueue, promoteJob  *)
(* and addJobToBullMQ.                                                     *)

Before(q, r) == queuedAt[q] < queuedAt[r]

\* ZRANGE 0 n-1
Oldest(n) == {r \in queued : Cardinality({q \in queued : Before(q, r)}) < n}

AvailableSlotsMutant == RunningCapacity - running - 1
AvailableSlots == RunningCapacity - running

ReadRunning(p) ==
  /\ ppc[p] = "idle"
  /\ queued # {}
  /\ AvailableSlots > 0
  /\ slots' = [slots EXCEPT ![p] = AvailableSlots]
  /\ ppc' = [ppc EXCEPT ![p] = "range"]
  /\ UNCHANGED <<redisVars, pc, bullVars, cancel, batch, job, reconcileVars, faults>>

ReadBatch(p) ==
  /\ ppc[p] = "range"
  /\ batch' = [batch EXCEPT ![p] = Oldest(slots[p])]
  /\ slots' = [slots EXCEPT ![p] = 0]
  /\ ppc' = [ppc EXCEPT ![p] = IF batch'[p] = {} THEN "idle" ELSE "promote"]
  /\ UNCHANGED <<redisVars, pc, bullVars, cancel, job, reconcileVars, faults>>

\* The for loop over jobIds, after one of them is dealt with.
NextInBatch(p) == IF batch[p] = {} THEN "idle" ELSE "promote"

PromotableIgnoresZrem(r) == SlotFree
PromotableIgnoresCapacity(r) == r \in queued
\* The guards of the promotion script: a slot is free and ZREM removes the run.
Promotable(r) == SlotFree /\ r \in queued

Promote(p) ==
  /\ ppc[p] = "promote"
  /\ \E r \in batch[p] :
       /\ \A q \in batch[p] \ {r} : Before(r, q)
       /\ batch' = [batch EXCEPT ![p] = @ \ {r}]
       /\ \/ /\ Promotable(r)
             /\ queued' = queued \ {r}
             /\ running' = running + 1
             /\ job' = [job EXCEPT ![p] = r]
             /\ ppc' = [ppc EXCEPT ![p] = "fetch"]
          \/ /\ ~Promotable(r)
             /\ ppc' = [ppc EXCEPT ![p] = NextInBatch(p)']
             /\ UNCHANGED <<queued, running, job>>
  /\ UNCHANGED <<queuedAt, data, released, pc, bullVars, cancel, slots, reconcileVars, faults>>

Fetch(p) ==
  /\ ppc[p] = "fetch"
  /\ ppc' = [ppc EXCEPT ![p] = IF job[p] \in data THEN "add" ELSE "release"]
  /\ UNCHANGED <<redisVars, pc, bullVars, cancel, slots, batch, job, reconcileVars, faults>>

PromoteAdd(p) ==
  /\ ppc[p] = "add"
  /\ bull' = [bull EXCEPT ![job[p]] = "waiting"]
  /\ ppc' = [ppc EXCEPT ![p] = "cleanup"]
  /\ UNCHANGED <<redisVars, pc, requeues, owed, cancel, slots, batch, job, reconcileVars, faults>>

PromoteRefusedMutant(p) ==
  /\ ppc[p] = "add"
  /\ job' = [job EXCEPT ![p] = NoRun]
  /\ ppc' = [ppc EXCEPT ![p] = NextInBatch(p)]
  /\ UNCHANGED <<redisVars, pc, bullVars, cancel, slots, batch, reconcileVars, faults>>
\* The k6 location was removed while the run was queued.
PromoteRefused(p) ==
  /\ ppc[p] = "add"
  /\ ppc' = [ppc EXCEPT ![p] = "release"]
  /\ UNCHANGED <<redisVars, pc, bullVars, cancel, slots, batch, job, reconcileVars, faults>>

PromoteRelease(p) ==
  /\ ppc[p] = "release"
  /\ ReleaseSlot(job[p])
  /\ job' = [job EXCEPT ![p] = NoRun]
  /\ ppc' = [ppc EXCEPT ![p] = NextInBatch(p)]
  /\ UNCHANGED <<queued, queuedAt, pc, bullVars, cancel, slots, batch, reconcileVars, faults>>

PromoteCleanup(p) ==
  /\ ppc[p] = "cleanup"
  /\ data' = data \ {job[p]}
  /\ job' = [job EXCEPT ![p] = NoRun]
  /\ ppc' = [ppc EXCEPT ![p] = NextInBatch(p)]
  /\ UNCHANGED <<running, queued, queuedAt, released, pc, bullVars, cancel, slots, batch,
                 reconcileVars, faults>>

ProcessQueue(p) ==
  \/ ReadRunning(p)
  \/ ReadBatch(p)
  \/ Promote(p)
  \/ Fetch(p)
  \/ PromoteAdd(p)
  \/ PromoteRefused(p)
  \/ PromoteRelease(p)
  \/ PromoteCleanup(p)

-----------------------------------------------------------------------------
(* BullMQ and the workers, as far as a slot depends on them.               *)

Start(r) ==
  /\ bull[r] = "waiting"
  /\ bull' = [bull EXCEPT ![r] = "active"]
  /\ UNCHANGED <<redisVars, pc, requeues, owed, cancel, promoterVars, reconcileVars, faults>>

\* Completed, or failed for good: every replica gets the event.
Finish(r) ==
  /\ bull[r] = "active"
  /\ bull' = [bull EXCEPT ![r] = "finished"]
  /\ owed' = [owed EXCEPT ![r] = Cardinality(Replica)]
  /\ UNCHANGED <<redisVars, pc, requeues, cancel, promoterVars, reconcileVars, faults>>

\* An attempt failed (it waits out its backoff) or the job stalled (it waits again).
TakeBack(r, state) ==
  /\ bull[r] = "active"
  /\ requeues[r] < MaxRequeues[r]
  /\ requeues' = [requeues EXCEPT ![r] = @ + 1]
  /\ bull' = [bull EXCEPT ![r] = state]
  /\ UNCHANGED <<redisVars, pc, owed, cancel, promoterVars, reconcileVars, faults>>

Backoff(r) == TakeBack(r, "delayed")
Stall(r) == TakeBack(r, "waiting")

BackoffOver(r) ==
  /\ bull[r] = "delayed"
  /\ bull' = [bull EXCEPT ![r] = "waiting"]
  /\ UNCHANGED <<redisVars, pc, requeues, owed, cancel, promoterVars, reconcileVars, faults>>

Work(r) == Start(r) \/ Finish(r) \/ Backoff(r) \/ Stall(r) \/ BackoffOver(r)

\* The 'completed' and 'failed' listeners of setupCapacityManagement.
FinishEvent(r) ==
  /\ owed[r] > 0
  /\ owed' = [owed EXCEPT ![r] = @ - 1]
  /\ ReleaseSlot(r)
  /\ UNCHANGED <<queued, queuedAt, pc, bull, requeues, cancel, promoterVars, reconcileVars, faults>>

-----------------------------------------------------------------------------
(* The queue part of POST /api/runs/{runId}/cancel.                        *)

InQueue(r) == bull[r] \in {"waiting", "active", "delayed"}

CancelSearch(r) ==
  /\ r \in Cancellable
  /\ cancel[r] = "none"
  /\ cancel' = [cancel EXCEPT ![r] = IF InQueue(r) THEN "remove" ELSE "zrem"]
  /\ UNCHANGED <<redisVars, pc, bullVars, promoterVars, reconcileVars, faults>>

\* job.remove() fails on a locked (active) job; the route goes on either way.
CancelRemove(r) ==
  /\ cancel[r] = "remove"
  /\ bull' = [bull EXCEPT ![r] = IF @ = "active" THEN @ ELSE "removed"]
  /\ cancel' = [cancel EXCEPT ![r] = "release"]
  /\ UNCHANGED <<redisVars, pc, requeues, owed, promoterVars, reconcileVars, faults>>

CancelRelease(r) ==
  /\ cancel[r] = "release"
  /\ ReleaseSlot(r)
  /\ cancel' = [cancel EXCEPT ![r] = "done"]
  /\ UNCHANGED <<queued, queuedAt, pc, bullVars, promoterVars, reconcileVars, faults>>

CancelZremMutant(r) ==
  /\ cancel[r] = "zrem"
  /\ queued' = queued \ {r}
  /\ ReleaseSlot(r)
  /\ cancel' = [cancel EXCEPT ![r] = "done"]
  /\ UNCHANGED <<queuedAt, pc, bullVars, promoterVars, reconcileVars, faults>>
\* removeFromQueuedSet
CancelZrem(r) ==
  /\ cancel[r] = "zrem"
  /\ queued' = queued \ {r}
  /\ data' = IF r \in queued THEN data \ {r} ELSE data
  /\ cancel' = [cancel EXCEPT ![r] = "done"]
  /\ UNCHANGED <<running, queuedAt, released, pc, bullVars, promoterVars, reconcileVars, faults>>

CancelRun(r) ==
  \/ CancelSearch(r)
  \/ CancelRemove(r)
  \/ CancelRelease(r)
  \/ CancelZrem(r)

-----------------------------------------------------------------------------
(* reconcileCapacityCounters in replica p.                                 *)

\* getJobs(['active', 'waiting']): a job in its retry backoff is 'delayed'.
CountJobs(p) ==
  /\ rpc[p] = "idle"
  /\ actual' = [actual EXCEPT ![p] = Cardinality({r \in Run : bull[r] \in {"active", "waiting"}})]
  /\ rpc' = [rpc EXCEPT ![p] = "compare"]
  /\ UNCHANGED <<redisVars, pc, bullVars, cancel, promoterVars, faults>>

\* A faulty variant that visits only organizations with a job in BullMQ.
DriftedMutant(p) == actual[p] > 0 /\ running # actual[p]
Drifted(p) == running # actual[p]

CompareCounter(p) ==
  /\ rpc[p] = "compare"
  /\ rpc' = [rpc EXCEPT ![p] = IF Drifted(p) THEN "set" ELSE "idle"]
  /\ actual' = IF Drifted(p) THEN actual ELSE [actual EXCEPT ![p] = 0]
  /\ UNCHANGED <<redisVars, pc, bullVars, cancel, promoterVars, faults>>

SetCounter(p) ==
  /\ rpc[p] = "set"
  /\ running' = actual[p]
  /\ actual' = [actual EXCEPT ![p] = 0]
  /\ rpc' = [rpc EXCEPT ![p] = "idle"]
  /\ UNCHANGED <<queued, queuedAt, data, released, pc, bullVars, cancel, promoterVars, faults>>

Reconcile(p) == CountJobs(p) \/ CompareCounter(p) \/ SetCounter(p)

-----------------------------------------------------------------------------
(* Faults, MaxFaults of them: Redis connection errors, lost replies, lost  *)
(* events and process crashes.                                             *)

Fault ==
  /\ faults < MaxFaults
  /\ faults' = faults + 1

\* Retries exhausted on a transient error: reserveSlot answers 1 and counts nothing.
ReserveFailsOpen(r) ==
  /\ Fault
  /\ pc[r] = "reserve"
  /\ pc' = [pc EXCEPT ![r] = "add"]
  /\ UNCHANGED <<redisVars, bullVars, cancel, promoterVars, reconcileVars>>

\* Any other error: reserveSlot answers 0.
ReserveFailsClosed(r) ==
  /\ Fault
  /\ pc[r] = "reserve"
  /\ pc' = [pc EXCEPT ![r] = "rejected"]
  /\ UNCHANGED <<redisVars, bullVars, cancel, promoterVars, reconcileVars>>

\* The script took a slot, its reply was lost, and the next attempt runs it again.
ReserveReplyLost(r) ==
  /\ Fault
  /\ pc[r] = "reserve"
  /\ ~QueueFull
  /\ SlotFree
  /\ running' = running + 1
  /\ UNCHANGED <<queued, queuedAt, data, released, pc, bullVars, cancel, promoterVars,
                 reconcileVars>>

\* queue.add took effect and threw.
AddReplyLost(r) ==
  /\ Fault
  /\ pc[r] = "add"
  /\ bull' = [bull EXCEPT ![r] = "waiting"]
  /\ pc' = [pc EXCEPT ![r] = "unwind"]
  /\ UNCHANGED <<redisVars, requeues, owed, cancel, promoterVars, reconcileVars>>

EnqueueFailsMutant(r) ==
  /\ Fault
  /\ pc[r] \in {"enqueue", "store"}
  /\ pc' = [pc EXCEPT ![r] = "add"]
  /\ UNCHANGED <<redisVars, bullVars, cancel, promoterVars, reconcileVars>>
\* The pipeline throws before its ZADD or between its commands: the caller sees an error.
EnqueueFails(r) ==
  /\ Fault
  /\ pc[r] \in {"enqueue", "store"}
  /\ pc' = [pc EXCEPT ![r] = "failed"]
  /\ UNCHANGED <<redisVars, bullVars, cancel, promoterVars, reconcileVars>>

\* The whole pipeline took effect and its reply was lost.
StoreReplyLost(r) ==
  /\ Fault
  /\ pc[r] = "store"
  /\ data' = data \cup {r}
  /\ pc' = [pc EXCEPT ![r] = "failed"]
  /\ UNCHANGED <<running, queued, queuedAt, released, bullVars, cancel, promoterVars,
                 reconcileVars>>

\* exec() does not throw when only the SET of the pipeline failed.
StoreFailsSilently(r) ==
  /\ Fault
  /\ pc[r] = "store"
  /\ pc' = [pc EXCEPT ![r] = "queued"]
  /\ UNCHANGED <<redisVars, bullVars, cancel, promoterVars, reconcileVars>>

SubmitCrash(r) ==
  /\ Fault
  /\ pc[r] \in {"add", "unwind", "enqueue", "store"}
  /\ pc' = [pc EXCEPT ![r] = "crashed"]
  /\ UNCHANGED <<redisVars, bullVars, cancel, promoterVars, reconcileVars>>

PromoteAddReplyLost(p) ==
  /\ Fault
  /\ ppc[p] = "add"
  /\ bull' = [bull EXCEPT ![job[p]] = "waiting"]
  /\ ppc' = [ppc EXCEPT ![p] = "release"]
  /\ UNCHANGED <<redisVars, pc, requeues, owed, cancel, slots, batch, job, reconcileVars>>

\* The replica was down, the stream was trimmed, or the release failed and was logged.
EventLost(r) ==
  /\ Fault
  /\ owed[r] > 0
  /\ owed' = [owed EXCEPT ![r] = @ - 1]
  /\ UNCHANGED <<redisVars, pc, bull, requeues, cancel, promoterVars, reconcileVars>>

\* The cancel request stops between two steps, or a step failed and was logged.
CancelCrash(r) ==
  /\ Fault
  /\ cancel[r] \in {"remove", "release", "zrem"}
  /\ cancel' = [cancel EXCEPT ![r] = "done"]
  /\ UNCHANGED <<redisVars, pc, bullVars, promoterVars, reconcileVars>>

ReplicaRestart(p) ==
  /\ Fault
  /\ ppc[p] # "idle" \/ rpc[p] # "idle"
  /\ ppc' = [ppc EXCEPT ![p] = "idle"]
  /\ slots' = [slots EXCEPT ![p] = 0]
  /\ batch' = [batch EXCEPT ![p] = {}]
  /\ job' = [job EXCEPT ![p] = NoRun]
  /\ rpc' = [rpc EXCEPT ![p] = "idle"]
  /\ actual' = [actual EXCEPT ![p] = 0]
  /\ UNCHANGED <<redisVars, pc, bullVars, cancel>>

RunFault(r) ==
  \/ ReserveFailsOpen(r)
  \/ ReserveFailsClosed(r)
  \/ ReserveReplyLost(r)
  \/ AddReplyLost(r)
  \/ EnqueueFails(r)
  \/ StoreReplyLost(r)
  \/ StoreFailsSilently(r)
  \/ SubmitCrash(r)
  \/ EventLost(r)
  \/ CancelCrash(r)

ReplicaFault(p) ==
  \/ PromoteAddReplyLost(p)
  \/ ReplicaRestart(p)

-----------------------------------------------------------------------------
(* Three systems: without faults and reconciliation, with reconciliation   *)
(* in its most favourable case, and with everything.                       *)

CoreNext ==
  \/ \E r \in Run : Submit(r) \/ Work(r) \/ FinishEvent(r) \/ CancelRun(r)
  \/ \E p \in Replica : ProcessQueue(p)

\* A reconciliation pass that nothing overlaps: no request or processor is between
\* taking a slot and adding the job, and nothing happens until the pass is over.
UndisturbedReconcile(p) ==
  /\ \A r \in Run : pc[r] \notin {"add", "unwind"}
  /\ \A q \in Replica : job[q] = NoRun /\ (q # p => rpc[q] = "idle")
  /\ Reconcile(p)

\* Between the passes anything may fail.
UndisturbedNext ==
  \/ /\ \A p \in Replica : rpc[p] = "idle"
     /\ \/ CoreNext
        \/ \E r \in Run : RunFault(r)
        \/ \E p \in Replica : ReplicaFault(p)
  \/ \E p \in Replica : UndisturbedReconcile(p)

Next ==
  \/ CoreNext
  \/ \E p \in Replica : Reconcile(p)
  \/ \E r \in Run : RunFault(r)
  \/ \E p \in Replica : ReplicaFault(p)

CoreSpec == Init /\ [][CoreNext]_vars

UndisturbedSpec == Init /\ [][UndisturbedNext]_vars

\* Requests, workers and listeners go on, and the timers of a replica keep firing.
Fairness ==
  /\ \A r \in Run :
       /\ WF_vars(Submit(r))
       /\ WF_vars(Start(r))
       /\ WF_vars(Finish(r))
       /\ WF_vars(BackoffOver(r))
       /\ WF_vars(FinishEvent(r))
       /\ WF_vars(CancelRemove(r) \/ CancelRelease(r) \/ CancelZrem(r))
  /\ \A p \in Replica : WF_vars(ProcessQueue(p)) /\ WF_vars(Reconcile(p))

Spec == Init /\ [][Next]_vars /\ Fairness
-----------------------------------------------------------------------------
(* Properties of every behaviour, with faults and reconciliation.          *)

\* A run is in one place: a run still in the queued set has no BullMQ job and
\* nobody promotes it, two replicas never promote the same run (promoteJob's ZREM
\* decides), and a processor about to call queue.add finds no job of that run.
OnePlace ==
  /\ \A r \in queued : bull[r] = "absent" /\ \A p \in Replica : job[p] # r
  /\ \A p, q \in Replica : p # q /\ job[p] = job[q] => job[p] = NoRun
  /\ \A p \in Replica : ppc[p] \in {"fetch", "add"} => bull[job[p]] = "absent"

\* A queued run leaves the queued set (promoted or cancelled) in spite of leaked
\* slots, because each processor keeps polling and reconciliation returns the leak.
QueuedRunIsServed == \A r \in Run : r \in queued ~> r \notin queued

\* When all runs are over the counter comes back to 0 and stays there, whatever
\* releases were lost, repeated or undone by a stale reconciliation pass.
CounterDrains == <>[](running = 0)

\* The runs that hold a slot: their request or a processor is between taking the
\* slot and adding the job, or they have a job, and the slot was not given back.
Holders ==
  {r \in Run :
     /\ r \notin released
     /\ \/ pc[r] \in {"add", "unwind"}
        \/ \E p \in Replica : job[p] = r
        \/ bull[r] # "absent"}

\* The jobs the cap is meant for: waiting, active or in backoff, and not cancelled
\* (a cancel request gives the slot back before an active job is over).
CappedJobs == {r \in Run : InQueue(r) /\ cancel[r] # "done"}

\* Capped jobs whose slot was given back, or is about to be, because their queue.add
\* took effect and threw.
Orphans ==
  {r \in CappedJobs :
     r \in released \/ pc[r] = "unwind" \/ \E p \in Replica : ppc[p] = "release" /\ job[p] = r}

Drift == running - Cardinality(Holders)
Misplaced == (IF Drift < 0 THEN -Drift ELSE Drift) + Cardinality(Orphans)

\* One fault misplaces one slot: no step but a reconciliation pass moves the counter
\* of capacity:running away from the runs that hold a slot, or leaves a job without
\* its slot, except a fault, and that by one.  So errors do not multiply (a release
\* after a lost reply, a second event, a restarted processor).
OnlyFaultsDrift ==
  [][(\E p \in Replica : SetCounter(p)) \/ Misplaced' - Misplaced <= faults' - faults]_vars

-----------------------------------------------------------------------------
(* Properties of CoreSpec.                                                 *)

\* The counter of releaseRunningSlot, reserveSlot and promoteJob is exact: it
\* counts the runs that hold a slot, once each, and never passes the capacity.
SlotAccounting ==
  /\ running = Cardinality(Holders)
  /\ running <= RunningCapacity

\* RUNNING_CAPACITY bounds the jobs in BullMQ (waiting, active or in backoff),
\* not counting those whose cancel request gave the slot back early.
JobsWithinCapacity == Cardinality(CappedJobs) <= RunningCapacity

\* A run has its place: in the queued set, with a processor that has not given it up,
\* or in BullMQ.
Kept(r) ==
  \/ r \in queued
  \/ \E p \in Replica : job[p] = r /\ ppc[p] \in {"fetch", "add", "cleanup"}
  \/ bull[r] # "absent"

\* A run that was queued keeps its place: the only steps that take it away are the ZREM of
\* its cancel request, a queue that refuses it (its slot is released, its row fails), and,
\* while its request has yet to answer "queued", a promotion that overtakes the SET of its
\* data (PromotedRunHasData).  Once the request has answered, no replica finds the run
\* without its data, and no cancel request, event or clean-up takes it from the others.
QueuedRunKept ==
  [][\A r \in Run :
       pc[r] \in {"store", "queued"} /\ Kept(r) =>
         \/ Kept(r)'
         \/ cancel[r] = "zrem" /\ cancel'[r] = "done"
         \/ \E p \in Replica :
              /\ job[p] = r
              /\ ppc'[p] = "release"
              /\ ppc[p] = "add" \/ pc[r] = "store"]_vars

\* The manager is a pool of slots (SlotPool): a run holds a slot while Holders says
\* so, and has not entered while its request is before reserveSlot or the ZADD.
Fresh == {r \in Run : pc[r] \in {"reserve", "enqueue"}}
Pool == INSTANCE SlotPool WITH fresh <- Fresh, waiting <- queued, holding <- Holders
PoolSpec == Pool!Spec

-----------------------------------------------------------------------------
(* What comments and docs say and the code does not do.                    *)

\* docs: QUEUED_CAPACITY is the number of runs queued before new ones are rejected.
\* reserveSlot checks it, the ZADD comes one call later.
QueuedWithinCapacity == Cardinality(queued) <= QueuedCapacity

\* addToQueue: "Use pipeline for atomic multi-key operations": a promoted run still
\* has its job data when the processor reads it (no data key expires in this model),
\* so it is not dropped with its slot released.
PromotedRunHasData == \A p \in Replica : ppc[p] = "fetch" => job[p] \in data
=============================================================================
