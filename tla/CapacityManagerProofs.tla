------------------------ MODULE CapacityManagerProofs ------------------------
(***************************************************************************)
(* Theorems about CapacityManager, for every set of runs and replicas and  *)
(* every capacity.                                                         *)
(***************************************************************************)
EXTENDS CapacityManager, FiniteSetTheorems, TLAPS

-----------------------------------------------------------------------------
(* The type invariant.                                                     *)

LEMMA RunSubsetCardinality ==
  ASSUME NEW S \in SUBSET Run
  PROVE  IsFiniteSet(S) /\ Cardinality(S) \in Nat
  BY RunAssumption, FS_Subset, FS_CardinalityType

\* A release leaves the counter a natural number.
LEMMA ReleaseSlotType ==
  ASSUME TypeOK, NEW r \in Run, ReleaseSlot(r)
  PROVE  running' \in Nat /\ released' \subseteq Run /\ data' \subseteq Run
  BY DEF TypeOK, ReleaseSlot, Decrement

\* A processor past the promotion script is promoting a run (else ReleaseSlot would
\* put NoRun in released: TypeOK is not inductive without it).
Promoting == {"fetch", "add", "release", "cleanup"}
ProcessorHasJob == \A p \in Replica : ppc[p] \in Promoting => job[p] \in Run

LEMMA ProcessorHasJobStep ==
  ASSUME TypeOK, ProcessorHasJob, [Next]_vars
  PROVE  ProcessorHasJob'
<1> USE DEF redisVars, bullVars, promoterVars, reconcileVars, ProcessorHasJob, Promoting, TypeOK
<1>1. ASSUME NEW p \in Replica, ProcessQueue(p) PROVE ProcessorHasJob'
  BY <1>1 DEF ProcessQueue, ReadRunning, ReadBatch, Promote, Fetch, PromoteAdd,
     PromoteRefused, PromoteRelease, PromoteCleanup, NextInBatch
<1>2. ASSUME NEW p \in Replica, ReplicaFault(p) PROVE ProcessorHasJob'
  BY <1>2 DEF ReplicaFault, Fault, PromoteAddReplyLost, ReplicaRestart
<1>3. CASE UNCHANGED <<ppc, job>>
  BY <1>3
<1>4. ASSUME NEW r \in Run, Submit(r) PROVE UNCHANGED <<ppc, job>>
  BY <1>4 DEF Submit, Reserve, Add, AddRefused, Unwind, Enqueue, StoreData
<1>5. ASSUME NEW r \in Run, Work(r) \/ FinishEvent(r) PROVE UNCHANGED <<ppc, job>>
  BY <1>5 DEF Work, Start, Finish, Backoff, Stall, TakeBack, BackoffOver, FinishEvent
<1>6. ASSUME NEW r \in Run, CancelRun(r) PROVE UNCHANGED <<ppc, job>>
  BY <1>6 DEF CancelRun, CancelSearch, CancelRemove, CancelRelease, CancelZrem
<1>7. ASSUME NEW p \in Replica, Reconcile(p) PROVE UNCHANGED <<ppc, job>>
  BY <1>7 DEF Reconcile, CountJobs, CompareCounter, SetCounter
<1>8. ASSUME NEW r \in Run, RunFault(r) PROVE UNCHANGED <<ppc, job>>
  BY <1>8 DEF RunFault, ReserveFailsOpen, ReserveFailsClosed, ReserveReplyLost,
     AddReplyLost, EnqueueFails, StoreReplyLost, StoreFailsSilently, SubmitCrash,
     EventLost, CancelCrash
<1>9. UNCHANGED vars => UNCHANGED <<ppc, job>>
  BY DEF vars
<1> QED BY <1>1, <1>2, <1>3, <1>4, <1>5, <1>6, <1>7, <1>8, <1>9 DEF Next, CoreNext

LEMMA TypeStep ==
  ASSUME TypeOK, ProcessorHasJob, [Next]_vars
  PROVE  TypeOK'
<1> USE DEF redisVars, bullVars, promoterVars, reconcileVars
<1>1. ASSUME NEW r \in Run, Submit(r) PROVE TypeOK'
  <2>1. CASE Reserve(r)
    <3>1. Stamp \in Nat
      BY RunSubsetCardinality DEF Stamp
    <3> QED BY <2>1, <3>1 DEF Reserve, TypeOK, PCs
  <2>2. CASE Unwind(r)
    BY <2>2, ReleaseSlotType DEF Unwind, TypeOK, PCs
  <2>3. CASE Add(r) \/ AddRefused(r) \/ Enqueue(r) \/ StoreData(r)
    BY <2>3 DEF Add, AddRefused, Enqueue, StoreData, TypeOK, PCs, JobStates
  <2> QED BY <1>1, <2>1, <2>2, <2>3 DEF Submit
<1>2. ASSUME NEW p \in Replica, ProcessQueue(p) PROVE TypeOK'
  <2>1. CASE ReadRunning(p)
    BY <2>1, CapacityAssumption DEF ReadRunning, AvailableSlots, TypeOK
  <2>2. CASE ReadBatch(p)
    BY <2>2 DEF ReadBatch, Oldest, TypeOK
  <2>3. CASE Promote(p)
    BY <2>3 DEF Promote, NextInBatch, TypeOK
  <2>4. CASE Fetch(p) \/ PromoteAdd(p) \/ PromoteRefused(p)
    BY <2>4 DEF Fetch, PromoteAdd, PromoteRefused, TypeOK, JobStates
  <2>5. CASE PromoteRelease(p) \/ PromoteCleanup(p)
    <3>1. job[p] \in Run
      BY <2>5 DEF PromoteRelease, PromoteCleanup, ProcessorHasJob, Promoting
    <3>2. NextInBatch(p) \in {"idle", "promote"}
      BY DEF NextInBatch
    <3>3. CASE PromoteRelease(p)
      BY <3>1, <3>2, <3>3, ReleaseSlotType DEF PromoteRelease, TypeOK
    <3>4. CASE PromoteCleanup(p)
      BY <3>1, <3>2, <3>4 DEF PromoteCleanup, TypeOK
    <3> QED BY <2>5, <3>3, <3>4
  <2> QED BY <1>2, <2>1, <2>2, <2>3, <2>4, <2>5 DEF ProcessQueue
<1>3. ASSUME NEW r \in Run, Work(r) PROVE TypeOK'
  <2>1. Cardinality(Replica) \in Nat
    BY ReplicaAssumption, FS_CardinalityType
  <2> QED
    BY <1>3, <2>1
       DEF Work, Start, Finish, Backoff, Stall, TakeBack, BackoffOver, TypeOK, JobStates
<1>4. ASSUME NEW r \in Run, FinishEvent(r) PROVE TypeOK'
  BY <1>4, ReleaseSlotType DEF FinishEvent, TypeOK
<1>5. ASSUME NEW r \in Run, CancelRun(r) PROVE TypeOK'
  BY <1>5, ReleaseSlotType
     DEF CancelRun, CancelSearch, CancelRemove, CancelRelease, CancelZrem, TypeOK, JobStates
<1>6. ASSUME NEW p \in Replica, Reconcile(p) PROVE TypeOK'
  BY <1>6, RunSubsetCardinality
     DEF Reconcile, CountJobs, CompareCounter, SetCounter, TypeOK
<1>7. ASSUME NEW r \in Run, RunFault(r) PROVE TypeOK'
  BY <1>7, BoundAssumption DEF RunFault, Fault, ReserveFailsOpen, ReserveFailsClosed, ReserveReplyLost,
       AddReplyLost, EnqueueFails, StoreReplyLost, StoreFailsSilently, SubmitCrash,
       EventLost, CancelCrash, TypeOK, PCs, JobStates
<1>8. ASSUME NEW p \in Replica, ReplicaFault(p) PROVE TypeOK'
  BY <1>8, BoundAssumption DEF ReplicaFault, Fault, PromoteAddReplyLost, ReplicaRestart, TypeOK, JobStates
<1>9. CASE UNCHANGED vars
  BY <1>9 DEF vars, TypeOK
<1> QED BY <1>1, <1>2, <1>3, <1>4, <1>5, <1>6, <1>7, <1>8, <1>9 DEF Next, CoreNext

\* The variables keep their types; above all the counter of capacity:running never
\* goes below zero, whatever releases are lost, repeated or cut short.
THEOREM TypeCorrect == Spec => []TypeOK
<1>1. Init => TypeOK /\ ProcessorHasJob
  BY BoundAssumption DEF Init, TypeOK, ProcessorHasJob, Promoting, PCs, JobStates
<1> QED BY <1>1, TypeStep, ProcessorHasJobStep, PTL DEF Spec

-----------------------------------------------------------------------------
(* A run is in one place.                                                  *)

\* The requests that may have put their run into the queued set.
PastEnqueue == {"store", "queued", "failed", "crashed"}

\* OnePlace is not inductive: nothing in it keeps a request from adding a run that
\* waits, nor a processor from promoting one that was added.  What does: a run is in
\* the set or promoted only after its request chose the queue, a request that has
\* yet to add or enqueue its run has no job, and a cancel request removes only a
\* job it found.
OneInv ==
  /\ OnePlace
  /\ \A r \in queued : pc[r] \in PastEnqueue
  /\ \A p \in Replica : job[p] \in Run => pc[job[p]] \in PastEnqueue
  /\ \A r \in Run : pc[r] \in {"reserve", "add", "enqueue"} => bull[r] = "absent"
  /\ \A r \in Run : cancel[r] = "remove" => bull[r] # "absent"

LEMMA OneStep ==
  ASSUME TypeOK, ProcessorHasJob, OneInv, [Next]_vars
  PROVE  OneInv'
<1> USE DEF TypeOK, OneInv, OnePlace, PastEnqueue, ProcessorHasJob, Promoting,
            redisVars, bullVars, promoterVars, reconcileVars
<1> DEFINE Same == UNCHANGED <<queued, pc, bull, cancel, ppc, job>>
<1>1. CASE Same
  BY <1>1
<1>2. ASSUME NEW r \in Run, Submit(r) PROVE OneInv'
  <2>1. CASE Reserve(r)
    BY <2>1 DEF Reserve
  <2>2. CASE Add(r) \/ AddRefused(r) \/ Unwind(r)
    BY <2>2 DEF Add, AddRefused, Unwind
  <2>3. CASE Enqueue(r)
    BY <2>3, RunAssumption DEF Enqueue
  <2>4. CASE StoreData(r)
    BY <2>4 DEF StoreData
  <2> QED BY <1>2, <2>1, <2>2, <2>3, <2>4 DEF Submit
<1>3. ASSUME NEW p \in Replica, ProcessQueue(p) PROVE OneInv'
  <2>1. CASE ReadRunning(p) \/ ReadBatch(p)
    BY <2>1 DEF ReadRunning, ReadBatch
  <2>2. CASE Promote(p)
    BY <2>2, RunAssumption DEF Promote, Promotable, NextInBatch
  <2>3. CASE Fetch(p) \/ PromoteRefused(p)
    BY <2>3 DEF Fetch, PromoteRefused
  <2>4. CASE PromoteAdd(p)
    BY <2>4, RunAssumption DEF PromoteAdd
  <2>5. CASE PromoteRelease(p) \/ PromoteCleanup(p)
    BY <2>5, RunAssumption DEF PromoteRelease, PromoteCleanup, NextInBatch
  <2> QED BY <1>3, <2>1, <2>2, <2>3, <2>4, <2>5 DEF ProcessQueue
<1>4. ASSUME NEW r \in Run, Work(r) PROVE OneInv'
  BY <1>4, RunAssumption DEF Work, Start, Finish, Backoff, Stall, TakeBack, BackoffOver
<1>5. ASSUME NEW r \in Run, FinishEvent(r) PROVE Same
  BY <1>5 DEF FinishEvent
<1>6. ASSUME NEW r \in Run, CancelRun(r) PROVE OneInv'
  <2>1. CASE CancelSearch(r) \/ CancelRelease(r) \/ CancelZrem(r)
    BY <2>1 DEF CancelSearch, CancelRelease, CancelZrem, InQueue
  <2>2. CASE CancelRemove(r)
    BY <2>2, RunAssumption DEF CancelRemove
  <2> QED BY <1>6, <2>1, <2>2 DEF CancelRun
<1>7. ASSUME NEW p \in Replica, Reconcile(p) PROVE Same
  BY <1>7 DEF Reconcile, CountJobs, CompareCounter, SetCounter
<1>8. ASSUME NEW r \in Run, RunFault(r) PROVE OneInv'
  <2>1. CASE ReserveFailsOpen(r) \/ ReserveFailsClosed(r) \/ ReserveReplyLost(r)
    BY <2>1 DEF ReserveFailsOpen, ReserveFailsClosed, ReserveReplyLost
  <2>2. CASE AddReplyLost(r)
    BY <2>2 DEF AddReplyLost
  <2>3. CASE EnqueueFails(r) \/ StoreReplyLost(r) \/ StoreFailsSilently(r) \/ SubmitCrash(r)
    BY <2>3 DEF EnqueueFails, StoreReplyLost, StoreFailsSilently, SubmitCrash
  <2>4. CASE EventLost(r) \/ CancelCrash(r)
    BY <2>4 DEF EventLost, CancelCrash
  <2> QED BY <1>8, <2>1, <2>2, <2>3, <2>4 DEF RunFault
<1>9. ASSUME NEW p \in Replica, ReplicaFault(p) PROVE OneInv'
  BY <1>9, RunAssumption DEF ReplicaFault, PromoteAddReplyLost, ReplicaRestart
<1>10. UNCHANGED vars => Same
  BY DEF vars
<1> QED BY <1>1, <1>2, <1>3, <1>4, <1>5, <1>6, <1>7, <1>8, <1>9, <1>10 DEF Next, CoreNext

\* promoteJob's ZREM decides between replicas, and whatever fails, crashes or is
\* reconciled, no run is both queued and in BullMQ or promoted twice.
THEOREM RunInOnePlace == Spec => []OnePlace
<1>1. Init => TypeOK /\ ProcessorHasJob /\ OneInv
  BY RunAssumption, BoundAssumption
     DEF Init, TypeOK, ProcessorHasJob, OneInv, OnePlace, Promoting, PCs, JobStates
<1>2. OneInv => OnePlace
  BY DEF OneInv
<1> QED BY <1>1, <1>2, TypeStep, ProcessorHasJobStep, OneStep, PTL DEF Spec

-----------------------------------------------------------------------------
(* The counter is exact, without faults and reconciliation (CoreSpec).     *)

LEMMA CoreNextIsNext == CoreNext => Next
  BY DEF Next

\* What SlotAccounting and QueuedRunKept need of the other variables.  A slot is
\* given back only by someone entitled to it: a request or processor that took it and
\* added no job, an event of a finished job, or a cancel request that found a job.
Entitled ==
  /\ \A r \in Run : pc[r] = "unwind" => bull[r] = "absent"
  /\ \A r \in Run : pc[r] = "running" => bull[r] # "absent"
  /\ \A p \in Replica : ppc[p] = "release" => bull[job[p]] = "absent"
  /\ \A p \in Replica : ppc[p] = "cleanup" => bull[job[p]] # "absent"
  /\ \A p \in Replica : job[p] \in Run => ppc[p] \in Promoting
  /\ \A r \in Run : owed[r] > 0 => bull[r] \in {"finished", "removed"}
  /\ \A r \in Run : cancel[r] = "release" => bull[r] # "absent"

\* A released run never asks for a slot again: its request is over, it does not wait,
\* and a processor that still has it has added its job.
ReleasedIsOver ==
  \A r \in released :
    /\ pc[r] \notin {"reserve", "add", "unwind", "enqueue"}
    /\ r \notin queued
    /\ \A p \in Replica : job[p] = r => ppc[p] = "cleanup"
    /\ cancel[r] # "done" => ~InQueue(r)

CoreInv == Entitled /\ ReleasedIsOver

LEMMA EntitledStep ==
  ASSUME TypeOK, ProcessorHasJob, OneInv, Entitled, [CoreNext]_vars
  PROVE  Entitled'
<1> USE DEF TypeOK, OneInv, OnePlace, PastEnqueue, ProcessorHasJob, Promoting, Entitled,
            redisVars, bullVars, promoterVars, reconcileVars
<1>1. ASSUME NEW r \in Run, Submit(r) PROVE Entitled'
  BY <1>1, RunAssumption
     DEF Submit, Reserve, Add, AddRefused, Unwind, Enqueue, StoreData
<1>2. ASSUME NEW p \in Replica, ProcessQueue(p) PROVE Entitled'
  <2>1. CASE ReadRunning(p) \/ ReadBatch(p)
    BY <2>1, RunAssumption DEF ReadRunning, ReadBatch
  <2>2. CASE Promote(p)
    BY <2>2, RunAssumption DEF Promote, NextInBatch
  <2>3. CASE Fetch(p) \/ PromoteRefused(p)
    BY <2>3, RunAssumption DEF Fetch, PromoteRefused
  <2>4. CASE PromoteAdd(p)
    BY <2>4, RunAssumption DEF PromoteAdd
  <2>5. CASE PromoteRelease(p) \/ PromoteCleanup(p)
    BY <2>5, RunAssumption DEF PromoteRelease, PromoteCleanup, NextInBatch
  <2> QED BY <1>2, <2>1, <2>2, <2>3, <2>4, <2>5 DEF ProcessQueue
<1>3. ASSUME NEW r \in Run, Work(r) PROVE Entitled'
  BY <1>3, RunAssumption DEF Work, Start, Finish, Backoff, Stall, TakeBack, BackoffOver
<1>4. ASSUME NEW r \in Run, FinishEvent(r) PROVE Entitled'
  BY <1>4 DEF FinishEvent
<1>5. ASSUME NEW r \in Run, CancelRun(r) PROVE Entitled'
  BY <1>5, RunAssumption
     DEF CancelRun, CancelSearch, CancelRemove, CancelRelease, CancelZrem
<1>6. CASE UNCHANGED vars
  BY <1>6 DEF vars
<1> QED BY <1>1, <1>2, <1>3, <1>4, <1>5, <1>6 DEF CoreNext

LEMMA ReleasedIsOverStep ==
  ASSUME TypeOK, ProcessorHasJob, OneInv, CoreInv, [CoreNext]_vars
  PROVE  ReleasedIsOver'
<1> USE DEF TypeOK, OneInv, OnePlace, PastEnqueue, ProcessorHasJob, Promoting, CoreInv,
            Entitled, ReleasedIsOver, InQueue,
            redisVars, bullVars, promoterVars, reconcileVars
<1>1. ASSUME NEW r \in Run, Submit(r) PROVE ReleasedIsOver'
  BY <1>1, RunAssumption
     DEF Submit, Reserve, Add, AddRefused, Unwind, ReleaseSlot, Enqueue, StoreData
<1>2. ASSUME NEW p \in Replica, ProcessQueue(p) PROVE ReleasedIsOver'
  <2>1. CASE ReadRunning(p) \/ ReadBatch(p)
    BY <2>1, RunAssumption DEF ReadRunning, ReadBatch
  <2>2. CASE Promote(p)
    BY <2>2, RunAssumption DEF Promote, Promotable, NextInBatch
  <2>3. CASE Fetch(p) \/ PromoteRefused(p)
    BY <2>3, RunAssumption DEF Fetch, PromoteRefused
  <2>4. CASE PromoteAdd(p)
    BY <2>4, RunAssumption DEF PromoteAdd
  <2>5. CASE PromoteRelease(p)
    BY <2>5, RunAssumption DEF PromoteRelease, ReleaseSlot, NextInBatch
  <2>6. CASE PromoteCleanup(p)
    BY <2>6, RunAssumption DEF PromoteCleanup, NextInBatch
  <2> QED BY <1>2, <2>1, <2>2, <2>3, <2>4, <2>5, <2>6 DEF ProcessQueue
<1>3. ASSUME NEW r \in Run, Work(r) PROVE ReleasedIsOver'
  BY <1>3, RunAssumption DEF Work, Start, Finish, Backoff, Stall, TakeBack, BackoffOver
<1>4. ASSUME NEW r \in Run, FinishEvent(r) PROVE ReleasedIsOver'
  BY <1>4 DEF FinishEvent, ReleaseSlot
<1>5. ASSUME NEW r \in Run, CancelRun(r) PROVE ReleasedIsOver'
  BY <1>5, RunAssumption
     DEF CancelRun, CancelSearch, CancelRemove, CancelRelease, CancelZrem, ReleaseSlot
<1>6. CASE UNCHANGED vars
  BY <1>6 DEF vars
<1> QED BY <1>1, <1>2, <1>3, <1>4, <1>5, <1>6 DEF CoreNext

-----------------------------------------------------------------------------
(* Every step takes one slot, gives one back, or leaves all as they are.   *)

Takes(r) ==
  /\ SlotFree
  /\ r \notin Holders
  /\ running' = running + 1
  /\ Holders' = Holders \cup {r}

GivesBack(r) ==
  /\ r \in Holders
  /\ running' = Decrement
  /\ Holders' = Holders \ {r}

Keeps == UNCHANGED <<running, Holders>>

LEMMA AccountingStep ==
  ASSUME TypeOK, SlotAccounting, NEW r \in Run, Takes(r) \/ GivesBack(r) \/ Keeps
  PROVE  SlotAccounting'
<1>1. IsFiniteSet(Holders) /\ Cardinality(Holders) \in Nat
  BY RunSubsetCardinality DEF Holders
<1>2. CASE Takes(r)
  <2>1. Cardinality(Holders') = Cardinality(Holders) + 1
    BY <1>1, <1>2, FS_AddElement DEF Takes
  <2> QED BY <1>1, <1>2, <2>1, CapacityAssumption DEF Takes, SlotFree, SlotAccounting, TypeOK
<1>3. CASE GivesBack(r)
  <2>1. Cardinality(Holders') = Cardinality(Holders) - 1
    BY <1>1, <1>3, FS_RemoveElement DEF GivesBack
  <2>2. IsFiniteSet(Holders') /\ Cardinality(Holders') \in Nat
    BY <1>1, <1>3, FS_RemoveElement, FS_CardinalityType DEF GivesBack
  <2> QED
    BY <1>1, <1>3, <2>1, <2>2, CapacityAssumption
       DEF GivesBack, Decrement, SlotAccounting, TypeOK
<1>4. CASE Keeps
  BY <1>4 DEF Keeps, SlotAccounting
<1> QED BY <1>2, <1>3, <1>4

\* A release by someone entitled to it, of a run that is or is not released yet.
LEMMA ReleaseGivesBack ==
  ASSUME TypeOK, NEW r \in Run, ReleaseSlot(r), bull[r] # "absent",
         UNCHANGED <<pc, job, bull>>
  PROVE  GivesBack(r) \/ Keeps
<1>1. CASE r \in released
  BY <1>1 DEF ReleaseSlot, Keeps, Holders
<1>2. CASE r \notin released
  BY <1>2 DEF ReleaseSlot, GivesBack, Holders
<1> QED BY <1>1, <1>2

\* The effect of a step on the counter, the holders, the set and the fresh runs.
PoolStep(r) ==
  \/ Takes(r) /\ r \in Fresh /\ Fresh' = Fresh \ {r} /\ UNCHANGED queued
  \/ Takes(r) /\ r \in queued /\ queued' = queued \ {r} /\ UNCHANGED Fresh
  \/ GivesBack(r) /\ UNCHANGED <<queued, Fresh>>
  \/ Keeps /\ r \in Fresh /\ Fresh' = Fresh \ {r} /\ queued' \in {queued, queued \cup {r}}
  \/ Keeps /\ r \in queued /\ queued' = queued \ {r} /\ UNCHANGED Fresh

PoolStill == Keeps /\ UNCHANGED <<queued, Fresh>>

LEMMA PoolStepOfAction ==
  ASSUME TypeOK, ProcessorHasJob, OneInv, CoreInv, CoreNext
  PROVE  PoolStill \/ \E r \in Run : PoolStep(r)
<1> USE DEF PoolStill, TypeOK, OneInv, OnePlace, PastEnqueue, ProcessorHasJob, Promoting, CoreInv,
            Entitled, ReleasedIsOver, redisVars, bullVars, promoterVars, reconcileVars
<1>1. ASSUME NEW r \in Run, Submit(r) PROVE PoolStill \/ PoolStep(r)
  <2>1. CASE Reserve(r)
    <3>1. CASE pc'[r] = "add"
      BY <2>1, <3>1, RunAssumption DEF Reserve, PoolStep, Takes, Holders, Fresh
    <3>2. CASE pc'[r] # "add"
      BY <2>1, <3>2, RunAssumption DEF Reserve, PoolStep, Keeps, Holders, Fresh
    <3> QED BY <3>1, <3>2
  <2>2. CASE Add(r) \/ AddRefused(r)
    BY <2>2, RunAssumption DEF Add, AddRefused, PoolStep, Keeps, Holders, Fresh
  <2>3. CASE Unwind(r)
    BY <2>3, RunAssumption
       DEF Unwind, ReleaseSlot, PoolStep, GivesBack, Holders, Fresh
  <2>4. CASE Enqueue(r) \/ StoreData(r)
    BY <2>4, RunAssumption DEF Enqueue, StoreData, PoolStep, Keeps, Holders, Fresh
  <2> QED BY <1>1, <2>1, <2>2, <2>3, <2>4 DEF Submit
<1>2. ASSUME NEW p \in Replica, ProcessQueue(p) PROVE PoolStill \/ \E r \in Run : PoolStep(r)
  <2>1. CASE Promote(p)
    <3>1. PICK r \in batch[p] : \/ /\ Promotable(r)
                                  /\ queued' = queued \ {r}
                                  /\ running' = running + 1
                                  /\ job' = [job EXCEPT ![p] = r]
                               \/ UNCHANGED <<queued, running, job>>
      BY <2>1 DEF Promote
    <3>2. UNCHANGED <<pc, bull, released>> /\ job[p] \notin Run /\ r \in Run
      BY <2>1, <3>1 DEF Promote
    <3>3. PoolStill \/ PoolStep(r)
      BY <3>1, <3>2, RunAssumption DEF Promotable, PoolStep, Takes, Keeps, Holders, Fresh
    <3> QED BY <3>2, <3>3
  <2>2. CASE PromoteRelease(p)
    <3>1. job[p] \in Run /\ job[p] \notin released
      BY <2>2 DEF PromoteRelease
    <3>2. PoolStep(job[p])
      BY <2>2, <3>1, RunAssumption
         DEF PromoteRelease, ReleaseSlot, PoolStep, GivesBack, Holders, Fresh
    <3> QED BY <3>1, <3>2
  <2>3. CASE PromoteAdd(p) \/ PromoteCleanup(p)
    <3>1. job[p] \in Run
      BY <2>3 DEF PromoteAdd, PromoteCleanup
    <3> QED BY <2>3, <3>1, RunAssumption DEF PromoteAdd, PromoteCleanup, Keeps, Holders, Fresh
  <2>4. CASE ReadRunning(p) \/ ReadBatch(p) \/ Fetch(p) \/ PromoteRefused(p)
    BY <2>4 DEF ReadRunning, ReadBatch, Fetch, PromoteRefused, Keeps, Holders, Fresh
  <2> QED BY <1>2, <2>1, <2>2, <2>3, <2>4 DEF ProcessQueue
<1>3. ASSUME NEW r \in Run, Work(r) PROVE PoolStill
  BY <1>3, RunAssumption
     DEF Work, Start, Finish, Backoff, Stall, TakeBack, BackoffOver, Keeps, Holders, Fresh
<1>4. ASSUME NEW r \in Run, FinishEvent(r) PROVE PoolStill \/ PoolStep(r)
  BY <1>4, ReleaseGivesBack DEF FinishEvent, PoolStep, Keeps, GivesBack, Fresh
<1>5. ASSUME NEW r \in Run, CancelRun(r) PROVE PoolStill \/ PoolStep(r)
  <2>1. CASE CancelSearch(r) \/ CancelRemove(r)
    BY <2>1 DEF CancelSearch, CancelRemove, Keeps, Holders, Fresh
  <2>2. CASE CancelRelease(r)
    BY <2>2, ReleaseGivesBack DEF CancelRelease, PoolStep, Keeps, GivesBack, Fresh
  <2>3. CASE CancelZrem(r)
    <3>1. Keeps /\ UNCHANGED Fresh
      BY <2>3 DEF CancelZrem, Keeps, Holders, Fresh
    <3>2. CASE r \in queued
      BY <2>3, <3>1, <3>2 DEF CancelZrem, PoolStep
    <3>3. CASE r \notin queued
      BY <2>3, <3>1, <3>3 DEF CancelZrem
    <3> QED BY <3>2, <3>3
  <2> QED BY <1>5, <2>1, <2>2, <2>3 DEF CancelRun
<1> QED BY <1>1, <1>2, <1>3, <1>4, <1>5 DEF CoreNext

-----------------------------------------------------------------------------
(* The theorems about CoreSpec.                                            *)

CoreSafe == TypeOK /\ ProcessorHasJob /\ OneInv /\ CoreInv /\ SlotAccounting

LEMMA CoreInit == Init => CoreSafe
<1> SUFFICES ASSUME Init PROVE CoreSafe
  OBVIOUS
<1> USE RunAssumption DEF Init
<1>1. TypeOK /\ ProcessorHasJob /\ OneInv
  BY BoundAssumption DEF TypeOK, ProcessorHasJob, OneInv, OnePlace, Promoting, PCs, JobStates
<1>2. CoreInv
  BY DEF CoreInv, Entitled, ReleasedIsOver, InQueue
<1>3. SlotAccounting
  <2>1. Holders = {}
    BY DEF Holders
  <2> QED BY <2>1, FS_EmptySet, CapacityAssumption DEF SlotAccounting
<1> QED BY <1>1, <1>2, <1>3 DEF CoreSafe

LEMMA CoreStep ==
  ASSUME CoreSafe, [CoreNext]_vars
  PROVE  CoreSafe'
<1>1. [Next]_vars
  BY CoreNextIsNext
<1>2. TypeOK' /\ ProcessorHasJob' /\ OneInv'
  BY <1>1, TypeStep, ProcessorHasJobStep, OneStep DEF CoreSafe
<1>3. CoreInv'
  BY EntitledStep, ReleasedIsOverStep DEF CoreSafe, CoreInv
<1>4. SlotAccounting'
  <2>1. CASE CoreNext
    BY <2>1, PoolStepOfAction, AccountingStep DEF CoreSafe, PoolStep, PoolStill, Keeps, SlotAccounting
  <2>2. CASE UNCHANGED vars
    BY <2>2 DEF CoreSafe, SlotAccounting, Holders, vars, redisVars, bullVars, promoterVars
  <2> QED BY <2>1, <2>2
<1> QED BY <1>2, <1>3, <1>4 DEF CoreSafe

LEMMA CoreSafety == CoreSpec => []CoreSafe
  BY CoreInit, CoreStep, PTL DEF CoreSpec

\* capacity:running counts exactly the runs that hold a slot and never passes the
\* capacity, for any number of requests, replicas, retries and cancel requests.
THEOREM SlotsAreCounted == CoreSpec => []SlotAccounting
<1>1. CoreSafe => SlotAccounting
  BY DEF CoreSafe
<1> QED BY <1>1, CoreSafety, PTL

\* RUNNING_CAPACITY bounds the jobs in BullMQ, apart from cancelled ones.
THEOREM JobsAreBounded == CoreSpec => []JobsWithinCapacity
<1>1. CoreSafe => JobsWithinCapacity
  <2> SUFFICES ASSUME CoreSafe PROVE JobsWithinCapacity
    OBVIOUS
  <2>1. CappedJobs \subseteq Holders
    BY DEF CappedJobs, CoreSafe, CoreInv, ReleasedIsOver, Holders, InQueue
  <2>2. IsFiniteSet(Holders) /\ Cardinality(Holders) \in Nat
    BY RunSubsetCardinality DEF Holders
  <2>3. Cardinality(CappedJobs) <= Cardinality(Holders) /\ Cardinality(CappedJobs) \in Nat
    BY <2>1, <2>2, FS_Subset, FS_CardinalityType
  <2> QED
    BY <2>2, <2>3, CapacityAssumption DEF JobsWithinCapacity, CoreSafe, SlotAccounting
<1> QED BY <1>1, CoreSafety, PTL

\* The scripts, the processors, the events and the cancel route together implement a
\* pool of slots: each step is one operation of SlotPool or invisible to it.
THEOREM ManagerIsPool == CoreSpec => PoolSpec
<1>1. Init => Pool!Init
  BY RunAssumption DEF Init, Pool!Init, Fresh, Holders
<1>2. CoreSafe /\ [CoreNext]_vars => [Pool!Next]_(Pool!vars)
  <2> SUFFICES ASSUME CoreSafe, [CoreNext]_vars PROVE [Pool!Next]_(Pool!vars)
    OBVIOUS
  <2>1. CASE UNCHANGED vars
    BY <2>1 DEF Pool!vars, Fresh, Holders, vars, redisVars, bullVars, promoterVars
  <2>2. CASE PoolStill
    BY <2>2 DEF PoolStill, Keeps, Pool!vars
  <2>3. ASSUME NEW r \in Run, PoolStep(r) PROVE [Pool!Next]_(Pool!vars)
    <3>1. SlotFree => Pool!SlotFree
      BY DEF CoreSafe, SlotAccounting, SlotFree, Pool!SlotFree, Cardinality, Pool!Cardinality
    <3>2. CASE Takes(r) /\ r \in Fresh /\ Fresh' = Fresh \ {r} /\ UNCHANGED queued
      BY <3>1, <3>2 DEF Takes, Pool!Next, Pool!Admit
    <3>3. CASE Takes(r) /\ r \in queued /\ queued' = queued \ {r} /\ UNCHANGED Fresh
      BY <3>1, <3>3 DEF Takes, Pool!Next, Pool!Promote
    <3>4. CASE GivesBack(r) /\ UNCHANGED <<queued, Fresh>>
      BY <3>4 DEF GivesBack, Pool!Next, Pool!GiveBack
    <3>5. CASE /\ Keeps /\ r \in Fresh /\ Fresh' = Fresh \ {r}
               /\ queued' \in {queued, queued \cup {r}}
      BY <3>5 DEF Keeps, Pool!Next, Pool!TurnAway, Pool!Wait
    <3>6. CASE Keeps /\ r \in queued /\ queued' = queued \ {r} /\ UNCHANGED Fresh
      BY <3>6 DEF Keeps, Pool!Next, Pool!Withdraw
    <3> QED BY <2>3, <3>2, <3>3, <3>4, <3>5, <3>6 DEF PoolStep
  <2> QED BY <2>1, <2>2, <2>3, PoolStepOfAction DEF CoreSafe
<1> QED BY <1>1, <1>2, CoreSafety, PTL DEF CoreSpec, PoolSpec, Pool!Spec

-----------------------------------------------------------------------------
(* A queued run keeps its place.                                           *)

\* From the answer "queued" on, the data of a run is there as long as somebody may come to
\* fetch it.  Data is deleted with a slot (a request, processor, event or cancel request
\* that is entitled to release it: the run is in BullMQ then, or refused), after
\* queue.add, and with the run's place in the queued set; never before.
HasData ==
  \A r \in Run :
    /\ pc[r] = "queued"
    /\ r \in queued \/ \E p \in Replica : job[p] = r /\ ppc[p] = "fetch"
    => r \in data

LEMMA HasDataStep ==
  ASSUME CoreSafe, HasData, [CoreNext]_vars
  PROVE  HasData'
<1> USE RunAssumption
    DEF CoreSafe, TypeOK, OneInv, OnePlace, PastEnqueue, ProcessorHasJob, Promoting, CoreInv,
        Entitled, HasData, redisVars, bullVars, promoterVars, reconcileVars
<1>1. ASSUME NEW r \in Run, Submit(r) PROVE HasData'
  BY <1>1 DEF Submit, Reserve, Add, AddRefused, Unwind, ReleaseSlot, Enqueue, StoreData
<1>2. ASSUME NEW p \in Replica, ProcessQueue(p) PROVE HasData'
  <2>1. CASE ReadRunning(p) \/ ReadBatch(p) \/ Fetch(p) \/ PromoteRefused(p)
    BY <2>1 DEF ReadRunning, ReadBatch, Fetch, PromoteRefused
  <2>2. CASE Promote(p)
    BY <2>2 DEF Promote, Promotable, NextInBatch
  <2>3. CASE PromoteAdd(p)
    BY <2>3 DEF PromoteAdd
  <2>4. CASE PromoteRelease(p)
    BY <2>4 DEF PromoteRelease, ReleaseSlot, NextInBatch
  <2>5. CASE PromoteCleanup(p)
    BY <2>5 DEF PromoteCleanup, NextInBatch
  <2> QED BY <1>2, <2>1, <2>2, <2>3, <2>4, <2>5 DEF ProcessQueue
<1>3. ASSUME NEW r \in Run, Work(r) PROVE HasData'
  BY <1>3 DEF Work, Start, Finish, Backoff, Stall, TakeBack, BackoffOver
<1>4. ASSUME NEW r \in Run, FinishEvent(r) PROVE HasData'
  BY <1>4 DEF FinishEvent, ReleaseSlot
<1>5. ASSUME NEW r \in Run, CancelRun(r) PROVE HasData'
  BY <1>5
     DEF CancelRun, CancelSearch, CancelRemove, CancelRelease, CancelZrem, ReleaseSlot
<1>6. CASE UNCHANGED vars
  BY <1>6 DEF vars
<1> QED BY <1>1, <1>2, <1>3, <1>4, <1>5, <1>6 DEF CoreNext

\* What a step may do to the place of a run.
KeptOrGivenUp(r) ==
  pc[r] \in {"store", "queued"} /\ Kept(r) =>
    \/ Kept(r)'
    \/ cancel[r] = "zrem" /\ cancel'[r] = "done"
    \/ \E p \in Replica :
         /\ job[p] = r
         /\ ppc'[p] = "release"
         /\ ppc[p] = "add" \/ pc[r] = "store"

LEMMA KeptStep ==
  ASSUME CoreSafe, HasData, CoreNext, NEW s \in Run
  PROVE  KeptOrGivenUp(s)
<1> USE RunAssumption
    DEF CoreSafe, TypeOK, OneInv, OnePlace, ProcessorHasJob, Promoting, CoreInv, Entitled,
        HasData, KeptOrGivenUp, Kept, redisVars, bullVars, promoterVars, reconcileVars
<1>1. ASSUME NEW r \in Run, Submit(r) PROVE KeptOrGivenUp(s)
  BY <1>1 DEF Submit, Reserve, Add, AddRefused, Unwind, ReleaseSlot, Enqueue, StoreData
<1>2. ASSUME NEW p \in Replica, ProcessQueue(p) PROVE KeptOrGivenUp(s)
  <2>1. CASE ReadRunning(p) \/ ReadBatch(p)
    BY <2>1 DEF ReadRunning, ReadBatch
  <2>2. CASE Promote(p)
    BY <2>2 DEF Promote, NextInBatch
  <2>3. CASE Fetch(p) \/ PromoteRefused(p)
    BY <2>3 DEF Fetch, PromoteRefused
  <2>4. CASE PromoteAdd(p)
    BY <2>4 DEF PromoteAdd
  <2>5. CASE PromoteRelease(p)
    BY <2>5 DEF PromoteRelease, ReleaseSlot, NextInBatch
  <2>6. CASE PromoteCleanup(p)
    BY <2>6 DEF PromoteCleanup, NextInBatch
  <2> QED BY <1>2, <2>1, <2>2, <2>3, <2>4, <2>5, <2>6 DEF ProcessQueue
<1>3. ASSUME NEW r \in Run, Work(r) PROVE KeptOrGivenUp(s)
  BY <1>3 DEF Work, Start, Finish, Backoff, Stall, TakeBack, BackoffOver
<1>4. ASSUME NEW r \in Run, FinishEvent(r) PROVE KeptOrGivenUp(s)
  BY <1>4 DEF FinishEvent, ReleaseSlot
<1>5. ASSUME NEW r \in Run, CancelRun(r) PROVE KeptOrGivenUp(s)
  BY <1>5
     DEF CancelRun, CancelSearch, CancelRemove, CancelRelease, CancelZrem, ReleaseSlot
<1> QED BY <1>1, <1>2, <1>3, <1>4, <1>5 DEF CoreNext

\* No interleaving of requests, replicas, events and cancel requests drops a run after its
\* request answered "queued"; before that, only a promotion that overtakes its SET does.
THEOREM QueuedRunsAreKept == CoreSpec => QueuedRunKept
<1>1. Init => HasData
  BY DEF Init, HasData
<1>2. CoreSafe /\ HasData /\ [CoreNext]_vars => [\A r \in Run : KeptOrGivenUp(r)]_vars
  BY KeptStep
<1> QED
  BY <1>1, <1>2, HasDataStep, CoreSafety, PTL DEF CoreSpec, QueuedRunKept, KeptOrGivenUp

=============================================================================
