------------------------- MODULE CapacityFaultProofs -------------------------
(***************************************************************************)
(* The slots of CapacityManager with faults and reconciliation at any      *)
(* moment: how far errors move the counter from the runs that hold a slot. *)
(***************************************************************************)
EXTENDS CapacityManagerProofs

-----------------------------------------------------------------------------
(* The inductive invariant.                                                *)

\* What is left of Entitled and ReleasedIsOver when faults happen.  A queue.add that
\* took effect and threw lets a request or processor give back the slot of a job in
\* BullMQ, so a released run may be promoting or unwinding, but then it has its job:
\* it never asks for a slot, or adds a job, again.
FaultInv ==
  /\ \A p \in Replica : job[p] \in Run => ppc[p] \in Promoting
  /\ \A p \in Replica : ppc[p] = "cleanup" => bull[job[p]] # "absent"
  /\ \A r \in Run : owed[r] > 0 => bull[r] \in {"finished", "removed"}
  /\ \A r \in Run : cancel[r] = "release" => bull[r] # "absent"
  /\ \A r \in released :
       /\ pc[r] \notin {"reserve", "add", "enqueue"}
       /\ pc[r] = "unwind" => bull[r] # "absent"
       /\ r \notin queued
       /\ \A p \in Replica : job[p] = r => bull[r] # "absent"

LEMMA FaultInvStep ==
  ASSUME TypeOK, ProcessorHasJob, OneInv, FaultInv, [Next]_vars
  PROVE  FaultInv'
<1> USE RunAssumption
    DEF TypeOK, OneInv, OnePlace, PastEnqueue, ProcessorHasJob, Promoting, FaultInv,
        redisVars, bullVars, promoterVars, reconcileVars
<1> DEFINE Same == UNCHANGED <<released, queued, pc, bull, owed, cancel, ppc, job>>
<1>1. CASE Same
  BY <1>1
<1>2. ASSUME NEW r \in Run, Submit(r) PROVE FaultInv'
  <2>1. CASE Reserve(r) \/ AddRefused(r)
    BY <2>1 DEF Reserve, AddRefused
  <2>2. CASE Add(r)
    BY <2>2 DEF Add
  <2>3. CASE Unwind(r)
    BY <2>3 DEF Unwind, ReleaseSlot
  <2>4. CASE Enqueue(r) \/ StoreData(r)
    BY <2>4 DEF Enqueue, StoreData
  <2> QED BY <1>2, <2>1, <2>2, <2>3, <2>4 DEF Submit
<1>3. ASSUME NEW p \in Replica, ProcessQueue(p) PROVE FaultInv'
  <2>1. CASE ReadRunning(p) \/ ReadBatch(p)
    BY <2>1 DEF ReadRunning, ReadBatch
  <2>2. CASE Promote(p)
    BY <2>2 DEF Promote, Promotable, NextInBatch
  <2>3. CASE Fetch(p) \/ PromoteRefused(p)
    BY <2>3 DEF Fetch, PromoteRefused
  <2>4. CASE PromoteAdd(p)
    BY <2>4 DEF PromoteAdd
  <2>5. CASE PromoteRelease(p)
    BY <2>5 DEF PromoteRelease, ReleaseSlot, NextInBatch
  <2>6. CASE PromoteCleanup(p)
    BY <2>6 DEF PromoteCleanup, NextInBatch
  <2> QED BY <1>3, <2>1, <2>2, <2>3, <2>4, <2>5, <2>6 DEF ProcessQueue
<1>4. ASSUME NEW r \in Run, Work(r) PROVE FaultInv'
  BY <1>4 DEF Work, Start, Finish, Backoff, Stall, TakeBack, BackoffOver
<1>5. ASSUME NEW r \in Run, FinishEvent(r) PROVE FaultInv'
  BY <1>5 DEF FinishEvent, ReleaseSlot
<1>6. ASSUME NEW r \in Run, CancelRun(r) PROVE FaultInv'
  <2>1. CASE CancelSearch(r) \/ CancelZrem(r)
    BY <2>1 DEF CancelSearch, CancelZrem, InQueue
  <2>2. CASE CancelRemove(r)
    BY <2>2 DEF CancelRemove
  <2>3. CASE CancelRelease(r)
    BY <2>3 DEF CancelRelease, ReleaseSlot
  <2> QED BY <1>6, <2>1, <2>2, <2>3 DEF CancelRun
<1>7. ASSUME NEW p \in Replica, Reconcile(p) PROVE Same
  BY <1>7 DEF Reconcile, CountJobs, CompareCounter, SetCounter
<1>8. ASSUME NEW r \in Run, RunFault(r) PROVE FaultInv'
  <2>1. CASE ReserveFailsOpen(r) \/ ReserveFailsClosed(r) \/ ReserveReplyLost(r)
    BY <2>1 DEF ReserveFailsOpen, ReserveFailsClosed, ReserveReplyLost
  <2>2. CASE AddReplyLost(r)
    BY <2>2 DEF AddReplyLost
  <2>3. CASE EnqueueFails(r) \/ StoreReplyLost(r) \/ StoreFailsSilently(r) \/ SubmitCrash(r)
    BY <2>3 DEF EnqueueFails, StoreReplyLost, StoreFailsSilently, SubmitCrash
  <2>4. CASE EventLost(r) \/ CancelCrash(r)
    BY <2>4 DEF EventLost, CancelCrash
  <2> QED BY <1>8, <2>1, <2>2, <2>3, <2>4 DEF RunFault
<1>9. ASSUME NEW p \in Replica, ReplicaFault(p) PROVE FaultInv'
  BY <1>9 DEF ReplicaFault, PromoteAddReplyLost, ReplicaRestart
<1>10. UNCHANGED vars => Same
  BY DEF vars
<1> QED BY <1>1, <1>2, <1>3, <1>4, <1>5, <1>6, <1>7, <1>8, <1>9, <1>10 DEF Next, CoreNext

-----------------------------------------------------------------------------
(* The effect of a step on the counter, the holders and the orphans.       *)

NoNewOrphan == Orphans' \subseteq Orphans

\* A step of the code as written: the slot moves with its run (Takes, GivesBack).
Proper(r) ==
  /\ Takes(r) \/ GivesBack(r) \/ Keeps
  /\ NoNewOrphan
  /\ UNCHANGED faults

\* A fault: a slot is held that the counter misses, counted that nobody holds, or
\* (queue.add took effect and threw) given back although the job runs.
Misstep(r) ==
  /\ faults' = faults + 1
  /\ \/ Keeps /\ NoNewOrphan
     \/ /\ r \notin Holders
        /\ Holders' = Holders \cup {r}
        /\ UNCHANGED running
        /\ NoNewOrphan
     \/ /\ r \in Holders
        /\ Holders' = Holders \ {r}
        /\ UNCHANGED running
        /\ NoNewOrphan
     \/ /\ SlotFree
        /\ running' = running + 1
        /\ UNCHANGED Holders
        /\ NoNewOrphan
     \/ /\ Keeps
        /\ Orphans' \subseteq Orphans \cup {r}

Still == Keeps /\ NoNewOrphan /\ UNCHANGED faults

LEMMA CappedSetsFinite ==
  /\ IsFiniteSet(Holders) /\ Cardinality(Holders) \in Nat
  /\ IsFiniteSet(CappedJobs) /\ Cardinality(CappedJobs) \in Nat
  /\ IsFiniteSet(Orphans) /\ Cardinality(Orphans) \in Nat
  BY RunSubsetCardinality DEF Holders, CappedJobs, Orphans

LEMMA FewerOrphans ==
  ASSUME NoNewOrphan
  PROVE  Cardinality(Orphans') \in Nat /\ Cardinality(Orphans') <= Cardinality(Orphans)
  BY CappedSetsFinite, FS_Subset, FS_CardinalityType DEF NoNewOrphan

\* One proper step misplaces nothing, one fault one slot.
LEMMA MisplacedBound ==
  ASSUME TypeOK, NEW r \in Run, Proper(r) \/ Misstep(r) \/ Still
  PROVE  /\ Misplaced' - Misplaced <= faults' - faults
         /\ running <= RunningCapacity => running' <= RunningCapacity
<1>1. IsFiniteSet(Holders) /\ Cardinality(Holders) \in Nat /\ Cardinality(Orphans) \in Nat
  BY CappedSetsFinite
<1>2. running \in Nat /\ faults \in Nat /\ RunningCapacity \in Nat
  BY CapacityAssumption, BoundAssumption DEF TypeOK
<1>3. Holders' = Holders \cup {r} /\ r \notin Holders
        => Cardinality(Holders') = Cardinality(Holders) + 1
  BY <1>1, FS_AddElement
<1>4. ASSUME Holders' = Holders \ {r}, r \in Holders
      PROVE  Cardinality(Holders') = Cardinality(Holders) - 1 /\ Cardinality(Holders') \in Nat
  BY <1>1, <1>4, FS_RemoveElement, FS_CardinalityType
<1>5. Holders' = Holders => Cardinality(Holders') = Cardinality(Holders)
  OBVIOUS
<1>6. ASSUME Orphans' \subseteq Orphans \cup {r}
      PROVE  Cardinality(Orphans') \in Nat /\ Cardinality(Orphans') <= Cardinality(Orphans) + 1
  <2>1. /\ IsFiniteSet(Orphans \cup {r})
        /\ Cardinality(Orphans \cup {r}) \in {Cardinality(Orphans), Cardinality(Orphans) + 1}
    BY CappedSetsFinite, FS_AddElement
  <2> QED BY <1>1, <1>6, <2>1, FS_Subset, FS_CardinalityType
<1>7. CASE Proper(r)
  <2>1. Cardinality(Orphans') \in Nat /\ Cardinality(Orphans') <= Cardinality(Orphans)
    BY <1>7, FewerOrphans DEF Proper
  <2>2. CASE Takes(r)
    BY <1>1, <1>2, <1>3, <1>7, <2>1, <2>2 DEF Proper, Takes, SlotFree, Misplaced, Drift
  <2>3. CASE GivesBack(r)
    BY <1>1, <1>2, <1>4, <1>7, <2>1, <2>3 DEF Proper, GivesBack, Decrement, Misplaced, Drift
  <2>4. CASE Keeps
    BY <1>1, <1>2, <1>5, <1>7, <2>1, <2>4 DEF Proper, Keeps, Misplaced, Drift
  <2> QED BY <1>7, <2>2, <2>3, <2>4 DEF Proper
<1>8. CASE Misstep(r)
  <2>1. CASE Orphans' \subseteq Orphans \cup {r} /\ Keeps
    BY <1>1, <1>2, <1>5, <1>6, <1>8, <2>1 DEF Misstep, Keeps, Misplaced, Drift
  <2>2. CASE NoNewOrphan /\ Keeps
    BY <1>1, <1>2, <1>5, <1>8, <2>2, FewerOrphans DEF Misstep, Keeps, Misplaced, Drift
  <2>3. CASE NoNewOrphan /\ ~Keeps
    <3>1. Cardinality(Orphans') \in Nat /\ Cardinality(Orphans') <= Cardinality(Orphans)
      BY <2>3, FewerOrphans
    <3> QED
      BY <1>1, <1>2, <1>3, <1>4, <1>5, <1>8, <2>3, <3>1
         DEF Misstep, SlotFree, Misplaced, Drift
  <2> QED BY <1>8, <2>1, <2>2, <2>3 DEF Misstep
<1>9. CASE Still
  BY <1>1, <1>2, <1>5, <1>9, FewerOrphans DEF Still, Keeps, Misplaced, Drift
<1> QED BY <1>7, <1>8, <1>9

-----------------------------------------------------------------------------
(* Every action is one of these steps.                                     *)

LEMMA CoreStepIsProper ==
  ASSUME TypeOK, ProcessorHasJob, OneInv, FaultInv, CoreNext
  PROVE  Still \/ \E r \in Run : Proper(r)
<1> USE RunAssumption
    DEF TypeOK, OneInv, OnePlace, PastEnqueue, ProcessorHasJob, Promoting, FaultInv,
        NoNewOrphan, Still, Proper, redisVars, bullVars, promoterVars, reconcileVars
<1>1. ASSUME NEW r \in Run, Submit(r) PROVE Proper(r)
  <2>1. CASE Reserve(r)
    <3>1. NoNewOrphan /\ UNCHANGED faults
      BY <2>1 DEF Reserve, Orphans, CappedJobs, InQueue
    <3>2. CASE pc'[r] = "add"
      BY <2>1, <3>1, <3>2 DEF Reserve, Takes, Holders
    <3>3. CASE pc'[r] # "add"
      BY <2>1, <3>1, <3>3 DEF Reserve, Keeps, Holders
    <3> QED BY <3>2, <3>3
  <2>2. CASE Add(r) \/ AddRefused(r)
    <3>1. NoNewOrphan /\ UNCHANGED faults
      BY <2>2 DEF Add, AddRefused, Orphans, CappedJobs, InQueue
    <3>2. Keeps
      BY <2>2 DEF Add, AddRefused, Keeps, Holders
    <3> QED BY <3>1, <3>2
  <2>3. CASE Unwind(r)
    <3>1. NoNewOrphan /\ UNCHANGED faults
      BY <2>3 DEF Unwind, ReleaseSlot, Orphans, CappedJobs, InQueue
    <3>2. CASE r \in released
      BY <2>3, <3>1, <3>2 DEF Unwind, ReleaseSlot, Keeps, Holders
    <3>3. CASE r \notin released
      BY <2>3, <3>1, <3>3 DEF Unwind, ReleaseSlot, GivesBack, Holders
    <3> QED BY <3>2, <3>3
  <2>4. CASE Enqueue(r) \/ StoreData(r)
    <3>1. NoNewOrphan /\ UNCHANGED faults
      BY <2>4 DEF Enqueue, StoreData, Orphans, CappedJobs, InQueue
    <3>2. Keeps
      BY <2>4 DEF Enqueue, StoreData, Keeps, Holders
    <3> QED BY <3>1, <3>2
  <2> QED BY <1>1, <2>1, <2>2, <2>3, <2>4 DEF Submit
<1>2. ASSUME NEW p \in Replica, ProcessQueue(p) PROVE Still \/ \E r \in Run : Proper(r)
  <2>1. CASE Promote(p)
    <3>1. PICK r \in batch[p] : \/ /\ Promotable(r)
                                  /\ queued' = queued \ {r}
                                  /\ running' = running + 1
                                  /\ job' = [job EXCEPT ![p] = r]
                                  /\ ppc' = [ppc EXCEPT ![p] = "fetch"]
                               \/ /\ UNCHANGED <<queued, running, job>>
                                  /\ ppc' = [ppc EXCEPT ![p] = NextInBatch(p)']
      BY <2>1 DEF Promote
    <3>2. /\ UNCHANGED <<pc, bull, released, cancel, faults>>
          /\ job[p] \notin Run /\ r \in Run
      BY <2>1, <3>1 DEF Promote
    <3>3. NoNewOrphan
      BY <3>1, <3>2 DEF Orphans, CappedJobs, InQueue, NextInBatch
    <3>4. Takes(r) \/ Keeps
      BY <3>1, <3>2 DEF Promotable, Takes, Keeps, Holders
    <3> QED BY <3>2, <3>3, <3>4
  <2>2. CASE PromoteRelease(p)
    <3>1. job[p] \in Run
      BY <2>2 DEF PromoteRelease
    <3>2. NoNewOrphan /\ UNCHANGED faults
      BY <2>2, <3>1 DEF PromoteRelease, ReleaseSlot, NextInBatch, Orphans, CappedJobs, InQueue
    <3>3. CASE job[p] \in released
      BY <2>2, <3>1, <3>2, <3>3 DEF PromoteRelease, ReleaseSlot, Keeps, Holders
    <3>4. CASE job[p] \notin released
      BY <2>2, <3>1, <3>2, <3>4 DEF PromoteRelease, ReleaseSlot, GivesBack, Holders
    <3> QED BY <3>1, <3>3, <3>4
  <2>3. CASE PromoteAdd(p) \/ PromoteCleanup(p)
    <3>1. job[p] \in Run
      BY <2>3 DEF PromoteAdd, PromoteCleanup
    <3>2. NoNewOrphan /\ UNCHANGED faults
      BY <2>3, <3>1 DEF PromoteAdd, PromoteCleanup, NextInBatch, Orphans, CappedJobs, InQueue
    <3>3. Keeps
      BY <2>3, <3>1 DEF PromoteAdd, PromoteCleanup, Keeps, Holders
    <3> QED BY <3>2, <3>3
  <2>4. CASE Fetch(p) \/ PromoteRefused(p)
    <3>1. NoNewOrphan /\ UNCHANGED faults
      BY <2>4 DEF Fetch, PromoteRefused, Orphans, CappedJobs, InQueue
    <3>2. Keeps
      BY <2>4 DEF Fetch, PromoteRefused, Keeps, Holders
    <3> QED BY <3>1, <3>2
  <2>5. CASE ReadRunning(p) \/ ReadBatch(p)
    BY <2>5 DEF ReadRunning, ReadBatch, Keeps, Holders, Orphans, CappedJobs, InQueue
  <2> QED BY <1>2, <2>1, <2>2, <2>3, <2>4, <2>5 DEF ProcessQueue
<1>3. ASSUME NEW r \in Run, Work(r) PROVE Still
  <2>1. NoNewOrphan /\ UNCHANGED faults
    BY <1>3
       DEF Work, Start, Finish, Backoff, Stall, TakeBack, BackoffOver, Orphans, CappedJobs, InQueue
  <2>2. Keeps
    BY <1>3 DEF Work, Start, Finish, Backoff, Stall, TakeBack, BackoffOver, Keeps, Holders
  <2> QED BY <2>1, <2>2
<1>4. ASSUME NEW r \in Run, FinishEvent(r) PROVE Proper(r)
  <2>1. NoNewOrphan /\ UNCHANGED faults
    BY <1>4 DEF FinishEvent, ReleaseSlot, Orphans, CappedJobs, InQueue
  <2> QED BY <1>4, <2>1, ReleaseGivesBack DEF FinishEvent
<1>5. ASSUME NEW r \in Run, CancelRun(r) PROVE Proper(r)
  <2>1. NoNewOrphan /\ UNCHANGED faults
    BY <1>5
       DEF CancelRun, CancelSearch, CancelRemove, CancelRelease, CancelZrem, ReleaseSlot,
           Orphans, CappedJobs, InQueue
  <2>2. CASE CancelSearch(r) \/ CancelRemove(r) \/ CancelZrem(r)
    BY <2>1, <2>2 DEF CancelSearch, CancelRemove, CancelZrem, Keeps, Holders
  <2>3. CASE CancelRelease(r)
    BY <2>1, <2>3, ReleaseGivesBack DEF CancelRelease
  <2> QED BY <1>5, <2>2, <2>3 DEF CancelRun
<1> QED BY <1>1, <1>2, <1>3, <1>4, <1>5 DEF CoreNext

LEMMA RunFaultIsMisstep ==
  ASSUME TypeOK, ProcessorHasJob, OneInv, FaultInv, NEW r \in Run, RunFault(r)
  PROVE  Misstep(r)
<1> USE RunAssumption
    DEF TypeOK, OneInv, OnePlace, PastEnqueue, FaultInv, Fault, NoNewOrphan, Misstep,
        redisVars, bullVars, promoterVars, reconcileVars
<1>1. CASE ReserveFailsOpen(r)
  <2>1. NoNewOrphan
    BY <1>1 DEF ReserveFailsOpen, Orphans, CappedJobs, InQueue
  <2> QED BY <1>1, <2>1 DEF ReserveFailsOpen, Holders
<1>2. CASE ReserveFailsClosed(r) \/ EnqueueFails(r) \/ StoreReplyLost(r) \/ StoreFailsSilently(r)
  <2>1. NoNewOrphan
    BY <1>2
       DEF ReserveFailsClosed, EnqueueFails, StoreReplyLost, StoreFailsSilently,
           Orphans, CappedJobs, InQueue
  <2> QED
    BY <1>2, <2>1
       DEF ReserveFailsClosed, EnqueueFails, StoreReplyLost, StoreFailsSilently, Keeps, Holders
<1>3. CASE ReserveReplyLost(r)
  BY <1>3 DEF ReserveReplyLost, Holders, Orphans, CappedJobs, InQueue
<1>4. CASE AddReplyLost(r)
  <2>1. Keeps
    BY <1>4 DEF AddReplyLost, Keeps, Holders
  <2>2. Orphans' \subseteq Orphans \cup {r}
    BY <1>4 DEF AddReplyLost, Orphans, CappedJobs, InQueue
  <2> QED BY <1>4, <2>1, <2>2 DEF AddReplyLost
<1>5. CASE SubmitCrash(r)
  <2>1. NoNewOrphan /\ UNCHANGED running
    BY <1>5 DEF SubmitCrash, Orphans, CappedJobs, InQueue
  <2>2. Holders' = Holders \/ (r \in Holders /\ Holders' = Holders \ {r})
    BY <1>5 DEF SubmitCrash, Holders
  <2> QED BY <1>5, <2>1, <2>2 DEF SubmitCrash, Keeps
<1>6. CASE EventLost(r) \/ CancelCrash(r)
  <2>1. NoNewOrphan
    BY <1>6 DEF EventLost, CancelCrash, Orphans, CappedJobs, InQueue
  <2> QED BY <1>6, <2>1 DEF EventLost, CancelCrash, Keeps, Holders
<1> QED BY <1>1, <1>2, <1>3, <1>4, <1>5, <1>6 DEF RunFault

LEMMA ReplicaFaultIsMisstep ==
  ASSUME TypeOK, ProcessorHasJob, OneInv, FaultInv, NEW p \in Replica, ReplicaFault(p)
  PROVE  \/ \E r \in Run : Misstep(r)
         \/ Keeps /\ NoNewOrphan /\ faults' = faults + 1
<1> USE RunAssumption
    DEF TypeOK, OneInv, OnePlace, PastEnqueue, ProcessorHasJob, Promoting, FaultInv, Fault,
        NoNewOrphan, Misstep, redisVars, bullVars, promoterVars, reconcileVars
<1>1. CASE PromoteAddReplyLost(p)
  <2>1. job[p] \in Run
    BY <1>1 DEF PromoteAddReplyLost
  <2>2. Keeps
    BY <1>1, <2>1 DEF PromoteAddReplyLost, Keeps, Holders
  <2>3. Orphans' \subseteq Orphans \cup {job[p]}
    BY <1>1, <2>1 DEF PromoteAddReplyLost, Orphans, CappedJobs, InQueue
  <2> QED BY <1>1, <2>1, <2>2, <2>3 DEF PromoteAddReplyLost
<1>2. CASE ReplicaRestart(p)
  <2>1. NoNewOrphan /\ UNCHANGED running /\ faults' = faults + 1
    BY <1>2 DEF ReplicaRestart, Orphans, CappedJobs, InQueue
  <2>2. CASE job[p] \in Run
    <3>1. Holders' = Holders \/ (job[p] \in Holders /\ Holders' = Holders \ {job[p]})
      BY <1>2, <2>2 DEF ReplicaRestart, Holders
    <3> QED BY <2>1, <2>2, <3>1 DEF Keeps
  <2>3. CASE job[p] \notin Run
    BY <1>2, <2>1, <2>3 DEF ReplicaRestart, Keeps, Holders
  <2> QED BY <2>2, <2>3
<1> QED BY <1>1, <1>2 DEF ReplicaFault

-----------------------------------------------------------------------------
(* The theorems.                                                           *)

\* What one step does, a reconciliation pass that sets the counter apart.
LEMMA FaultStep ==
  ASSUME TypeOK, ProcessorHasJob, OneInv, FaultInv, [Next]_vars,
         ~\E p \in Replica : SetCounter(p)
  PROVE  /\ Misplaced' - Misplaced <= faults' - faults
         /\ running <= RunningCapacity => running' <= RunningCapacity
<1> DEFINE Goal == /\ Misplaced' - Misplaced <= faults' - faults
                   /\ running <= RunningCapacity => running' <= RunningCapacity
<1>1. ASSUME Keeps, NoNewOrphan, faults' \in {faults, faults + 1} PROVE Goal
  <2>1. faults \in Nat
    BY BoundAssumption DEF TypeOK
  <2>2. /\ running \in Nat /\ UNCHANGED running
        /\ Cardinality(Holders') = Cardinality(Holders)
    BY <1>1 DEF TypeOK, Keeps
  <2> QED
    BY <1>1, <2>1, <2>2, FewerOrphans, CappedSetsFinite DEF Misplaced, Drift
<1>2. ASSUME NEW r \in Run, Proper(r) \/ Misstep(r) PROVE Goal
  BY <1>2, MisplacedBound
<1>3. CASE CoreNext
  BY <1>1, <1>2, <1>3, CoreStepIsProper DEF Still
<1>4. ASSUME NEW p \in Replica, Reconcile(p) PROVE Goal
  <2>1. CountJobs(p) \/ CompareCounter(p)
    BY <1>4 DEF Reconcile
  <2>2. Still
    BY <2>1
       DEF CountJobs, CompareCounter, Still, Keeps, NoNewOrphan, Holders, Orphans, CappedJobs,
           InQueue, redisVars, bullVars, promoterVars
  <2> QED BY <1>1, <2>2 DEF Still
<1>5. ASSUME NEW r \in Run, RunFault(r) PROVE Goal
  BY <1>2, <1>5, RunFaultIsMisstep
<1>6. ASSUME NEW p \in Replica, ReplicaFault(p) PROVE Goal
  BY <1>1, <1>2, <1>6, ReplicaFaultIsMisstep
<1>7. CASE UNCHANGED vars
  <2>1. Still
    BY <1>7
       DEF vars, Still, Keeps, NoNewOrphan, Holders, Orphans, CappedJobs, InQueue,
           redisVars, bullVars, promoterVars
  <2> QED BY <1>1, <2>1 DEF Still
<1> QED BY <1>3, <1>4, <1>5, <1>6, <1>7 DEF Next

\* The facts every theorem of this module stands on.
LEMMA FaultInvariant == Init /\ [][Next]_vars => [](TypeOK /\ ProcessorHasJob /\ OneInv /\ FaultInv)
<1>1. Init => TypeOK /\ ProcessorHasJob /\ OneInv /\ FaultInv
  BY RunAssumption, BoundAssumption
     DEF Init, TypeOK, ProcessorHasJob, OneInv, OnePlace, FaultInv, Promoting, PCs, JobStates
<1> QED BY <1>1, TypeStep, ProcessorHasJobStep, OneStep, FaultInvStep, PTL

\* One fault misplaces one slot, for any number of runs, replicas and faults: a lost
\* reply, a repeated or lost event, a crash or a restart never does more harm than
\* that, and nothing but faults and reconciliation does any.
THEOREM FaultsMisplaceOneSlotEach == Spec => OnlyFaultsDrift
<1>1. ASSUME TypeOK, ProcessorHasJob, OneInv, FaultInv, [Next]_vars
      PROVE  [(\E p \in Replica : SetCounter(p)) \/ Misplaced' - Misplaced <= faults' - faults]_vars
  BY <1>1, FaultStep
<1> QED BY <1>1, FaultInvariant, PTL DEF Spec, OnlyFaultsDrift

\* As long as no reconciliation pass has set the counter, the jobs in BullMQ that were
\* not cancelled pass RUNNING_CAPACITY by no more than the faults that happened.
THEOREM OvershootWithinFaults ==
  Init /\ [][Next]_vars
    => ([](\A p \in Replica : rpc[p] # "set")
          => [](Cardinality(CappedJobs) <= RunningCapacity + faults))
<1> DEFINE Unset == \A p \in Replica : rpc[p] # "set"
           Bounded == Misplaced <= faults /\ running <= RunningCapacity
           Inv == TypeOK /\ ProcessorHasJob /\ OneInv /\ FaultInv
<1>1. Init => Bounded
  <2>1. SUFFICES ASSUME Init PROVE Bounded
    OBVIOUS
  <2>2. Holders = {} /\ Orphans = {}
    BY <2>1, RunAssumption DEF Init, Holders, Orphans, CappedJobs, InQueue
  <2> QED BY <2>1, <2>2, FS_EmptySet, CapacityAssumption DEF Init, Misplaced, Drift
<1>2. Inv /\ Unset /\ Bounded /\ [Next]_vars => Bounded'
  <2>1. SUFFICES ASSUME Inv, Unset, Bounded, [Next]_vars PROVE Bounded'
    OBVIOUS
  <2>2. ~\E p \in Replica : SetCounter(p)
    BY <2>1 DEF SetCounter
  <2>3. Misplaced \in Int
    BY <2>1, CappedSetsFinite DEF TypeOK, Misplaced, Drift
  <2>4. Misplaced' \in Int
    <3>1. Cardinality(Holders') \in Nat /\ Cardinality(Orphans') \in Nat
      BY RunSubsetCardinality DEF Holders, Orphans, CappedJobs
    <3>2. running' \in Nat
      BY <2>1, TypeStep DEF TypeOK
    <3> QED BY <3>1, <3>2 DEF Misplaced, Drift
  <2>5. faults \in Int /\ faults' \in Int
    BY <2>1, TypeStep, BoundAssumption DEF TypeOK
  <2>6. /\ Misplaced' - Misplaced <= faults' - faults
        /\ running <= RunningCapacity => running' <= RunningCapacity
    BY <2>1, <2>2, FaultStep
  <2>7. Misplaced' <= faults'
    <3>1. Misplaced <= faults
      BY <2>1
    <3>2. \A a, b, c, d \in Int : b - a <= d - c /\ a <= c => b <= d
      OBVIOUS
    <3> HIDE DEF Bounded, Inv
    <3> QED BY <2>3, <2>4, <2>5, <2>6, <3>1, <3>2, Zenon
  <2> QED BY <2>1, <2>6, <2>7
<1>3. Inv /\ Bounded => Cardinality(CappedJobs) <= RunningCapacity + faults
  <2>1. SUFFICES ASSUME Inv, Bounded PROVE Cardinality(CappedJobs) <= RunningCapacity + faults
    OBVIOUS
  <2>2. CappedJobs \subseteq Holders \cup Orphans
    BY DEF CappedJobs, InQueue, Holders, Orphans
  <2>3. Cardinality(CappedJobs) <= Cardinality(Holders) + Cardinality(Orphans)
    <3>1. /\ IsFiniteSet(Holders \cup Orphans)
          /\ Cardinality(Holders \cup Orphans)
               = Cardinality(Holders) + Cardinality(Orphans) - Cardinality(Holders \cap Orphans)
      BY CappedSetsFinite, FS_Union
    <3>2. Cardinality(Holders \cap Orphans) \in Nat
      BY CappedSetsFinite, FS_Subset, FS_CardinalityType
    <3>3. Cardinality(CappedJobs) <= Cardinality(Holders \cup Orphans)
      BY <2>2, <3>1, FS_Subset
    <3> QED BY <3>1, <3>2, <3>3, CappedSetsFinite
  <2> QED
    BY <2>1, <2>3, CappedSetsFinite, CapacityAssumption, BoundAssumption
       DEF TypeOK, Misplaced, Drift
<1> QED BY <1>1, <1>2, <1>3, FaultInvariant, PTL

-----------------------------------------------------------------------------
(* How far the queue is overbooked.                                        *)

\* Requests that have passed the check of reserveSlot and have not done their ZADD.
Entering == {r \in Run : pc[r] = "enqueue"}

\* A run enters the queue or its door only through the check.
LEMMA QueueGrowsByCheck ==
  ASSUME TypeOK, [Next]_vars
  PROVE  \/ (queued \cup Entering)' \subseteq queued \cup Entering
         \/ UNCHANGED queued /\ ~QueueFull
<1> USE DEF Entering, redisVars, bullVars, promoterVars, reconcileVars
<1> DEFINE Goal == \/ (queued \cup Entering)' \subseteq queued \cup Entering
                   \/ UNCHANGED queued /\ ~QueueFull
<1>1. CASE UNCHANGED <<pc, queued>>
  BY <1>1
<1>2. ASSUME NEW r \in Run, Submit(r) PROVE Goal
  <2>1. CASE Reserve(r)
    BY <2>1 DEF Reserve, TypeOK
  <2>2. CASE Add(r) \/ AddRefused(r) \/ Unwind(r) \/ StoreData(r)
    BY <2>2 DEF Add, AddRefused, Unwind, StoreData, TypeOK
  <2>3. CASE Enqueue(r)
    BY <2>3 DEF Enqueue, TypeOK
  <2> QED BY <1>2, <2>1, <2>2, <2>3 DEF Submit
<1>3. ASSUME NEW p \in Replica, ProcessQueue(p) PROVE Goal
  BY <1>3
     DEF ProcessQueue, ReadRunning, ReadBatch, Promote, Fetch, PromoteAdd, PromoteRefused,
         PromoteRelease, PromoteCleanup
<1>4. ASSUME NEW r \in Run, Work(r) \/ FinishEvent(r) PROVE Goal
  BY <1>1, <1>4
     DEF Work, Start, Finish, Backoff, Stall, TakeBack, BackoffOver, FinishEvent
<1>5. ASSUME NEW r \in Run, CancelRun(r) PROVE Goal
  BY <1>5 DEF CancelRun, CancelSearch, CancelRemove, CancelRelease, CancelZrem
<1>6. ASSUME NEW p \in Replica, Reconcile(p) PROVE Goal
  BY <1>1, <1>6 DEF Reconcile, CountJobs, CompareCounter, SetCounter
<1>7. ASSUME NEW r \in Run, RunFault(r) PROVE Goal
  BY <1>7
     DEF RunFault, ReserveFailsOpen, ReserveFailsClosed, ReserveReplyLost, AddReplyLost,
         EnqueueFails, StoreReplyLost, StoreFailsSilently, SubmitCrash, EventLost, CancelCrash,
         TypeOK
<1>8. ASSUME NEW p \in Replica, ReplicaFault(p) PROVE Goal
  BY <1>1, <1>8 DEF ReplicaFault, PromoteAddReplyLost, ReplicaRestart
<1>9. CASE UNCHANGED vars
  BY <1>1, <1>9 DEF vars
<1> QED BY <1>2, <1>3, <1>4, <1>5, <1>6, <1>7, <1>8, <1>9 DEF Next, CoreNext

\* The queue passes QUEUED_CAPACITY by at most the requests that are between the check and
\* the ZADD at the same time, less one: with one at a time the limit holds.  No promotion,
\* cancel request, fault or restart makes it worse.
THEOREM OverbookingIsBounded ==
  ASSUME NEW CONSTANT k \in Nat \ {0}
  PROVE  Init /\ [][Next]_vars
           => ([](Cardinality(Entering) <= k)
                 => [](Cardinality(queued) <= QueuedCapacity + k - 1))
<1> DEFINE Few == Cardinality(Entering) <= k
           Door == queued \cup Entering
           Bounded == Cardinality(Door) <= QueuedCapacity + k - 1
<1>f. ASSUME TypeOK PROVE IsFiniteSet(queued) /\ IsFiniteSet(Entering) /\ IsFiniteSet(Door)
                          /\ Cardinality(queued) \in Nat /\ Cardinality(Entering) \in Nat
                          /\ Cardinality(Door) \in Nat
  BY <1>f, RunAssumption, FS_Subset, FS_CardinalityType DEF TypeOK, Entering
<1>1. Init => Bounded
  <2>1. SUFFICES ASSUME Init PROVE Bounded
    OBVIOUS
  <2>2. Door = {}
    BY <2>1 DEF Init, Entering
  <2> QED BY <2>2, FS_EmptySet, CapacityAssumption
<1>2. TypeOK /\ TypeOK' /\ Few' /\ Bounded /\ [Next]_vars => Bounded'
  <2>1. SUFFICES ASSUME TypeOK, TypeOK', Few', Bounded, [Next]_vars PROVE Bounded'
    OBVIOUS
  <2>2. CASE Door' \subseteq Door
    <3>1. Cardinality(Door') <= Cardinality(Door)
      BY <1>f, <2>1, <2>2, FS_Subset
    <3>2. Cardinality(Door') \in Nat /\ Cardinality(Door) \in Nat
      BY <1>f, <2>1, <2>2, FS_Subset, FS_CardinalityType
    <3> HIDE DEF Door
    <3> QED BY <2>1, <3>1, <3>2, CapacityAssumption
  <2>3. CASE UNCHANGED queued /\ ~QueueFull
    \* The check found the queue below its limit, and few are at its door.
    <3>1. IsFiniteSet(queued) /\ IsFiniteSet(Entering')
      BY <2>1, RunAssumption, FS_Subset DEF TypeOK, Entering
    <3>2. Cardinality(queued \cup Entering')
            = Cardinality(queued) + Cardinality(Entering') - Cardinality(queued \cap Entering')
      BY <3>1, FS_Union
    <3>3. /\ Cardinality(queued) \in Nat
          /\ Cardinality(Entering') \in Nat
          /\ Cardinality(queued \cap Entering') \in Nat
      BY <3>1, FS_Subset, FS_CardinalityType
    <3>4. Cardinality(queued) < QueuedCapacity /\ Cardinality(Entering') <= k
      BY <2>1, <2>3, <3>3, CapacityAssumption DEF QueueFull
    <3>5. Cardinality(queued \cup Entering') <= QueuedCapacity + k - 1
      BY <3>2, <3>3, <3>4, CapacityAssumption
    <3> QED BY <2>3, <3>5
  <2> QED BY <2>1, <2>2, <2>3, QueueGrowsByCheck
<1>3. TypeOK /\ Bounded => Cardinality(queued) <= QueuedCapacity + k - 1
  <2>1. SUFFICES ASSUME TypeOK, Bounded PROVE Cardinality(queued) <= QueuedCapacity + k - 1
    OBVIOUS
  <2>2. Cardinality(queued) <= Cardinality(Door)
    BY <1>f, <2>1, FS_Subset
  <2> HIDE DEF Door
  <2> QED BY <1>f, <2>1, <2>2, CapacityAssumption
<1> QED BY <1>1, <1>2, <1>3, FaultInvariant, PTL

-----------------------------------------------------------------------------
(* What a reconciliation pass repairs.                                     *)

\* The jobs a pass counts.
Counted == {r \in Run : bull[r] \in {"active", "waiting"}}

\* The runs the cap is meant for: jobs that are not cancelled, and runs that got a slot and
\* are about to be added.
Owners ==
  CappedJobs \cup
  {r \in Run : pc[r] = "add" \/ \E p \in Replica : job[p] = r /\ ppc[p] \in {"fetch", "add"}}

\* What a pass misjudges: a job in its retry backoff, and one that goes on after the cancel
\* request for it is done.
Overlooked == {r \in CappedJobs : bull[r] = "delayed"}
Overcounted == {r \in Counted : cancel[r] = "done"}

\* Nothing moves during an undisturbed pass, so what it counted is still so.
CountIsFresh == \A p \in Replica : rpc[p] # "idle" => actual[p] = Cardinality(Counted)

LEMMA CountIsFreshStep ==
  ASSUME TypeOK, CountIsFresh, [UndisturbedNext]_vars
  PROVE  CountIsFresh'
<1> USE DEF CountIsFresh
<1>1. (UNCHANGED bull) => Counted' = Counted
  BY DEF Counted
<1>2. CASE (\A p \in Replica : rpc[p] = "idle") /\ CoreNext
  <2>1. UNCHANGED rpc
    BY <1>2
       DEF CoreNext, Submit, Reserve, Add, AddRefused, Unwind, Enqueue, StoreData, Work, Start,
           Finish, Backoff, Stall, TakeBack, BackoffOver, FinishEvent, CancelRun, CancelSearch,
           CancelRemove, CancelRelease, CancelZrem, ProcessQueue, ReadRunning, ReadBatch,
           Promote, Fetch, PromoteAdd, PromoteRefused, PromoteRelease, PromoteCleanup,
           reconcileVars
  <2> QED BY <1>2, <2>1
<1>3. ASSUME \A p \in Replica : rpc[p] = "idle", NEW r \in Run, RunFault(r)
      PROVE  CountIsFresh'
  <2>1. UNCHANGED rpc
    BY <1>3
       DEF RunFault, ReserveFailsOpen, ReserveFailsClosed, ReserveReplyLost, AddReplyLost,
           EnqueueFails, StoreReplyLost, StoreFailsSilently, SubmitCrash, EventLost, CancelCrash,
           reconcileVars
  <2> QED BY <1>3, <2>1
<1>4. ASSUME \A p \in Replica : rpc[p] = "idle", NEW p \in Replica, ReplicaFault(p)
      PROVE  CountIsFresh'
  BY <1>4 DEF ReplicaFault, PromoteAddReplyLost, ReplicaRestart, reconcileVars, TypeOK
<1>5. ASSUME NEW p \in Replica, UndisturbedReconcile(p) PROVE CountIsFresh'
  <2>1. CASE CountJobs(p)
    BY <1>1, <2>1 DEF CountJobs, bullVars, TypeOK, Counted
  <2>2. CASE CompareCounter(p)
    BY <1>1, <2>2 DEF CompareCounter, bullVars, TypeOK
  <2>3. CASE SetCounter(p)
    BY <1>1, <2>3 DEF SetCounter, bullVars, TypeOK
  <2> QED BY <1>5, <2>1, <2>2, <2>3 DEF UndisturbedReconcile, Reconcile
<1>6. CASE UNCHANGED vars
  BY <1>1, <1>6 DEF vars, bullVars, reconcileVars
<1> QED BY <1>2, <1>3, <1>4, <1>5, <1>6 DEF UndisturbedNext

\* A pass is over when it finds no drift or has set the counter.
PassEnds(p) == rpc[p] # "idle" /\ rpc'[p] = "idle"

LEMMA EndedPassCounts ==
  ASSUME TypeOK, CountIsFresh, UndisturbedNext, NEW p \in Replica, PassEnds(p)
  PROVE  /\ running' = Cardinality(Counted)
         /\ UNCHANGED <<pc, bull, cancel, job>>
         /\ \A r \in Run : pc[r] # "add"
         /\ \A q \in Replica : job[q] = NoRun
<1>1. PICK q \in Replica : UndisturbedReconcile(q)
  BY DEF UndisturbedNext, PassEnds
<1>2. q = p
  BY <1>1 DEF UndisturbedReconcile, PassEnds
<1>3. CASE CompareCounter(p)
  BY <1>1, <1>3
     DEF CompareCounter, Drifted, PassEnds, CountIsFresh, UndisturbedReconcile, TypeOK, redisVars,
         bullVars, promoterVars
<1>4. CASE SetCounter(p)
  BY <1>1, <1>4
     DEF SetCounter, CountIsFresh, UndisturbedReconcile, bullVars, promoterVars
<1>5. ~CountJobs(p)
  BY DEF CountJobs, PassEnds
<1> QED BY <1>1, <1>2, <1>3, <1>4, <1>5 DEF UndisturbedReconcile, Reconcile

\* The size of two sets of runs that share nothing.
LEMMA DisjointSizes ==
  ASSUME NEW A \in SUBSET Run, NEW B \in SUBSET Run, A \cap B = {}
  PROVE  /\ Cardinality(A \cup B) = Cardinality(A) + Cardinality(B)
         /\ Cardinality(A) \in Nat /\ Cardinality(B) \in Nat
<1>1. IsFiniteSet(A) /\ IsFiniteSet(B) /\ Cardinality(A) \in Nat /\ Cardinality(B) \in Nat
  BY RunSubsetCardinality
<1>2. Cardinality(A \cap B) = 0
  BY FS_EmptySet
<1>3. Cardinality(A \cup B) = Cardinality(A) + Cardinality(B) - Cardinality(A \cap B)
  BY <1>1, FS_Union
<1> QED BY <1>1, <1>2, <1>3

\* A pass that nothing overlaps leaves the counter right but for the jobs it misjudges:
\* whatever requests, replicas, events and faults did to it before (slots leaked, given back
\* twice, taken twice, a pass that was overlapped by a restart), it is then the number of
\* runs that should hold a slot, less those in backoff, plus those cancelled that go on.
THEOREM ReconciliationIsNearlyExact ==
  UndisturbedSpec
    => [][\A p \in Replica :
            PassEnds(p) =>
              (running + Cardinality(Overlooked) = Cardinality(Owners) + Cardinality(Overcounted))'
         ]_vars
<1> DEFINE Right ==
             (running + Cardinality(Overlooked) = Cardinality(Owners) + Cardinality(Overcounted))'
<1>1. TypeOK /\ CountIsFresh /\ [UndisturbedNext]_vars
        => [\A p \in Replica : PassEnds(p) => Right]_vars
  <2> SUFFICES ASSUME TypeOK, CountIsFresh, UndisturbedNext, NEW p \in Replica, PassEnds(p)
               PROVE  Right
    OBVIOUS
  <2> DEFINE Sound == {r \in Run : bull[r] \in {"active", "waiting"} /\ cancel[r] # "done"}
             Late == {r \in Run : bull[r] = "delayed" /\ cancel[r] # "done"}
             Over == {r \in Run : bull[r] \in {"active", "waiting"} /\ cancel[r] = "done"}
  <2>1. /\ running' = Cardinality(Counted)
        /\ UNCHANGED <<pc, bull, cancel, job>>
        /\ \A r \in Run : pc[r] # "add"
        /\ \A q \in Replica : job[q] = NoRun
    BY EndedPassCounts
  <2>2. Counted = Sound \cup Over
    BY DEF Counted
  <2>3. Owners' = Sound \cup Late
    BY <2>1, RunAssumption DEF Owners, CappedJobs, InQueue
  <2>4. Overlooked' = Late /\ Overcounted' = Over
    BY <2>1 DEF Overlooked, Overcounted, CappedJobs, InQueue, Counted
  <2>5. Sound \in SUBSET Run /\ Late \in SUBSET Run /\ Over \in SUBSET Run
    OBVIOUS
  <2>6. Sound \cap Over = {} /\ Sound \cap Late = {}
    OBVIOUS
  <2> HIDE DEF Sound, Late, Over
  <2>7. /\ Cardinality(Counted) = Cardinality(Sound) + Cardinality(Over)
        /\ Cardinality(Owners') = Cardinality(Sound) + Cardinality(Late)
        /\ Cardinality(Sound) \in Nat /\ Cardinality(Late) \in Nat /\ Cardinality(Over) \in Nat
    BY <2>2, <2>3, <2>5, <2>6, DisjointSizes
  <2> QED BY <2>1, <2>4, <2>7
<1>2. [UndisturbedNext]_vars => [Next]_vars
  BY DEF UndisturbedNext, UndisturbedReconcile, Next
<1>3. Init => CountIsFresh
  BY DEF Init, CountIsFresh
<1> QED BY <1>1, <1>2, <1>3, CountIsFreshStep, FaultInvariant, PTL DEF UndisturbedSpec
=============================================================================
