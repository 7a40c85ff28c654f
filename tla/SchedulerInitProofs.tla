------------------------ MODULE SchedulerInitProofs ------------------------
(***************************************************************************)
(* Theorems of SchedulerInit, for every finite set of replicas and every   *)
(* bound.                                                                  *)
(***************************************************************************)
EXTENDS SchedulerInit, FiniteSetTheorems, TLAPS

\* A replica waits for another attempt only if it has one left.
AttemptInv == \A r \in Replica : pc[r] = "backoff" => attempt[r] < MaxAttempts

TypeInv == TypeOK /\ AttemptInv

LEMMA InitTypeInv == Init => TypeInv
  BY BoundAssumption DEF Init, TypeInv, TypeOK, AttemptInv, PCs

LEMMA NextTypeInv == TypeInv /\ [Next]_vars => TypeInv'
<1> SUFFICES ASSUME TypeInv, [Next]_vars PROVE TypeInv'
  OBVIOUS
<1> USE BoundAssumption, ReplicaAssumption DEF TypeInv, TypeOK, AttemptInv, PCs, AfterError, Fault
<1>1. CASE Expire
  BY <1>1 DEF Expire
<1>2. ASSUME NEW r \in Replica, Start(r) PROVE TypeInv'
  BY <1>2 DEF Start
<1>3. ASSUME NEW r \in Replica, Acquire(r) PROVE TypeInv'
  BY <1>3 DEF Acquire
<1>4. ASSUME NEW r \in Replica, Work(r) PROVE TypeInv'
  BY <1>4 DEF Work
<1>5. ASSUME NEW r \in Replica, Release(r) PROVE TypeInv'
  BY <1>5 DEF Release, Released
<1>6. ASSUME NEW r \in Replica, Retry(r) PROVE TypeInv'
  BY <1>6 DEF Retry
<1>7. ASSUME NEW r \in Replica, AcquireFails(r) PROVE TypeInv'
  BY <1>7 DEF AcquireFails
<1>8. ASSUME NEW r \in Replica, WorkFails(r) PROVE TypeInv'
  BY <1>8 DEF WorkFails
<1>9. ASSUME NEW r \in Replica, ReleaseFails(r) PROVE TypeInv'
  BY <1>9 DEF ReleaseFails, Released
<1>10. ASSUME NEW r \in Replica, Restart(r) PROVE TypeInv'
  BY <1>10 DEF Restart
<1>11. CASE UNCHANGED vars
  BY <1>11 DEF vars
<1> QED BY <1>1, <1>2, <1>3, <1>4, <1>5, <1>6, <1>7, <1>8, <1>9, <1>10, <1>11 DEF Next, Step

\* Every variable keeps its type: no replica exceeds its attempts.
THEOREM TypeCorrect == Spec => []TypeOK
<1>1. TypeInv => TypeOK
  BY DEF TypeInv
<1> QED BY <1>1, InitTypeInv, NextTypeInv, PTL DEF Spec

-----------------------------------------------------------------------------
\* The replicas at work that do not hold the lock.
Strangers == Active \ {lock}

LEMMA SetsFinite ==
  /\ IsFiniteSet(Active)
  /\ IsFiniteSet(Strangers)
  /\ Cardinality(Strangers) \in Nat
<1>1. Active \subseteq Replica
  BY DEF Active
<1>2. IsFiniteSet(Active)
  BY <1>1, ReplicaAssumption, FS_Subset
<1>3. IsFiniteSet(Strangers)
  BY <1>2, FS_Subset DEF Strangers
<1> QED BY <1>2, <1>3, FS_CardinalityType

\* What one step may do to the strangers: none is added, unless a lock expires under its
\* holder (one more, and one more overrun) or the lock is deleted by somebody else (its holder
\* takes the place of the one that leaves).
StrangerStep ==
  \/ Strangers' \subseteq Strangers /\ overruns' = overruns
  \/ Strangers' = Strangers \cup {lock} /\ overruns' = overruns + 1
  \/ \E r \in Strangers : Strangers' \subseteq (Strangers \ {r}) \cup {lock} /\ overruns' = overruns

LEMMA StepOfStrangers == TypeOK /\ [Next]_vars => StrangerStep
<1> SUFFICES ASSUME TypeOK, [Next]_vars PROVE StrangerStep
  OBVIOUS
<1> USE ReplicaAssumption DEF StrangerStep, Strangers, Active, TypeOK
<1>1. CASE Expire
  BY <1>1 DEF Expire
<1>2. ASSUME NEW r \in Replica, Start(r) PROVE StrangerStep
  BY <1>2 DEF Start
<1>3. ASSUME NEW r \in Replica, Acquire(r) PROVE StrangerStep
  BY <1>3 DEF Acquire
<1>4. ASSUME NEW r \in Replica, Work(r) PROVE StrangerStep
  BY <1>4 DEF Work
<1>5. ASSUME NEW r \in Replica, Release(r) PROVE StrangerStep
  <2>1. pc'[r] \in {"done", "backoff", "failed"} /\ lock' = NoReplica /\ overruns' = overruns
    BY <1>5 DEF Release, Released, AfterError
  <2>2. \A s \in Replica \ {r} : pc'[s] = pc[s]
    BY <1>5 DEF Release
  <2>3. Active' = Active \ {r} /\ r \in Active
    BY <1>5, <2>1, <2>2 DEF Release
  <2> QED BY <2>1, <2>3
<1>6. ASSUME NEW r \in Replica, Retry(r) PROVE StrangerStep
  BY <1>6 DEF Retry
<1>7. ASSUME NEW r \in Replica, AcquireFails(r) PROVE StrangerStep
  BY <1>7 DEF AcquireFails, AfterError
<1>8. ASSUME NEW r \in Replica, WorkFails(r) PROVE StrangerStep
  BY <1>8 DEF WorkFails, AfterError
<1>9. ASSUME NEW r \in Replica, ReleaseFails(r) PROVE StrangerStep
  BY <1>9 DEF ReleaseFails, Released, AfterError
<1>10. ASSUME NEW r \in Replica, Restart(r) PROVE StrangerStep
  BY <1>10 DEF Restart
<1>11. CASE UNCHANGED vars
  BY <1>11 DEF vars
<1> QED BY <1>1, <1>2, <1>3, <1>4, <1>5, <1>6, <1>7, <1>8, <1>9, <1>10, <1>11 DEF Next, Step

LEMMA NextOverlap == TypeInv /\ OverlapBounded /\ [Next]_vars => OverlapBounded'
<1> SUFFICES ASSUME TypeOK, [Next]_vars, Cardinality(Strangers) <= overruns
             PROVE  Cardinality(Strangers') <= overruns'
  BY DEF TypeInv, OverlapBounded, Strangers
<1>1. overruns \in Nat
  BY BoundAssumption DEF TypeOK
<1>2. /\ IsFiniteSet(Strangers) /\ Cardinality(Strangers) \in Nat
  BY SetsFinite
<1>3. CASE Strangers' \subseteq Strangers /\ overruns' = overruns
  <2>1. Cardinality(Strangers') <= Cardinality(Strangers)
    BY <1>2, <1>3, FS_Subset
  <2>2. Cardinality(Strangers') \in Nat
    BY <1>2, <1>3, FS_Subset, FS_CardinalityType
  <2> QED BY <1>1, <1>2, <1>3, <2>1, <2>2
<1>4. CASE Strangers' = Strangers \cup {lock} /\ overruns' = overruns + 1
  <2>1. Cardinality(Strangers') \in {Cardinality(Strangers), Cardinality(Strangers) + 1}
    BY <1>2, <1>4, FS_AddElement
  <2> QED BY <1>1, <1>2, <1>4, <2>1
<1>5. CASE \E r \in Strangers :
             Strangers' \subseteq (Strangers \ {r}) \cup {lock} /\ overruns' = overruns
  <2>1. PICK r \in Strangers :
          Strangers' \subseteq (Strangers \ {r}) \cup {lock} /\ overruns' = overruns
    BY <1>5
  <2>2. /\ IsFiniteSet(Strangers \ {r})
        /\ Cardinality(Strangers \ {r}) = Cardinality(Strangers) - 1
    BY <1>2, FS_RemoveElement
  <2>3. /\ IsFiniteSet((Strangers \ {r}) \cup {lock})
        /\ Cardinality((Strangers \ {r}) \cup {lock}) <= Cardinality(Strangers)
    BY <1>2, <2>2, FS_AddElement
  <2>4. Cardinality((Strangers \ {r}) \cup {lock}) \in Nat
    BY <2>3, FS_CardinalityType
  <2>5. /\ Cardinality(Strangers') <= Cardinality((Strangers \ {r}) \cup {lock})
        /\ IsFiniteSet(Strangers')
    BY <2>1, <2>3, FS_Subset
  <2>6. Cardinality(Strangers') \in Nat
    BY <2>5, FS_CardinalityType
  <2> QED BY <1>1, <1>2, <2>1, <2>3, <2>4, <2>5, <2>6
<1> QED BY <1>3, <1>4, <1>5, StepOfStrangers DEF StrangerStep

\* However late the deletes come, at most one replica works beside the lock's holder for every
\* lock that expired under its holder.
THEOREM OverlapIsBounded == Spec => []OverlapBounded
<1>1. Init => OverlapBounded
  <2> SUFFICES ASSUME Init PROVE OverlapBounded
    OBVIOUS
  <2>1. Active \ {lock} = {}
    BY DEF Init, Active
  <2>2. Cardinality({}) = 0
    BY FS_EmptySet
  <2> QED BY <2>1, <2>2 DEF Init, OverlapBounded
<1> QED BY <1>1, InitTypeInv, NextTypeInv, NextOverlap, PTL DEF Spec

-----------------------------------------------------------------------------
\* Jobs and clean-up delete the lock on every way out: a lock that is there belongs to a replica
\* at work, unless a Redis call failed or a process died.
THEOREM LockStandsForWork == Spec => []LockMeansWork
<1>1. Init => LockMeansWork
  BY DEF Init, LockMeansWork
<1>2. TypeInv /\ LockMeansWork /\ [Next]_vars => LockMeansWork'
  <2> SUFFICES ASSUME TypeOK, LockMeansWork, [Next]_vars PROVE LockMeansWork'
    BY DEF TypeInv
  <2> USE ReplicaAssumption DEF LockMeansWork, Active, TypeOK
  <2>1. CASE Expire
    BY <2>1 DEF Expire
  <2>2. ASSUME NEW r \in Replica, Start(r) PROVE LockMeansWork'
    BY <2>2 DEF Start
  <2>3. ASSUME NEW r \in Replica, Acquire(r) PROVE LockMeansWork'
    BY <2>3 DEF Acquire
  <2>4. ASSUME NEW r \in Replica, Work(r) PROVE LockMeansWork'
    BY <2>4 DEF Work
  <2>5. ASSUME NEW r \in Replica, Release(r) PROVE LockMeansWork'
    BY <2>5 DEF Release
  <2>6. ASSUME NEW r \in Replica, Retry(r) PROVE LockMeansWork'
    BY <2>6 DEF Retry
  <2>7. ASSUME NEW r \in Replica, AcquireFails(r) PROVE LockMeansWork'
    BY <2>7 DEF AcquireFails
  <2>8. ASSUME NEW r \in Replica, WorkFails(r) PROVE LockMeansWork'
    BY <2>8 DEF WorkFails
  <2>9. ASSUME NEW r \in Replica, ReleaseFails(r) PROVE LockMeansWork'
    BY <2>9 DEF ReleaseFails
  <2>10. ASSUME NEW r \in Replica, Restart(r) PROVE LockMeansWork'
    BY <2>10 DEF Restart
  <2>11. CASE UNCHANGED vars
    BY <2>11 DEF vars
  <2> QED BY <2>1, <2>2, <2>3, <2>4, <2>5, <2>6, <2>7, <2>8, <2>9, <2>10, <2>11 DEF Next, Step
<1> QED BY <1>1, <1>2, InitTypeInv, NextTypeInv, PTL DEF Spec

\* For jobs and clean-up the message is true: who skips leaves the work to another replica
\* that is at it.  (For monitors `SkipMeansOtherAtWork` is refuted: a retry meets its own lock.)
THEOREM SkipsAreJustified == Spec => [][service # "monitors" => SkipJustified]_vars
<1>1. TypeInv /\ LockMeansWork /\ [Next]_vars => [service # "monitors" => SkipJustified]_vars
  <2> SUFFICES ASSUME TypeOK, LockMeansWork, Next, service # "monitors",
                      NEW r \in Replica, pc[r] = "acquire", pc'[r] = "skipped", stale' = "no"
               PROVE  Active \ {r} # {}
    BY DEF TypeInv, SkipJustified
  <2>1. Acquire(r)
    \* The SET of the clean-up may also fail, but then it has become stale.
    BY DEF Next, Step, Start, Acquire, Work, Release, Retry, Expire, AcquireFails, WorkFails,
           ReleaseFails, Restart, Released, AfterError, TypeOK
  <2>2. lock # NoReplica /\ stale = "no"
    BY <2>1 DEF Acquire, TypeOK
  <2>3. lock \in Active /\ lock # r
    BY <2>2 DEF LockMeansWork, Active
  <2> QED BY <2>3
<1> QED BY <1>1, InitTypeInv, NextTypeInv, LockStandsForWork, PTL DEF Spec
=============================================================================
