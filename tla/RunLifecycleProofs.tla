------------------------- MODULE RunLifecycleProofs -------------------------
(***************************************************************************)
(* Theorems of RunLifecycle, for every set of workers and every bound on   *)
(* attempts, stalls and faults.                                            *)
(***************************************************************************)
EXTENDS RunLifecycle, FiniteSetTheorems, TLAPS

\* A run that was not submitted has no job; one in the sorted set has not been promoted; the
\* run being promoted is in no queue; only an active job is locked; a job that is not over
\* has attempts left.
JobInv ==
  /\ sub = "submit" => bull = "absent" /\ prom = "idle"
  /\ bull = "held" => prom = "idle"
  /\ prom = "fetch" => bull = "promoting"
  /\ owner # NoWorker => bull = "active"
  /\ bull # "finished" => fails < MaxAttempts

Inv == TypeOK /\ JobInv

LEMMA InitInv == Init => Inv /\ QueuedRowIsAccounted
  BY BoundAssumption DEF Init, Inv, TypeOK, JobInv, QueuedRowIsAccounted, PCs, Outcomes, Signals,
       JobStates, Final

LEMMA NextInv == Inv /\ [Next]_vars => Inv'
<1> SUFFICES ASSUME Inv, [Next]_vars PROVE Inv'
  OBVIOUS
<1> USE BoundAssumption, WorkerAssumption DEF Inv, TypeOK, JobInv, PCs, Outcomes, Signals, JobStates,
      Final, config, appVars, jobVars, cancelVars, Goto, Fault
<1>1. CASE Submit
  <2>1. CASE SubmitRun
    BY <2>1 DEF SubmitRun, AfterRefusal
  <2>2. CASE WriteAnswer
    BY <2>2 DEF WriteAnswer, AnswerToWrite, Writes
  <2> QED BY <1>1, <2>1, <2>2 DEF Submit
<1>2. CASE Promotion
  <2>1. CASE Promote
    BY <2>1 DEF Promote
  <2>2. CASE PromoteJob
    BY <2>2 DEF PromoteJob, PromoteFailed
  <2>3. CASE PromoteWrite
    BY <2>3 DEF PromoteWrite
  <2> QED BY <1>2, <2>1, <2>2, <2>3 DEF Promotion
<1>3. ASSUME NEW w \in Worker, PickUp(w) PROVE Inv'
  BY <1>3 DEF PickUp
<1>4. ASSUME NEW w \in Worker, Process(w) PROVE Inv'
  <2>1. CASE Check(w)
    BY <2>1 DEF Check
  <2>2. CASE AckCancel(w)
    BY <2>2 DEF AckCancel
  <2>3. CASE ClearSignal(w)
    BY <2>3 DEF ClearSignal
  <2>4. CASE Limit(w)
    BY <2>4 DEF Limit
  <2>5. CASE Execute(w)
    BY <2>5 DEF Execute
  <2>6. CASE ExecuteCancelled(w)
    BY <2>6 DEF ExecuteCancelled
  <2>7. CASE ExecuteThrows(w)
    BY <2>7 DEF ExecuteThrows
  <2>8. CASE WriteOutcome(w)
    BY <2>8 DEF WriteOutcome
  <2>9. CASE AfterRun(w)
    BY <2>9 DEF AfterRun
  <2>10. CASE WriteFailed(w)
    BY <2>10 DEF WriteFailed
  <2>11. CASE Return(w)
    BY <2>11 DEF Return
  <2>12. CASE Throw(w)
    BY <2>12 DEF Throw
  <2> QED BY <1>4, <2>1, <2>2, <2>3, <2>4, <2>5, <2>6, <2>7, <2>8, <2>9, <2>10, <2>11, <2>12
        DEF Process
<1>5. CASE BackoffOver
  BY <1>5 DEF BackoffOver
<1>6. CASE Stall
  BY <1>6 DEF Stall, GoBack
<1>7. CASE CancelAsk
  BY <1>7 DEF CancelAsk
<1>8. CASE Cancel
  <2>1. CASE CancelSignal
    BY <2>1 DEF CancelSignal
  <2>2. CASE CancelRemove
    BY <2>2 DEF CancelRemove
  <2>3. CASE CancelZrem
    BY <2>3 DEF CancelZrem
  <2>4. CASE CancelWrite
    BY <2>4 DEF CancelWrite
  <2> QED BY <1>8, <2>1, <2>2, <2>3, <2>4 DEF Cancel
<1>9. CASE SignalExpires
  BY <1>9 DEF SignalExpires
<1>10. CASE Reap
  BY <1>10 DEF Reap, ReapRead, ReapWrite
<1>11. CASE Faulty
  <2>1. CASE SubmitReplyLost
    BY <2>1 DEF SubmitReplyLost, AfterRefusal
  <2>2. CASE SubmitCrash
    BY <2>2 DEF SubmitCrash, Writes
  <2>3. CASE PromoteReplyLost
    BY <2>3 DEF PromoteReplyLost, PromoteFailed
  <2>4. CASE PromoteCrash
    BY <2>4 DEF PromoteCrash
  <2>5. CASE LockLost
    BY <2>5 DEF LockLost, GoBack
  <2>6. CASE CancelCrash
    BY <2>6 DEF CancelCrash
  <2>7. ASSUME NEW w \in Worker, WriteLost(w) \/ AfterRunThrows(w) \/ WorkerCrash(w) PROVE Inv'
    <3>1. CASE WriteLost(w)
      <4>1. AfterFailure(w) \subseteq PCs
        BY DEF AfterFailure
      <4> QED BY <3>1, <4>1 DEF WriteLost
    <3> QED BY <2>7, <3>1 DEF AfterRunThrows, WorkerCrash
  <2> QED BY <1>11, <2>1, <2>2, <2>3, <2>4, <2>5, <2>6, <2>7 DEF Faulty
<1>12. CASE UNCHANGED vars
  BY <1>12 DEF vars
<1> QED BY <1>1, <1>2, <1>3, <1>4, <1>5, <1>6, <1>7, <1>8, <1>9, <1>10, <1>11, <1>12 DEF Next

\* Every variable keeps its type: in particular BullMQ's attempts and stalls stay within their
\* limits whichever workers die, lose their lock or end late.
THEOREM TypeCorrect == Spec => []TypeOK
<1>1. Inv => TypeOK
  BY DEF Inv
<1> QED BY <1>1, InitInv, NextInv, PTL DEF Spec

-----------------------------------------------------------------------------
\* No step takes the last writer of a queued row away without stranding the run.
LEMMA NextQueuedRow ==
  Inv /\ QueuedRowIsAccounted /\ [Next]_vars => QueuedRowIsAccounted'
<1> SUFFICES ASSUME Inv, QueuedRowIsAccounted, [Next]_vars PROVE QueuedRowIsAccounted'
  OBVIOUS
<1> USE DEF Inv, JobInv, QueuedRowIsAccounted, Stranded, config, appVars, jobVars, cancelVars
<1>1. CASE Submit
  <2>1. CASE SubmitRun
    BY <2>1 DEF SubmitRun, AfterRefusal
  <2>2. CASE WriteAnswer
    <3>1. trigger \in {"route", "schedule"}
      BY DEF TypeOK
    <3> QED BY <2>2, <3>1 DEF WriteAnswer, AnswerToWrite, Writes
  <2> QED BY <1>1, <2>1, <2>2 DEF Submit
<1>2. CASE Promotion
  <2>1. CASE Promote
    BY <2>1 DEF Promote
  <2>2. CASE PromoteJob
    BY <2>2 DEF PromoteJob, PromoteFailed
  <2>3. CASE PromoteWrite
    BY <2>3 DEF PromoteWrite
  <2> QED BY <1>2, <2>1, <2>2, <2>3 DEF Promotion
<1>3. ASSUME NEW w \in Worker, PickUp(w) PROVE QueuedRowIsAccounted'
  BY <1>3 DEF PickUp
<1>4. ASSUME NEW w \in Worker, Process(w) PROVE QueuedRowIsAccounted'
  <2>1. CASE Return(w) \/ Throw(w)
    \* The worker ends the job only if it has the lock, and then the run is not in the set.
    <3>1. owner = w => bull = "active"
      BY WorkerAssumption
    <3> QED BY <2>1, <3>1 DEF Return, Throw
  <2>2. CASE Check(w) \/ ClearSignal(w) \/ Execute(w) \/ ExecuteCancelled(w)
               \/ ExecuteThrows(w) \/ AfterRun(w)
    BY <2>2 DEF Check, ClearSignal, Execute, ExecuteCancelled, ExecuteThrows, AfterRun
  <2>3. CASE AckCancel(w) \/ Limit(w) \/ WriteOutcome(w) \/ WriteFailed(w)
    BY <2>3 DEF AckCancel, Limit, WriteOutcome, WriteFailed, Outcomes
  <2> QED BY <1>4, <2>1, <2>2, <2>3 DEF Process
<1>5. CASE BackoffOver
  BY <1>5 DEF BackoffOver
<1>6. CASE Stall
  BY <1>6 DEF Stall, GoBack
<1>7. CASE CancelAsk
  BY <1>7 DEF CancelAsk
<1>8. CASE Cancel
  <2>1. CASE CancelSignal
    BY <2>1 DEF CancelSignal
  <2>2. CASE CancelRemove
    BY <2>2 DEF CancelRemove
  <2>3. CASE CancelZrem
    BY <2>3 DEF CancelZrem
  <2>4. CASE CancelWrite
    BY <2>4 DEF CancelWrite
  <2> QED BY <1>8, <2>1, <2>2, <2>3, <2>4 DEF Cancel
<1>9. CASE SignalExpires
  BY <1>9 DEF SignalExpires
<1>10. CASE Reap
  BY <1>10 DEF Reap, ReapRead, ReapWrite
<1>11. CASE Faulty
  <2>1. CASE SubmitReplyLost \/ SubmitCrash
    BY <2>1 DEF SubmitReplyLost, SubmitCrash, AfterRefusal
  <2>2. CASE PromoteReplyLost \/ PromoteCrash
    BY <2>2 DEF PromoteReplyLost, PromoteCrash, PromoteFailed
  <2>3. CASE LockLost
    BY <2>3 DEF LockLost, GoBack
  <2>4. CASE CancelCrash
    BY <2>4 DEF CancelCrash
  <2>5. ASSUME NEW w \in Worker, WriteLost(w) \/ AfterRunThrows(w) \/ WorkerCrash(w)
        PROVE QueuedRowIsAccounted'
    BY <2>5 DEF WriteLost, AfterRunThrows, WorkerCrash
  <2> QED BY <1>11, <2>1, <2>2, <2>3, <2>4, <2>5 DEF Faulty
<1>12. CASE UNCHANGED vars
  BY <1>12 DEF vars
<1> QED BY <1>1, <1>2, <1>3, <1>4, <1>5, <1>6, <1>7, <1>8, <1>9, <1>10, <1>11, <1>12 DEF Next

\* No run is forgotten as 'queued': while its row says so, the run waits in the sorted set or
\* somebody who will overwrite the row is still at work, or it was stranded in a known way.
THEOREM QueuedRowsAreAccounted == Spec => []QueuedRowIsAccounted
<1> QED BY InitInv, NextInv, NextQueuedRow, PTL DEF Spec

-----------------------------------------------------------------------------
(* Who executes the run.                                                   *)

\* The workers without the lock that are still busy with the run grow only when a lock is
\* lost; stalls, faults and the end of the job are never taken back.
NoNewZombie ==
  /\ Zombies' \subseteq Zombies
  /\ stalls' = stalls \/ (stalls < MaxStalls /\ stalls' = stalls + 1)
  /\ faults' = faults \/ faults' = faults + 1
  /\ bull = "finished" => bull' = "finished"

\* A processor that goes on keeps or gives up its place, whoever has the lock.
LEMMA GotoZombies ==
  ASSUME TypeOK, NEW w \in Worker, pc[w] # "idle", NEW l, Goto(w, l), UNCHANGED owner
  PROVE  Zombies' \subseteq Zombies
  BY DEF TypeOK, Goto, Zombies, Executing

LEMMA NextZombies == Inv /\ [Next]_vars => NoNewZombie \/ LockLost
<1> SUFFICES ASSUME Inv, [Next]_vars, ~LockLost PROVE NoNewZombie
  OBVIOUS
<1>0. TypeOK /\ JobInv
  BY DEF Inv
<1>n. stalls \in Nat /\ faults \in Nat
  BY <1>0, BoundAssumption DEF TypeOK
<1> USE <1>n DEF NoNewZombie, config, appVars, jobVars, cancelVars, Fault
<1>a. (UNCHANGED <<pc, owner>>) => Zombies' \subseteq Zombies
  BY DEF Zombies, Executing
<1>1. CASE Submit
  BY <1>0, <1>1, <1>a DEF JobInv, Submit, SubmitRun, WriteAnswer
<1>2. CASE Promotion
  BY <1>0, <1>2, <1>a DEF JobInv, Promotion, Promote, PromoteJob, PromoteWrite
<1>3. ASSUME NEW w \in Worker, PickUp(w) PROVE NoNewZombie
  \* The worker that starts the run holds its lock.
  <2>1. Zombies' \subseteq Zombies
    <3>1. owner = NoWorker
      BY <1>0, <1>3 DEF JobInv, PickUp
    <3>2. Executing' \subseteq Executing \cup {w} /\ owner' = w
      BY <1>0, <1>3 DEF TypeOK, PickUp, Goto, Executing
    <3> QED BY <3>1, <3>2, WorkerAssumption DEF Zombies, Executing
  <2> QED BY <1>3, <2>1 DEF PickUp
<1>4. ASSUME NEW w \in Worker, Process(w) PROVE NoNewZombie
  <2>1. CASE Return(w) \/ Throw(w)
    <3>1. Executing' = Executing \ {w} /\ (owner = w \/ owner' = owner)
      BY <1>0, <2>1 DEF TypeOK, Return, Throw, Goto, Executing
    <3>2. Zombies' \subseteq Zombies
      BY <3>1 DEF Zombies
    <3>3. owner = w => bull = "active"
      BY <1>0, WorkerAssumption DEF JobInv
    <3> QED BY <2>1, <3>2, <3>3 DEF Return, Throw
  <2>2. CASE Check(w) \/ ClearSignal(w) \/ Execute(w) \/ ExecuteCancelled(w)
               \/ ExecuteThrows(w) \/ AfterRun(w)
    <3>1. pc[w] # "idle" /\ (\E l : Goto(w, l)) /\ UNCHANGED <<bull, owner, stalls, faults>>
      BY <2>2 DEF Check, ClearSignal, Execute, ExecuteCancelled, ExecuteThrows, AfterRun
    <3>2. Zombies' \subseteq Zombies
      BY <1>0, <3>1, GotoZombies
    <3> QED BY <3>1, <3>2
  <2>3. CASE AckCancel(w) \/ Limit(w) \/ WriteOutcome(w) \/ WriteFailed(w)
    <3>1. pc[w] # "idle" /\ (\E l : Goto(w, l)) /\ UNCHANGED <<bull, owner, stalls, faults>>
      BY <2>3 DEF AckCancel, Limit, WriteOutcome, WriteFailed, Outcomes
    <3>2. Zombies' \subseteq Zombies
      BY <1>0, <3>1, GotoZombies
    <3> QED BY <3>1, <3>2
  <2> QED BY <1>4, <2>1, <2>2, <2>3 DEF Process
<1>5. CASE BackoffOver
  BY <1>5, <1>a DEF BackoffOver
<1>6. CASE Stall
  \* The owner of the lock that expires is dead: nobody is left behind.
  <2>1. Zombies' \subseteq Zombies
    BY <1>0, <1>6 DEF TypeOK, Stall, GoBack, Zombies, Executing
  <2> QED BY <1>6, <2>1 DEF Stall, GoBack
<1>7. CASE CancelAsk
  BY <1>7, <1>a DEF CancelAsk
<1>8. CASE Cancel
  BY <1>8, <1>a DEF Cancel, CancelSignal, CancelRemove, CancelZrem, CancelWrite
<1>9. CASE SignalExpires
  BY <1>9, <1>a DEF SignalExpires
<1>10. CASE Reap
  BY <1>10, <1>a DEF Reap, ReapRead, ReapWrite
<1>11. CASE Faulty
  <2>1. CASE SubmitReplyLost \/ SubmitCrash \/ PromoteReplyLost \/ PromoteCrash \/ CancelCrash
    BY <1>0, <2>1, <1>a DEF JobInv, SubmitReplyLost, SubmitCrash, PromoteReplyLost, PromoteCrash,
         CancelCrash
  <2>2. ASSUME NEW w \in Worker, WriteLost(w) \/ AfterRunThrows(w) \/ WorkerCrash(w)
        PROVE  NoNewZombie
    <3>1. pc[w] # "idle" /\ (\E l : Goto(w, l)) /\ UNCHANGED <<bull, owner, stalls>>
      BY <2>2 DEF WriteLost, AfterRunThrows, WorkerCrash, Outcomes
    <3>2. Zombies' \subseteq Zombies
      BY <1>0, <3>1, GotoZombies
    <3> QED BY <2>2, <3>1, <3>2 DEF WriteLost, AfterRunThrows, WorkerCrash
  <2> QED BY <1>11, <2>1, <2>2 DEF Faulty
<1>12. CASE UNCHANGED vars
  BY <1>12, <1>a DEF vars
<1> QED BY <1>1, <1>2, <1>3, <1>4, <1>5, <1>6, <1>7, <1>8, <1>9, <1>10, <1>11, <1>12 DEF Next

\* Every lost lock leaves at most one worker behind, and is counted twice: as a fault, and as
\* a stall or as the end of the job.
Losses == stalls + IF bull = "finished" THEN 1 ELSE 0

ZombieInv ==
  /\ IsFiniteSet(Zombies)
  /\ Cardinality(Zombies) <= faults
  /\ Cardinality(Zombies) <= Losses

LEMMA InitZombies == Init => ZombieInv
<1> SUFFICES ASSUME Init PROVE ZombieInv
  OBVIOUS
<1>1. Zombies = {}
  BY DEF Init, Zombies, Executing
<1> QED BY <1>1, FS_EmptySet DEF Init, ZombieInv, Losses

LEMMA NextZombieInv == Inv /\ ZombieInv /\ [Next]_vars => ZombieInv'
<1> SUFFICES ASSUME Inv, ZombieInv, [Next]_vars PROVE ZombieInv'
  OBVIOUS
<1>1. stalls \in Nat /\ faults \in Nat /\ MaxStalls \in Nat
  BY BoundAssumption DEF Inv, TypeOK
<1>2. Cardinality(Zombies) \in Nat
  BY FS_CardinalityType DEF ZombieInv
<1>3. CASE NoNewZombie
  <2>1. IsFiniteSet(Zombies') /\ Cardinality(Zombies') <= Cardinality(Zombies)
    BY <1>3, FS_Subset DEF ZombieInv, NoNewZombie
  <2>2. Cardinality(Zombies') \in Nat
    BY <2>1, FS_CardinalityType
  <2>3. faults <= faults' /\ Losses <= Losses' /\ Losses \in Nat /\ Losses' \in Nat
        /\ faults' \in Nat
    BY <1>1, <1>3 DEF NoNewZombie, Losses
  <2> QED BY <1>1, <1>2, <2>1, <2>2, <2>3 DEF ZombieInv
<1>4. CASE LockLost
  <2>1. Zombies' \subseteq Zombies \cup {owner}
    BY <1>4 DEF LockLost, GoBack, Zombies, Executing
  <2>2. IsFiniteSet(Zombies \cup {owner})
        /\ Cardinality(Zombies \cup {owner}) <= Cardinality(Zombies) + 1
    BY <1>2, FS_AddElement DEF ZombieInv
  <2>3. IsFiniteSet(Zombies') /\ Cardinality(Zombies') <= Cardinality(Zombies \cup {owner})
    BY <2>1, <2>2, FS_Subset
  <2>4. Cardinality(Zombies') \in Nat /\ Cardinality(Zombies \cup {owner}) \in Nat
    BY <2>2, <2>3, FS_CardinalityType
  <2>5. faults' = faults + 1 /\ Losses' = Losses + 1 /\ Losses \in Nat
    BY <1>1, <1>4 DEF LockLost, GoBack, Fault, Losses
  <2> QED BY <1>1, <1>2, <2>2, <2>3, <2>4, <2>5 DEF ZombieInv
<1> QED BY <1>3, <1>4, NextZombies

\* A finished job has no lock, so all who still execute its run are among the zombies;
\* before that there is the owner of the lock as well.
LEMMA ZombiesBoundExecutors == Inv /\ ZombieInv => ExecutorsBounded
<1> SUFFICES ASSUME Inv, ZombieInv PROVE ExecutorsBounded
  OBVIOUS
<1>1. stalls \in Nat /\ Cardinality(Zombies) \in Nat
  BY BoundAssumption, FS_CardinalityType DEF Inv, TypeOK, ZombieInv
<1>2. CASE bull = "finished"
  <2>1. Executing = Zombies
    BY <1>2, WorkerAssumption DEF Inv, JobInv, Zombies, Executing
  <2> QED BY <1>1, <1>2, <2>1 DEF ZombieInv, Losses, ExecutorsBounded
<1>3. CASE bull # "finished"
  <2>1. Executing \subseteq Zombies \cup {owner}
    BY DEF Zombies
  <2>2. IsFiniteSet(Zombies \cup {owner})
        /\ Cardinality(Zombies \cup {owner}) <= Cardinality(Zombies) + 1
    BY <1>1, FS_AddElement DEF ZombieInv
  <2>3. IsFiniteSet(Executing) /\ Cardinality(Executing) <= Cardinality(Zombies \cup {owner})
    BY <2>1, <2>2, FS_Subset
  <2>4. Cardinality(Executing) \in Nat /\ Cardinality(Zombies \cup {owner}) \in Nat
    BY <2>2, <2>3, FS_CardinalityType
  <2> QED BY <1>1, <1>3, <2>2, <2>3, <2>4 DEF ZombieInv, Losses, ExecutorsBounded
<1> QED BY <1>2, <1>3

\* Whatever fails, two workers execute the run at once only after a lock was lost, one more
\* for each, and never more than the tolerated stalls and one: for any number of workers.
THEOREM ExecutorsAreBounded == Spec => []ExecutorsBounded
<1> QED BY InitInv, NextInv, InitZombies, NextZombieInv, ZombiesBoundExecutors, PTL DEF Spec

-----------------------------------------------------------------------------
(* What no worker has touched.                                             *)

Unborn == {"queued", "running", "error", "failed"}

\* FreshJobIsUntouched wherever the job is before its first attempt; a job waits for another
\* attempt only after one has failed.
FreshInv ==
  /\ (bull \notin {"active", "finished"} /\ fails = 0 /\ stalls = 0) =>
       (Executing = {} /\ row \in Unborn)
  /\ bull = "delayed" => fails > 0

LEMMA NextFresh == Inv /\ FreshInv /\ [Next]_vars => FreshInv'
<1> SUFFICES ASSUME Inv, FreshInv, [Next]_vars PROVE FreshInv'
  OBVIOUS
<1>0. TypeOK /\ JobInv
  BY DEF Inv
<1>n. stalls \in Nat /\ fails \in Nat /\ MaxStalls \in Nat
  BY <1>0, BoundAssumption DEF TypeOK
<1> USE <1>n DEF FreshInv, Unborn, config, appVars, jobVars, cancelVars
<1>a. (UNCHANGED pc) => Executing' = Executing
  BY DEF Executing
<1>1. CASE Submit
  BY <1>0, <1>1, <1>a DEF JobInv, Submit, SubmitRun, WriteAnswer, AnswerToWrite, Writes
<1>2. CASE Promotion
  BY <1>0, <1>2, <1>a DEF JobInv, Promotion, Promote, PromoteJob, PromoteWrite
<1>3. ASSUME NEW w \in Worker, PickUp(w) PROVE FreshInv'
  BY <1>3 DEF PickUp
<1>4. ASSUME NEW w \in Worker, Process(w) PROVE FreshInv'
  <2>1. pc[w] # "idle"
    BY <1>4 DEF Process, Check, AckCancel, ClearSignal, Limit, Execute, ExecuteCancelled,
         ExecuteThrows, WriteOutcome, AfterRun, WriteFailed, Return, Throw, Outcomes
  <2>2. ~(bull \notin {"active", "finished"} /\ fails = 0 /\ stalls = 0)
    BY <2>1 DEF Executing
  <2>3. CASE Return(w) \/ Throw(w)
    BY <2>2, <2>3 DEF Return, Throw
  <2>4. CASE ~(Return(w) \/ Throw(w))
    <3>1. UNCHANGED jobVars
      BY <1>4, <2>4 DEF Process, Check, AckCancel, ClearSignal, Limit, Execute, ExecuteCancelled,
           ExecuteThrows, WriteOutcome, AfterRun, WriteFailed
    <3> QED BY <2>2, <3>1
  <2> QED BY <2>3, <2>4
<1>5. CASE BackoffOver
  BY <1>5 DEF BackoffOver
<1>6. CASE Stall \/ LockLost
  BY <1>6 DEF Stall, LockLost, GoBack
<1>7. CASE CancelAsk \/ SignalExpires
  BY <1>7, <1>a DEF CancelAsk, SignalExpires
<1>8. CASE Cancel
  BY <1>8, <1>a DEF Cancel, CancelSignal, CancelRemove, CancelZrem, CancelWrite
<1>9. CASE Reap
  BY <1>9, <1>a DEF Reap, ReapRead, ReapWrite
<1>10. CASE SubmitReplyLost \/ SubmitCrash \/ PromoteReplyLost \/ PromoteCrash \/ CancelCrash
  BY <1>0, <1>10, <1>a DEF JobInv, SubmitReplyLost, SubmitCrash, PromoteReplyLost, PromoteCrash,
       CancelCrash
<1>11. ASSUME NEW w \in Worker, WriteLost(w) \/ AfterRunThrows(w) \/ WorkerCrash(w)
       PROVE  FreshInv'
  <2>1. pc[w] # "idle" /\ UNCHANGED jobVars
    BY <1>11 DEF WriteLost, AfterRunThrows, WorkerCrash, Outcomes
  <2> QED BY <2>1 DEF Executing
<1>12. CASE UNCHANGED vars
  BY <1>12, <1>a DEF vars
<1> QED BY <1>1, <1>2, <1>3, <1>4, <1>5, <1>6, <1>7, <1>8, <1>9, <1>10, <1>11, <1>12
     DEF Next, Faulty

\* A run that is taken out of a queue before its first attempt has never been executed and
\* shows no outcome: withdrawing it loses no result.
THEOREM FreshJobsAreUntouched == Spec => []FreshJobIsUntouched
<1>1. Init => FreshInv
  BY DEF Init, FreshInv, Executing, Unborn
<1>2. FreshInv => FreshJobIsUntouched
  BY DEF FreshInv, FreshJobIsUntouched, Unborn
<1> QED BY <1>1, <1>2, InitInv, NextInv, NextFresh, PTL DEF Spec
=============================================================================
