---------------------------- MODULE RunLifecycle ----------------------------
(***************************************************************************)
(* The life of one run: its row in `runs`, the request or schedule that    *)
(* submits it, its promotion, its BullMQ job with retries and stalls, the  *)
(* processors of the workers, a cancel request with its Redis signal, and  *)
(* the handler of stalled runs.  None of the writers of the row looks at   *)
(* what the others wrote.  Which slot the run takes is CapacityManager's   *)
(* concern: here it is admitted, held back or refused at any time.         *)
(***************************************************************************)
EXTENDS Integers, FiniteSets

CONSTANTS
  Worker,       \* worker processes
  MaxAttempts,  \* attempts of a BullMQ job
  MaxStalls,    \* maxStalledCount of the BullMQ workers
  MaxFaults,    \* bound: crashes, lost replies, lost locks, failed writes
  NoWorker

ASSUME WorkerAssumption == NoWorker \notin Worker
ASSUME BoundAssumption == MaxAttempts \in Nat \ {0} /\ MaxStalls \in Nat /\ MaxFaults \in Nat

VARIABLES
  trigger,   \* who submits the run: a route, or the job scheduler
  kind,      \* what it executes: a single test, a Playwright job, or k6
  row,       \* runs.status
  sub,       \* the submission; "running", "queued", "failed": the status it will write
  prom,      \* the replica that promotes the run; "running", "failed": the status it will write
  bull,      \* where the run's job is: sorted set, BullMQ, or nowhere
  owner,     \* the worker that holds the lock of the active job
  fails,     \* attemptsMade
  stalls,    \* stalledCounter
  pc,        \* each worker's processor; an outcome: the status it will write
  signal,    \* the key supercheck:cancel:{runId}
  cancel,    \* the cancel request
  reaper,    \* the stalled job handler; "reap": it has read the row as running for too long
  faults

config == <<trigger, kind>>
appVars == <<sub, prom>>
jobVars == <<bull, owner, fails, stalls>>
cancelVars == <<signal, cancel>>
vars == <<config, row, appVars, jobVars, pc, cancelVars, reaper, faults>>

Final == {"passed", "failed", "error", "blocked"}
JobStates == {"absent", "held", "promoting", "dropped",
              "waiting", "active", "delayed", "finished", "removed"}
Signals == {"set", "unset"}
Outcomes == {"passed", "failed", "error"}
PCs == {"idle", "check", "ack", "clear", "limit", "execute", "after",
        "return", "fail", "throw"} \cup Outcomes

TypeOK ==
  /\ trigger \in {"route", "schedule"}
  /\ kind \in {"test", "job", "k6"}
  /\ row \in {"queued", "running"} \cup Final
  /\ sub \in {"submit", "running", "queued", "failed", "refused", "done", "late", "crashed"}
  /\ prom \in {"idle", "fetch", "running", "failed", "done", "crashed"}
  /\ bull \in JobStates
  /\ owner \in Worker \cup {NoWorker}
  /\ fails \in 0 .. MaxAttempts
  /\ stalls \in 0 .. MaxStalls
  /\ pc \in [Worker -> PCs]
  /\ signal \in Signals
  /\ cancel \in {"none", "signal", "remove", "zrem", "row", "done", "crashed"}
  /\ reaper \in {"idle", "reap"}
  /\ faults \in 0 .. MaxFaults

\* The row is inserted as 'queued' before anything else happens to the run.
Init ==
  /\ trigger \in {"route", "schedule"}
  /\ kind \in IF trigger = "route" THEN {"test", "job", "k6"} ELSE {"job", "k6"}
  /\ row = "queued"
  /\ sub = "submit"
  /\ prom = "idle"
  /\ bull = "absent"
  /\ owner = NoWorker
  /\ fails = 0
  /\ stalls = 0
  /\ pc = [w \in Worker |-> "idle"]
  /\ signal = "unset"
  /\ cancel = "none"
  /\ reaper = "idle"
  /\ faults = 0

Fault == faults < MaxFaults /\ faults' = faults + 1

-----------------------------------------------------------------------------
(* Submission: the routes that create runs and the job scheduler.          *)

\* What follows when the add function throws or the scripts cannot be prepared.  The routes of
\* single tests never touch the row then, the API-key route only if the capacity is exhausted.
AfterRefusal ==
  IF trigger = "schedule" THEN {"failed"}
  ELSE IF kind = "test" THEN {"refused"}
  ELSE {"failed", "refused"}

\* The add function answers 'running' (job in BullMQ), 'queued' (run in the sorted set) or throws.
SubmitRun ==
  /\ sub = "submit"
  /\ \/ bull' = "waiting" /\ sub' = "running"
     \/ bull' = "held" /\ sub' = "queued"
     \/ UNCHANGED bull /\ sub' \in AfterRefusal
  /\ UNCHANGED <<config, row, prom, owner, fails, stalls, pc, cancelVars, reaper, faults>>

\* queue.add threw although the job had been added.
SubmitReplyLost ==
  /\ sub = "submit"
  /\ bull' = "waiting"
  /\ sub' \in AfterRefusal
  /\ Fault
  /\ UNCHANGED <<config, row, prom, owner, fails, stalls, pc, cancelVars, reaper>>

Writes == {"running", "queued", "failed"}

\* A route writes any answer; the scheduler leaves 'queued' as it was inserted.
AnswerToWrite == IF trigger = "schedule" /\ sub = "queued" THEN row ELSE sub

\* "late" remembers that a route wrote 'queued' over a run that had left the set.
WriteAnswer ==
  /\ sub \in Writes
  /\ row' = AnswerToWrite
  /\ sub' = IF trigger = "route" /\ sub = "queued" /\ bull # "held" THEN "late" ELSE "done"
  /\ UNCHANGED <<config, prom, jobVars, pc, cancelVars, reaper, faults>>

SubmitCrash ==
  /\ sub \in Writes \cup {"submit"}
  /\ sub' = "crashed"
  /\ Fault
  /\ UNCHANGED <<config, row, prom, jobVars, pc, cancelVars, reaper>>

Submit == SubmitRun \/ WriteAnswer

-----------------------------------------------------------------------------
(* Promotion: promoteJob and addJobToBullMQ.                               *)

Promote ==
  /\ bull = "held"
  /\ bull' = "promoting"
  /\ prom' = "fetch"
  /\ UNCHANGED <<config, row, sub, owner, fails, stalls, pc, cancelVars, reaper, faults>>

PromoteFailedMutant == "done"
\* What is left to do for a run that could not be added to BullMQ.
PromoteFailed == "failed"

\* The job is added; or its data is missing and the run is given up; or no queue takes it.
PromoteJob ==
  /\ prom = "fetch"
  /\ \/ bull' = "waiting" /\ prom' = "running"
     \/ bull' = "dropped" /\ prom' = "done"
     \/ bull' = "absent" /\ prom' = PromoteFailed
  /\ UNCHANGED <<config, row, sub, owner, fails, stalls, pc, cancelVars, reaper, faults>>

PromoteReplyLost ==
  /\ prom = "fetch"
  /\ bull' = "waiting"
  /\ prom' = PromoteFailed
  /\ Fault
  /\ UNCHANGED <<config, row, sub, owner, fails, stalls, pc, cancelVars, reaper>>

PromoteWrite ==
  /\ prom \in {"running", "failed"}
  /\ row' = prom
  /\ prom' = "done"
  /\ UNCHANGED <<config, sub, jobVars, pc, cancelVars, reaper, faults>>

\* The replica stops, or its write fails and is only logged.
PromoteCrash ==
  /\ prom \in {"fetch", "running", "failed"}
  /\ prom' = "crashed"
  /\ Fault
  /\ UNCHANGED <<config, row, sub, jobVars, pc, cancelVars, reaper>>

Promotion == Promote \/ PromoteJob \/ PromoteWrite

-----------------------------------------------------------------------------
(* BullMQ and the processors: processTest, processJob and the K6 processor *)

Goto(w, l) == pc' = [pc EXCEPT ![w] = l]

PickUp(w) ==
  /\ bull = "waiting"
  /\ pc[w] = "idle"
  /\ bull' = "active"
  /\ owner' = w
  /\ Goto(w, IF kind = "test" THEN "limit" ELSE "check")
  /\ UNCHANGED <<config, row, appVars, fails, stalls, cancelVars, reaper, faults>>

\* isCancelled at pick-up (jobs and k6 only); a Redis error counts as "no".
Check(w) ==
  /\ pc[w] = "check"
  /\ \E l \in {"limit"} \cup (IF signal = "set" THEN {"ack"} ELSE {}) : Goto(w, l)
  /\ UNCHANGED <<config, row, appVars, jobVars, cancelVars, reaper, faults>>

\* Cancelled at pick-up: write the row, clear the signal, throw.
AckCancel(w) ==
  /\ pc[w] = "ack"
  /\ row' = "error"
  /\ Goto(w, "clear")
  /\ UNCHANGED <<config, appVars, jobVars, cancelVars, reaper, faults>>

\* An error of the DEL is logged.
ClearSignal(w) ==
  /\ pc[w] = "clear"
  /\ signal' \in {signal, "unset"}
  /\ Goto(w, "throw")
  /\ UNCHANGED <<config, row, appVars, jobVars, cancel, reaper, faults>>

\* shouldBlockExecution; only the K6 processor marks the row as running.
Limit(w) ==
  /\ pc[w] = "limit"
  /\ \/ row' = "blocked" /\ Goto(w, "return")
     \/ row' = (IF kind = "k6" THEN "running" ELSE row) /\ Goto(w, "execute")
  /\ UNCHANGED <<config, appVars, jobVars, cancelVars, reaper, faults>>

\* The tests end by themselves; k6 reports a time-out or a broken run as 'error'.
Execute(w) ==
  /\ pc[w] = "execute"
  /\ \E o \in {"passed", "failed"} \cup (IF kind = "k6" THEN {"error"} ELSE {}) : Goto(w, o)
  /\ UNCHANGED <<config, row, appVars, jobVars, cancelVars, reaper, faults>>

\* The container's poller kills the execution and clears the signal; the Playwright
\* service looks before it starts the container and leaves the signal.
ExecuteCancelled(w) ==
  /\ pc[w] = "execute"
  /\ signal = "set"
  /\ signal' \in IF kind = "k6" THEN {"unset"} ELSE Signals
  /\ Goto(w, "error")
  /\ UNCHANGED <<config, row, appVars, jobVars, cancel, reaper, faults>>

ExecuteThrows(w) ==
  /\ pc[w] = "execute"
  /\ Goto(w, "fail")
  /\ UNCHANGED <<config, row, appVars, jobVars, cancelVars, reaper, faults>>

\* The Playwright service and its processor both write this status.
WriteOutcome(w) ==
  /\ pc[w] \in Outcomes
  /\ row' = pc[w]
  /\ Goto(w, "after")
  /\ UNCHANGED <<config, appVars, jobVars, cancelVars, reaper, faults>>

\* Where an attempt goes when a query of it fails: the Playwright processor logs failed
\* writes of the row, the K6 processor does not catch them.
AfterFailure(w) ==
  CASE pc[w] = "ack"   -> {IF kind = "k6" THEN "throw" ELSE "clear"}
    [] pc[w] = "limit" -> [test |-> {"return", "fail"}, job |-> {"return", "throw"},
                           k6 |-> {"throw", "fail"}][kind]
    [] pc[w] = "fail"  -> {"throw"}
    [] OTHER           -> {IF kind = "k6" THEN "fail" ELSE "after"}

WriteLost(w) ==
  /\ pc[w] \in Outcomes \cup {"ack", "limit", "fail"}
  /\ \E l \in AfterFailure(w) : Goto(w, l)
  /\ Fault
  /\ UNCHANGED <<config, row, appVars, jobVars, cancelVars, reaper>>

\* Job status, lastRunAt and notifications.
AfterRun(w) ==
  /\ pc[w] = "after"
  /\ Goto(w, "return")
  /\ UNCHANGED <<config, row, appVars, jobVars, cancelVars, reaper, faults>>

\* One of them throws: the processor takes its catch block.
AfterRunThrows(w) ==
  /\ pc[w] = "after" /\ kind # "test"
  /\ Goto(w, "fail")
  /\ Fault
  /\ UNCHANGED <<config, row, appVars, jobVars, cancelVars, reaper>>

WriteFailed(w) ==
  /\ pc[w] = "fail"
  /\ row' = "failed"
  /\ Goto(w, "throw")
  /\ UNCHANGED <<config, appVars, jobVars, cancelVars, reaper, faults>>

\* Only the worker that still holds the lock ends the job.
Return(w) ==
  /\ pc[w] = "return"
  /\ IF owner = w
     THEN bull' = "finished" /\ owner' = NoWorker
     ELSE UNCHANGED <<bull, owner>>
  /\ Goto(w, "idle")
  /\ UNCHANGED <<config, row, appVars, fails, stalls, cancelVars, reaper, faults>>

ThrowMutant(w) ==
  /\ pc[w] = "throw"
  /\ IF owner = w
     THEN /\ fails' = fails + 1
          /\ bull' = "delayed"
          /\ owner' = NoWorker
     ELSE UNCHANGED <<bull, owner, fails>>
  /\ Goto(w, "idle")
  /\ UNCHANGED <<config, row, appVars, stalls, cancelVars, reaper, faults>>
\* BullMQ tries again until the attempts are used up.
Throw(w) ==
  /\ pc[w] = "throw"
  /\ IF owner = w
     THEN /\ fails' = fails + 1
          /\ bull' = IF fails' < MaxAttempts THEN "delayed" ELSE "finished"
          /\ owner' = NoWorker
     ELSE UNCHANGED <<bull, owner, fails>>
  /\ Goto(w, "idle")
  /\ UNCHANGED <<config, row, appVars, stalls, cancelVars, reaper, faults>>

BackoffOver ==
  /\ bull = "delayed"
  /\ bull' = "waiting"
  /\ UNCHANGED <<config, row, appVars, owner, fails, stalls, pc, cancelVars, reaper, faults>>

WorkerCrash(w) ==
  /\ pc[w] # "idle"
  /\ Goto(w, "idle")
  /\ Fault
  /\ UNCHANGED <<config, row, appVars, jobVars, cancelVars, reaper>>

\* A stalled job waits again until the tolerated stalls are used up.
GoBack ==
  /\ owner' = NoWorker
  /\ IF stalls < MaxStalls
     THEN bull' = "waiting" /\ stalls' = stalls + 1
     ELSE bull' = "finished" /\ UNCHANGED stalls

\* A faulty variant: locks that are not renewed and end before the execution does.
StallMutant ==
  /\ bull = "active"
  /\ GoBack
  /\ UNCHANGED <<config, row, appVars, fails, pc, cancelVars, reaper, faults>>
\* The lock of a dead worker expires.
Stall ==
  /\ bull = "active"
  /\ owner # NoWorker /\ pc[owner] = "idle"
  /\ GoBack
  /\ UNCHANGED <<config, row, appVars, fails, pc, cancelVars, reaper, faults>>

\* The lock of a worker that goes on working expires: two workers execute the run.
LockLost ==
  /\ bull = "active"
  /\ GoBack
  /\ Fault
  /\ UNCHANGED <<config, row, appVars, fails, pc, cancelVars, reaper>>

Process(w) ==
  \/ Check(w)
  \/ AckCancel(w)
  \/ ClearSignal(w)
  \/ Limit(w)
  \/ Execute(w)
  \/ ExecuteCancelled(w)
  \/ ExecuteThrows(w)
  \/ WriteOutcome(w)
  \/ AfterRun(w)
  \/ WriteFailed(w)
  \/ Return(w)
  \/ Throw(w)

-----------------------------------------------------------------------------
(* The cancel route and the time to live of its signal.                    *)

CanCancelRun == row \in {"queued", "running"}

CancelAsk ==
  /\ cancel = "none"
  /\ CanCancelRun
  /\ cancel' = "signal"
  /\ UNCHANGED <<config, row, appVars, jobVars, pc, signal, reaper, faults>>

\* STEP 1; a failure is logged and the request goes on.
CancelSignal ==
  /\ cancel = "signal"
  /\ signal' \in {signal, "set"}
  /\ cancel' = "remove"
  /\ UNCHANGED <<config, row, appVars, jobVars, pc, reaper, faults>>

CancelRemoveMutant ==
  /\ cancel = "remove"
  /\ bull' = IF bull \in {"waiting", "delayed", "active"} THEN "removed" ELSE bull
  /\ cancel' = IF bull \in {"waiting", "delayed", "active"} THEN "row" ELSE "zrem"
  /\ UNCHANGED <<config, row, appVars, owner, fails, stalls, pc, signal, reaper, faults>>
\* STEP 2; an active job is locked and stays.
CancelRemove ==
  /\ cancel = "remove"
  /\ bull' = IF bull \in {"waiting", "delayed"} THEN "removed" ELSE bull
  /\ cancel' = IF bull \in {"waiting", "delayed", "active"} THEN "row" ELSE "zrem"
  /\ UNCHANGED <<config, row, appVars, owner, fails, stalls, pc, signal, reaper, faults>>

\* STEP 2.5
CancelZrem ==
  /\ cancel = "zrem"
  /\ bull' = IF bull = "held" THEN "removed" ELSE bull
  /\ cancel' = "row"
  /\ UNCHANGED <<config, row, appVars, owner, fails, stalls, pc, signal, reaper, faults>>

CancelWriteMutant ==
  /\ cancel = "row"
  /\ row' = IF row = "running" THEN "error" ELSE row
  /\ cancel' = "done"
  /\ UNCHANGED <<config, appVars, jobVars, pc, signal, reaper, faults>>
\* STEP 3: whatever the row says by now.
CancelWrite ==
  /\ cancel = "row"
  /\ row' = "error"
  /\ cancel' = "done"
  /\ UNCHANGED <<config, appVars, jobVars, pc, signal, reaper, faults>>

CancelCrash ==
  /\ cancel \in {"signal", "remove", "zrem", "row"}
  /\ cancel' = "crashed"
  /\ Fault
  /\ UNCHANGED <<config, row, appVars, jobVars, pc, signal, reaper>>

SignalExpires ==
  /\ signal = "set"
  /\ signal' = "unset"
  /\ UNCHANGED <<config, row, appVars, jobVars, pc, cancel, reaper, faults>>

Cancel == CancelSignal \/ CancelRemove \/ CancelZrem \/ CancelWrite

-----------------------------------------------------------------------------
(* checkAndHandleStalledJobs.                                              *)

ReapReadMutant ==
  /\ reaper = "idle"
  /\ row = "running" /\ bull = "active"
  /\ reaper' = "reap"
  /\ UNCHANGED <<config, row, appVars, jobVars, pc, cancelVars, faults>>
\* The time since startedAt is over 80 minutes; a run may have spent it waiting in BullMQ.
ReapRead ==
  /\ reaper = "idle"
  /\ row = "running"
  /\ reaper' = "reap"
  /\ UNCHANGED <<config, row, appVars, jobVars, pc, cancelVars, faults>>

\* The update selects by id: the row may have ended since it was read.
ReapWrite ==
  /\ reaper = "reap"
  /\ row' = "error"
  /\ reaper' = "idle"
  /\ UNCHANGED <<config, appVars, jobVars, pc, cancelVars, faults>>

Reap == ReapRead \/ ReapWrite

-----------------------------------------------------------------------------
Faulty ==
  \/ SubmitReplyLost
  \/ SubmitCrash
  \/ PromoteReplyLost
  \/ PromoteCrash
  \/ LockLost
  \/ CancelCrash
  \/ \E w \in Worker : WriteLost(w) \/ AfterRunThrows(w) \/ WorkerCrash(w)

Next ==
  \/ Submit
  \/ Promotion
  \/ \E w \in Worker : PickUp(w) \/ Process(w)
  \/ BackoffOver
  \/ Stall
  \/ CancelAsk
  \/ Cancel
  \/ SignalExpires
  \/ Reap
  \/ Faulty

\* What was started goes on, timers fire, queues are served.  Nobody must cancel.
Fairness ==
  /\ WF_vars(Submit)
  /\ WF_vars(Promotion)
  /\ WF_vars(\E w \in Worker : PickUp(w))
  /\ \A w \in Worker : WF_vars(Process(w))
  /\ WF_vars(BackoffOver)
  /\ WF_vars(Stall)
  /\ WF_vars(Cancel)
  /\ WF_vars(Reap)

Spec == Init /\ [][Next]_vars /\ Fairness

-----------------------------------------------------------------------------
(* Properties.                                                             *)

\* What leaves a run without anyone to end it: a route that refused it and left its row alone
\* or wrote 'queued' late, a promotion that found no data, a request or replica that stopped
\* half-way.
Stranded ==
  \/ sub \in {"refused", "late", "crashed"}
  \/ prom = "crashed"
  \/ cancel = "crashed"
  \/ bull = "dropped"

\* A row is 'queued' only while the run waits for a slot or while the request, the
\* promotion or the cancel request that will overwrite it is still at work: the stalled job
\* handler, which looks at running rows only, need not care for queued ones.
QueuedRowIsAccounted ==
  row = "queued" =>
    \/ sub \in {"submit", "running", "failed"}
    \/ bull = "held"
    \/ prom \in {"fetch", "running", "failed"}
    \/ cancel = "row"
    \/ Stranded

\* The workers busy with the run, and those among them that have lost its lock.
Executing == {w \in Worker : pc[w] # "idle"}
Zombies == Executing \ {owner}

\* The run is executed by more than one worker only at the price of lost locks: a worker
\* without the lock has cost a fault of its own, and however many locks get lost, no more
\* workers are on the run at once than it has stalls, and one.  Neither retries, crashes nor
\* a cancel request that removes the job add another.
ExecutorsBounded ==
  /\ Cardinality(Zombies) <= faults
  /\ Cardinality(Executing) <= stalls + 1

\* A job that waits or was removed with no attempt and no stall to its name has never been
\* with a worker: nobody executes the run and its row has no outcome of an execution.  This
\* is why taking a run out of a queue is enough to cancel it.
FreshJobIsUntouched ==
  (bull \in {"waiting", "removed"} /\ fails = 0 /\ stalls = 0) =>
    (Executing = {} /\ row \in {"queued", "running", "error", "failed"})

\* Through retries, stalls, dead workers, failed writes, zombies and cancel requests: the row
\* ends with a final status for good, unless the run was stranded in one of the known ways.
RowEnds == []~Stranded => <>[](row \in Final)

\* A run that a cancel request takes out of a queue before any worker has it ends for good as
\* 'error' ('failed' if its submission or promotion lost a reply), whatever the submitting
\* request, the promoting replica and the handler still write.
WithdrawnStaysEnded ==
  []~Stranded =>
    ((bull = "removed" /\ fails = 0 /\ stalls = 0) ~> [](row \in {"error", "failed"}))

\* "For cancellations, return a result instead of throwing to prevent BullMQ retry": once an
\* attempt has acted on the cancel signal, no attempt executes the run.
CancelledNotExecuted ==
  \A w \in Worker :
    [](pc[w] = "clear" => [](\A v \in Worker : pc[v] # "execute"))
=============================================================================
