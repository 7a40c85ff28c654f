----------------------------- MODULE JobStatus -----------------------------
(***************************************************************************)
(* The status of one job, computed from the rows of its runs by several    *)
(* writers, each of which reads the rows first and writes the job later:   *)
(* the scheduler and the routes, the capacity manager that promotes, the   *)
(* processors of the workers, the cancel route and the handler of stalled  *)
(* jobs.                                                                   *)
(***************************************************************************)
EXTENDS Integers, FiniteSets

CONSTANTS
  Run,
  Engines,    \* the job types a behaviour may be about
  MaxTries,   \* attempts of a run
  MaxCancels, \* bound: cancel requests
  MaxFaults   \* bound: failed queries, unprepared runs, dead workers

ASSUME RunAssumption == IsFiniteSet(Run)
ASSUME BoundAssumption ==
  /\ MaxTries \in Nat /\ MaxCancels \in Nat /\ MaxFaults \in Nat
  /\ Engines \subseteq {"playwright", "k6"}

VARIABLES
  engine,  \* jobs.jobType
  job,     \* jobs.status
  row,     \* runs.status
  trigger, \* where the trigger of a run is
  work,    \* where the task of a run is: held for a slot, waiting in BullMQ, or with a worker
  promo,   \* the status the replica that promoted a run has yet to write, or "no"
  own,     \* the status of its run a worker passes to updateJobStatus
  want,    \* the job status a worker computed and is about to write
  tries,   \* attempts a run has begun
  cancel,  \* whether a cancel request of a run is under way: "no", "asked"
  reaper,  \* the stalled handler: "idle", or "read" when it has ended rows
  cancels,
  why,     \* history: what may leave the job 'running' for good
  faults

vars == <<engine, job, row, trigger, work, promo, own, want, tries, cancel, reaper,
          cancels, why, faults>>

JobStatuses == {"pending", "running", "passed", "failed", "error"}
Ended == {"passed", "failed", "error"}
RunStatuses == Ended \cup {"queued", "running", "blocked"}
\* A trigger is "marked" (scheduler) or "routed" (route) before it submits the run, and "added"
\* or "queued" when the answer, 'running' or 'queued', is to be written to the row.
Submitting == {"marked", "routed"}
Triggers == {"none", "checked", "inserted", "throwing", "done", "added", "queued"} \cup Submitting
Works == {"none", "held", "waiting", "executing", "read", "write", "done"}
Reasons == {"blocked", "stale", "unprepared", "late", "lost"}

TypeOK ==
  /\ engine \in Engines
  /\ job \in JobStatuses
  /\ row \in [Run -> RunStatuses \cup {"none"}]
  /\ trigger \in [Run -> Triggers]
  /\ work \in [Run -> Works]
  /\ promo \in [Run -> {"no", "running", "failed"}]
  /\ own \in [Run -> Ended]
  /\ want \in [Run -> JobStatuses]
  /\ tries \in [Run -> 0 .. MaxTries]
  /\ cancel \in [Run -> {"no", "asked"}]
  /\ reaper \in {"idle", "read"}
  /\ cancels \in 0 .. MaxCancels
  /\ why \subseteq Reasons
  /\ faults \in 0 .. MaxFaults

\* Some runs are over, and the status of the job is that of one of them.
Init ==
  /\ engine \in Engines
  /\ row \in [Run -> Ended \cup {"none"}]
  /\ job \in IF \A r \in Run : row[r] = "none" THEN {"pending"}
             ELSE {row[r] : r \in Run} \ {"none"}
  /\ trigger = [r \in Run |-> IF row[r] = "none" THEN "none" ELSE "done"]
  /\ work = [r \in Run |-> IF row[r] = "none" THEN "none" ELSE "done"]
  /\ promo = [r \in Run |-> "no"]
  /\ own = [r \in Run |-> "error"]
  /\ want = [r \in Run |-> "pending"]
  /\ tries = [r \in Run |-> 0]
  /\ cancel = [r \in Run |-> "no"]
  /\ reaper = "idle"
  /\ cancels = 0 /\ why = {} /\ faults = 0

Fault == faults < MaxFaults /\ faults' = faults + 1

Note(reason) == why' = why \cup {reason}

Rows(f) == {f[r] : r \in Run} \ {"none"}

\* The task is over, and its attempts are forgotten with it.
Close(r) ==
  /\ work' = [work EXCEPT ![r] = "done"]
  /\ tries' = [tries EXCEPT ![r] = 0]

-----------------------------------------------------------------------------
(* The two aggregations.                                                   *)

AppStatusMutant(statuses) ==
  IF statuses = {} THEN "pending"
  ELSE IF "error" \in statuses THEN "error"
  ELSE IF "failed" \in statuses THEN "failed"
  ELSE IF "running" \in statuses THEN "running"
  ELSE IF statuses = {"passed"} THEN "passed"
  ELSE "error"
\* calculateJobStatus, of the app
AppStatus(statuses) ==
  IF statuses = {} THEN "pending"
  ELSE IF "error" \in statuses THEN "error"
  ELSE IF "failed" \in statuses THEN "failed"
  ELSE IF statuses \cap {"running", "queued"} # {} THEN "running"
  ELSE IF statuses = {"passed"} THEN "passed"
  ELSE "error"

\* DbService.updateJobStatus, of the worker
WorkerStatus(statuses) ==
  IF "error" \in statuses THEN "error"
  ELSE IF "failed" \in statuses THEN "failed"
  ELSE IF statuses = {"passed"} THEN "passed"
  ELSE "running"

SettledMutant(rows) == rows # {}
\* Whether no run is under way, as the processors see it: a blocked run is.
Settled(rows) == rows \subseteq Ended

\* updateJobStatus of the processors: the status of this run if it is the only one or no
\* other is under way, else the aggregation.
ComputedStatus(f, status) ==
  IF Settled(Rows(f)) \/ Cardinality({r \in Run : f[r] # "none"}) = 1
  THEN status
  ELSE WorkerStatus(Rows(f))

-----------------------------------------------------------------------------
(* Triggers: the scheduler, and the routes that run a job at once.         *)

\* The scheduler skips a job with a run in 'running'; a queued run does not stop it.
ScheduleCheck(r) ==
  /\ trigger[r] = "none"
  /\ \A s \in Run : row[s] # "running"
  /\ trigger' = [trigger EXCEPT ![r] = "checked"]
  /\ UNCHANGED <<engine, job, row, work, promo, own, want, tries, cancel, reaper, cancels, why, faults>>

ScheduleInsert(r) ==
  /\ trigger[r] = "checked"
  /\ row' = [row EXCEPT ![r] = "queued"]
  /\ trigger' = [trigger EXCEPT ![r] = "inserted"]
  /\ UNCHANGED <<engine, job, work, promo, own, want, tries, cancel, reaper, cancels, why, faults>>

MarkJobMutant(r) ==
  /\ trigger[r] = "inserted"
  /\ job' = "queued"
  /\ trigger' = [trigger EXCEPT ![r] = "marked"]
  /\ UNCHANGED <<engine, row, work, promo, own, want, tries, cancel, reaper, cancels, why, faults>>
\* The scheduler sets the job to 'running' with its next run time.
MarkJob(r) ==
  /\ trigger[r] = "inserted"
  /\ job' = "running"
  /\ trigger' = [trigger EXCEPT ![r] = "marked"]
  /\ UNCHANGED <<engine, row, work, promo, own, want, tries, cancel, reaper, cancels, why, faults>>

\* A route inserts the row and leaves the job as it is.
RouteInsert(r) ==
  /\ trigger[r] = "none"
  /\ row' = [row EXCEPT ![r] = "queued"]
  /\ trigger' = [trigger EXCEPT ![r] = "routed"]
  /\ UNCHANGED <<engine, job, work, promo, own, want, tries, cancel, reaper, cancels, why, faults>>

\* addJobToQueue finds a slot free: the run goes to BullMQ, the answer is 'running' ...
Admit(r) ==
  /\ trigger[r] \in Submitting
  /\ work' = [work EXCEPT ![r] = "waiting"]
  /\ trigger' = [trigger EXCEPT ![r] = "added"]
  /\ UNCHANGED <<engine, job, row, promo, own, want, tries, cancel, reaper, cancels, why, faults>>

\* ... or none: the run is held, the answer is 'queued'.  The scheduler does not write that one.
Hold(r) ==
  /\ trigger[r] \in Submitting
  /\ work' = [work EXCEPT ![r] = "held"]
  /\ trigger' = [trigger EXCEPT ![r] = IF @ = "routed" THEN "queued" ELSE "done"]
  /\ UNCHANGED <<engine, job, row, promo, own, want, tries, cancel, reaper, cancels, why, faults>>

\* Somebody will still write the row of the run.
OnItsWay(r) ==
  \/ work[r] \in {"held", "waiting", "executing"}
  \/ promo[r] # "no"
  \/ cancel[r] # "no"

\* The answer is written whatever the row says by now.  A 'queued' that comes after the last
\* write of everybody else stays.
WriteAnswer(r) ==
  /\ trigger[r] \in {"added", "queued"}
  /\ row' = [row EXCEPT ![r] = IF trigger[r] = "added" THEN "running" ELSE "queued"]
  /\ trigger' = [trigger EXCEPT ![r] = "done"]
  /\ why' = IF trigger[r] = "added" \/ OnItsWay(r) THEN why ELSE why \cup {"late"}
  /\ UNCHANGED <<engine, job, work, promo, own, want, tries, cancel, reaper, cancels, faults>>

\* No scripts, or the queue refuses: the row fails (the API-key route may leave it 'queued'),
\* the job stays as it was marked.
Unprepared(r) ==
  /\ trigger[r] \in Submitting
  /\ Fault /\ Note("unprepared")
  /\ row' \in {row, [row EXCEPT ![r] = "failed"]}
  /\ trigger' = [trigger EXCEPT ![r] = "done"]
  /\ UNCHANGED <<engine, job, work, promo, own, want, tries, cancel, reaper, cancels>>

\* A query of the scheduler throws: the job is set to 'error' ...
ScheduleThrows(r) ==
  /\ trigger[r] \in {"none", "checked", "inserted"}
  /\ Fault
  /\ job' = "error"
  /\ trigger' = [trigger EXCEPT ![r] = "throwing"]
  /\ UNCHANGED <<engine, row, work, promo, own, want, tries, cancel, reaper, cancels, why>>

\* ... and then every queued row of the job, whatever has become of the job.
FailQueuedRows(r) ==
  /\ trigger[r] = "throwing"
  /\ row' = [s \in Run |-> IF row[s] = "queued" THEN "error" ELSE row[s]]
  /\ trigger' = [trigger EXCEPT ![r] = "done"]
  /\ Note("lost")
  /\ UNCHANGED <<engine, job, work, promo, own, want, tries, cancel, reaper, cancels, faults>>

-----------------------------------------------------------------------------
(* The capacity manager: a run that was held gets a slot.                  *)

\* The promotion script and queue.add; where they part, see CancelRun.
Promote(r) ==
  /\ work[r] = "held"
  /\ work' = [work EXCEPT ![r] = "waiting"]
  /\ promo' = [promo EXCEPT ![r] = "running"]
  /\ UNCHANGED <<engine, job, row, trigger, own, want, tries, cancel, reaper, cancels, why, faults>>

\* Its data is missing and the row is left alone, or its queue is gone and the row will fail.
PromoteFails(r) ==
  /\ work[r] = "held"
  /\ Fault /\ Note("unprepared")
  /\ Close(r)
  /\ promo' \in {promo, [promo EXCEPT ![r] = "failed"]}
  /\ UNCHANGED <<engine, job, row, trigger, own, want, cancel, reaper, cancels>>

\* The row, whatever it says by now; the job is left alone.
PromoteWrite(r) ==
  /\ promo[r] # "no"
  /\ row' = [row EXCEPT ![r] = promo[r]]
  /\ promo' = [promo EXCEPT ![r] = "no"]
  /\ UNCHANGED <<engine, job, trigger, work, own, want, tries, cancel, reaper, cancels, why, faults>>

-----------------------------------------------------------------------------
(* The processors.                                                         *)

\* A k6 worker writes 'running', a Playwright worker leaves the row.
Start(r) ==
  /\ work[r] = "waiting"
  /\ tries[r] < MaxTries
  /\ tries' = [tries EXCEPT ![r] = @ + 1]
  /\ row' = IF engine = "k6" THEN [row EXCEPT ![r] = "running"] ELSE row
  /\ work' = [work EXCEPT ![r] = "executing"]
  /\ UNCHANGED <<engine, job, trigger, promo, own, want, cancel, reaper, cancels, why, faults>>

\* The spending limit: a Playwright worker goes on to the job status, a k6 worker writes it.
Block(r) ==
  /\ work[r] = "waiting"
  /\ tries[r] < MaxTries
  /\ row' = [row EXCEPT ![r] = "blocked"]
  /\ own' = [own EXCEPT ![r] = "error"]
  /\ IF engine = "k6"
     THEN job' = "error" /\ Close(r)
     ELSE /\ work' = [work EXCEPT ![r] = "read"]
          /\ tries' = [tries EXCEPT ![r] = @ + 1]
          /\ UNCHANGED job
  /\ Note("blocked")
  /\ UNCHANGED <<engine, trigger, promo, want, cancel, reaper, cancels, faults>>

\* A result or an error: the row.  A k6 execution that throws for a cancellation ends its row
\* as 'error', passes 'failed' on, and is not tried again.
Finish(r) ==
  /\ work[r] = "executing"
  /\ \/ \E s \in Ended :
          /\ row' = [row EXCEPT ![r] = s]
          /\ own' = [own EXCEPT ![r] = s]
          /\ UNCHANGED tries
     \/ /\ engine = "k6"
        /\ row' = [row EXCEPT ![r] = "error"]
        /\ own' = [own EXCEPT ![r] = "failed"]
        /\ tries' = [tries EXCEPT ![r] = MaxTries]
  /\ work' = [work EXCEPT ![r] = "read"]
  /\ UNCHANGED <<engine, job, trigger, promo, want, cancel, reaper, cancels, why, faults>>

\* getRunStatusesForJob
ReadRows(r) ==
  /\ work[r] = "read"
  /\ want' = [want EXCEPT ![r] = ComputedStatus(row, own[r])]
  /\ work' = [work EXCEPT ![r] = "write"]
  /\ UNCHANGED <<engine, job, row, trigger, promo, own, tries, cancel, reaper, cancels, why, faults>>

\* Its error is an empty list, on which "every run is over" holds.
ReadFails(r) ==
  /\ work[r] = "read"
  /\ Fault /\ Note("lost")
  /\ want' = [want EXCEPT ![r] = own[r]]
  /\ work' = [work EXCEPT ![r] = "write"]
  /\ UNCHANGED <<engine, job, row, trigger, promo, own, tries, cancel, reaper, cancels>>

\* A failed attempt that threw is tried again.
Leave(r) ==
  /\ own' = [own EXCEPT ![r] = "error"]
  /\ \/ Close(r)
     \/ /\ own[r] = "failed" /\ tries[r] < MaxTries
        /\ work' = [work EXCEPT ![r] = "waiting"]
        /\ UNCHANGED tries

\* The rows changed since they were read, in a way that matters.
Stale(value, current) == IF value = current THEN why ELSE why \cup {"stale"}

WriteJob(r) ==
  /\ work[r] = "write"
  /\ job' = want[r]
  /\ why' = Stale(want[r], ComputedStatus(row, own[r]))
  /\ want' = [want EXCEPT ![r] = "pending"]
  /\ Leave(r)
  /\ UNCHANGED <<engine, row, trigger, promo, cancel, reaper, cancels, faults>>

\* An update of the row or of the job fails: only logged.
WriteFails(r) ==
  /\ work[r] \in {"executing", "write"}
  /\ Fault /\ Note("lost")
  /\ IF work[r] = "write"
     THEN Leave(r)
     ELSE /\ \E s \in Ended : own' = [own EXCEPT ![r] = s]
          /\ work' = [work EXCEPT ![r] = "read"]
          /\ UNCHANGED tries
  /\ want' = [want EXCEPT ![r] = "pending"]
  /\ UNCHANGED <<engine, job, row, trigger, promo, cancel, reaper, cancels>>

\* The worker dies, once too often for the stalled job to be taken again.
Die(r) ==
  /\ work[r] \in {"executing", "read", "write"}
  /\ Fault /\ Note("lost")
  /\ Close(r)
  /\ own' = [own EXCEPT ![r] = "error"]
  /\ want' = [want EXCEPT ![r] = "pending"]
  /\ UNCHANGED <<engine, job, row, trigger, promo, cancel, reaper, cancels>>

-----------------------------------------------------------------------------
(* The cancel route.                                                       *)

\* canCancelRun; a waiting job is taken out of its queue, a run that is held out of the set, but
\* one that is promoted after the look into the queues is found in neither.
CancelRun(r) ==
  /\ cancel[r] = "no" /\ cancels < MaxCancels
  /\ row[r] \in {"queued", "running"}
  /\ cancel' = [cancel EXCEPT ![r] = "asked"]
  /\ cancels' = cancels + 1
  /\ \/ work[r] \in {"held", "waiting"} /\ Close(r)
     \/ work[r] # "waiting" /\ UNCHANGED <<work, tries>>
  /\ UNCHANGED <<engine, job, row, trigger, promo, own, want, reaper, why, faults>>

CancelCommitMutant(r) ==
  /\ cancel[r] = "asked"
  /\ row' = [row EXCEPT ![r] = "error"]
  /\ cancel' = [cancel EXCEPT ![r] = "no"]
  /\ UNCHANGED <<engine, job, trigger, work, promo, own, want, tries, reaper, cancels, why, faults>>
\* One transaction: the row, the rows of the job, the job.  It reads its own row as 'error', so
\* it does not matter when it reads the others.
CancelCommit(r) ==
  /\ cancel[r] = "asked"
  /\ row' = [row EXCEPT ![r] = "error"]
  /\ job' = AppStatus(Rows(row'))
  /\ cancel' = [cancel EXCEPT ![r] = "no"]
  /\ UNCHANGED <<engine, trigger, work, promo, own, want, tries, reaper, cancels, why, faults>>

-----------------------------------------------------------------------------
(* The handler of stalled jobs.                                            *)

\* 'running', and submitted long ago: startedAt is set with the row, a run may have been held or
\* waited most of that time, and its worker may still be on it.
Overdue == {r \in Run : row[r] = "running"}

ReapRowsMutant ==
  /\ reaper = "idle"
  /\ \E found \in (SUBSET Overdue) \ {{}} :
       row' = [r \in Run |-> IF r \in found THEN "error" ELSE row[r]]
  /\ reaper' = "idle"
  /\ UNCHANGED <<engine, job, trigger, work, promo, own, want, tries, cancel, cancels, why, faults>>
\* The rows are ended in one update; the status of their job follows.
ReapRows ==
  /\ reaper = "idle"
  /\ \E found \in (SUBSET Overdue) \ {{}} :
       row' = [r \in Run |-> IF r \in found THEN "error" ELSE row[r]]
  /\ reaper' = "read"
  /\ UNCHANGED <<engine, job, trigger, work, promo, own, want, tries, cancel, cancels, why, faults>>

\* The status follows from rows that were read before: it may be one they had before.
ReapWrite ==
  /\ reaper = "read"
  /\ \E status \in JobStatuses \ {"pending"} :
       /\ job' = status
       /\ why' = Stale(status, WorkerStatus(Rows(row)))
  /\ reaper' = "idle"
  /\ UNCHANGED <<engine, row, trigger, work, promo, own, want, tries, cancel, cancels, faults>>

-----------------------------------------------------------------------------
Trigger(r) ==
  \/ ScheduleInsert(r) \/ MarkJob(r) \/ Admit(r) \/ Hold(r)
  \/ WriteAnswer(r) \/ FailQueuedRows(r)
Work(r) == Start(r) \/ Finish(r) \/ ReadRows(r) \/ WriteJob(r)
Reap == ReapRows \/ ReapWrite

Next ==
  \/ Reap
  \/ \E r \in Run :
       \/ Trigger(r) \/ Promote(r) \/ PromoteWrite(r) \/ Work(r) \/ CancelCommit(r)
       \/ ScheduleCheck(r) \/ RouteInsert(r) \/ CancelRun(r) \/ Block(r)
       \/ Unprepared(r) \/ PromoteFails(r) \/ ScheduleThrows(r) \/ ReadFails(r) \/ WriteFails(r) \/ Die(r)

\* Handlers go on, held runs get their slot, workers take the jobs of their queues, the stalled
\* handler is a timer.
Fairness ==
  /\ WF_vars(Reap)
  /\ \A r \in Run :
       /\ WF_vars(Trigger(r)) /\ WF_vars(Promote(r)) /\ WF_vars(PromoteWrite(r))
       /\ WF_vars(Work(r)) /\ WF_vars(CancelCommit(r))

Spec == Init /\ [][Next]_vars /\ Fairness

\* Bound of the run: a behaviour is followed until a reason is noted.  JobSettles and
\* RunningJobIsInHand say nothing from there on.
Followed == why = {}

-----------------------------------------------------------------------------
(* Properties.                                                             *)

\* "Centralized to ensure consistent status calculation across the application": the app and
\* the worker agree on every combination of rows, but for blocked runs.
AggregatesAgree ==
  LET statuses == Rows(row)
  IN statuses # {} /\ "blocked" \notin statuses => AppStatus(statuses) = WorkerStatus(statuses)

\* "treat as running to avoid premature resolution": a processor resolves a job as passed only
\* if no other run is queued or running, unless it wrote what was no longer true.
NoPrematurePass ==
  [][\A r \in Run :
       /\ work[r] = "write" /\ work'[r] # "write"
       /\ job' = "passed" /\ job # "passed" /\ why' \cap {"stale", "lost"} = {}
       => \A s \in Run \ {r} : row[s] \notin {"queued", "running"}]_vars

Triggering == {"inserted", "throwing", "added", "queued"} \cup Submitting

\* Someone still has to act on the run: its trigger, the capacity manager, its worker, its cancel
\* request, or the stalled handler, which comes for every row left 'running'.
InHand(r) ==
  \/ trigger[r] \in Triggering
  \/ OnItsWay(r)
  \/ work[r] \in {"read", "write"}
  \/ row[r] = "running"

\* No writer leaves the job 'running' behind it with nobody to end it: under the proviso of
\* JobSettles, and whatever the order of the writers, a run of a 'running' job is in hand or
\* the stalled handler is about to write the job.
RunningJobIsInHand == job = "running" /\ why = {} => reaper # "idle" \/ \E r \in Run : InHand(r)

\* A job does not stay 'running' when its runs are over, unless a run was blocked by the
\* spending limit, failed before it was in its queue, met a failed query or a dead worker, was
\* written 'queued' by its route after it had ended, or a writer wrote a status computed from
\* rows that had changed.
JobSettles == <>(why # {}) \/ <>[](job # "running")
=============================================================================
