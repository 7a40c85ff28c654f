-------------------------- MODULE JobStatusProofs --------------------------
(***************************************************************************)
(* Theorems of JobStatus, for every finite set of runs and every bound on  *)
(* attempts, cancel requests and faults.                                   *)
(***************************************************************************)
EXTENDS JobStatus, FiniteSetTheorems, TLAPS

LEMMA RowsType ==
  ASSUME NEW f \in [Run -> RunStatuses \cup {"none"}]
  PROVE Rows(f) \subseteq RunStatuses
  BY DEF Rows

LEMMA AppStatusType ==
  ASSUME NEW statuses \in SUBSET RunStatuses
  PROVE AppStatus(statuses) \in JobStatuses
  BY DEF AppStatus, JobStatuses

LEMMA WorkerStatusType ==
  ASSUME NEW statuses \in SUBSET RunStatuses
  PROVE WorkerStatus(statuses) \in JobStatuses \ {"pending"}
  BY DEF WorkerStatus, JobStatuses

LEMMA ComputedStatusType ==
  ASSUME NEW f \in [Run -> RunStatuses \cup {"none"}], NEW status \in Ended
  PROVE ComputedStatus(f, status) \in JobStatuses \ {"pending"}
  BY RowsType, WorkerStatusType DEF ComputedStatus, Ended, JobStatuses

\* The app's aggregation of rows that include none that is blocked is the worker's.
LEMMA SameAggregation ==
  ASSUME NEW statuses \in SUBSET RunStatuses, statuses # {}, "blocked" \notin statuses
  PROVE AppStatus(statuses) = WorkerStatus(statuses)
<1>1. CASE "error" \in statuses
  BY <1>1 DEF AppStatus, WorkerStatus
<1>2. CASE "error" \notin statuses /\ "failed" \in statuses
  BY <1>2 DEF AppStatus, WorkerStatus
<1>3. CASE "error" \notin statuses /\ "failed" \notin statuses
           /\ statuses \cap {"running", "queued"} # {}
  BY <1>3 DEF AppStatus, WorkerStatus
<1>4. CASE "error" \notin statuses /\ "failed" \notin statuses
           /\ statuses \cap {"running", "queued"} = {}
  <2>1. statuses = {"passed"}
    BY <1>4 DEF RunStatuses, Ended
  <2> QED BY <1>4, <2>1 DEF AppStatus, WorkerStatus
<1> QED BY <1>1, <1>2, <1>3, <1>4

LEMMA WhyType == ASSUME TypeOK, NEW a, NEW b PROVE Stale(a, b) \subseteq Reasons
  BY DEF TypeOK, Stale, Reasons

LEMMA CloseType ==
  ASSUME TypeOK, NEW r \in Run, Close(r)
  PROVE work' \in [Run -> Works] /\ tries' \in [Run -> 0 .. MaxTries]
  BY BoundAssumption DEF TypeOK, Close, Works

LEMMA LeaveType ==
  ASSUME TypeOK, NEW r \in Run, Leave(r)
  PROVE /\ work' \in [Run -> Works]
        /\ tries' \in [Run -> 0 .. MaxTries]
        /\ own' \in [Run -> Ended]
  BY CloseType DEF TypeOK, Leave, Works, Ended

LEMMA FaultType ==
  ASSUME TypeOK, Fault
  PROVE faults' \in 0 .. MaxFaults
  BY BoundAssumption DEF TypeOK, Fault

LEMMA NoteType ==
  ASSUME TypeOK, NEW reason \in Reasons, Note(reason)
  PROVE why' \subseteq Reasons
  BY DEF TypeOK, Note

-----------------------------------------------------------------------------
LEMMA InitType == Init => TypeOK
<1> SUFFICES ASSUME Init PROVE TypeOK
  OBVIOUS
<1>1. job \in JobStatuses
  BY DEF Init, JobStatuses, Ended
<1>2. row \in [Run -> RunStatuses \cup {"none"}]
  BY DEF Init, RunStatuses, Ended
<1>3. why \subseteq Reasons /\ cancels \in 0 .. MaxCancels /\ faults \in 0 .. MaxFaults
      /\ tries \in [Run -> 0 .. MaxTries]
  BY BoundAssumption DEF Init
<1> QED BY <1>1, <1>2, <1>3 DEF Init, TypeOK, Triggers, Works, Ended, JobStatuses

LEMMA TriggerType ==
  ASSUME TypeOK, NEW r \in Run,
         Trigger(r) \/ ScheduleCheck(r) \/ RouteInsert(r) \/ Unprepared(r) \/ ScheduleThrows(r)
  PROVE TypeOK'
<1> USE DEF TypeOK, RunStatuses, Ended, Triggers, Submitting, Works, JobStatuses
<1>1. CASE ScheduleCheck(r)
  BY <1>1 DEF ScheduleCheck
<1>2. CASE ScheduleInsert(r)
  BY <1>2 DEF ScheduleInsert
<1>3. CASE MarkJob(r)
  BY <1>3 DEF MarkJob
<1>4. CASE RouteInsert(r)
  BY <1>4 DEF RouteInsert
<1>5. CASE Admit(r)
  BY <1>5 DEF Admit
<1>6. CASE Hold(r)
  BY <1>6 DEF Hold
<1>7. CASE WriteAnswer(r)
  <2>1. why' \subseteq Reasons
    BY <1>7 DEF WriteAnswer, Reasons
  <2> QED BY <1>7, <2>1 DEF WriteAnswer
<1>8. CASE Unprepared(r)
  <2>1. faults' \in 0 .. MaxFaults /\ why' \subseteq Reasons
    BY <1>8, FaultType, NoteType DEF Unprepared, Reasons
  <2> QED BY <1>8, <2>1 DEF Unprepared
<1>9. CASE ScheduleThrows(r)
  <2>1. faults' \in 0 .. MaxFaults
    BY <1>9, FaultType DEF ScheduleThrows
  <2> QED BY <1>9, <2>1 DEF ScheduleThrows
<1>10. CASE FailQueuedRows(r)
  <2>1. why' \subseteq Reasons
    BY <1>10, NoteType DEF FailQueuedRows, Reasons
  <2> QED BY <1>10, <2>1 DEF FailQueuedRows
<1> QED BY <1>1, <1>2, <1>3, <1>4, <1>5, <1>6, <1>7, <1>8, <1>9, <1>10 DEF Trigger

LEMMA PromotionType ==
  ASSUME TypeOK, NEW r \in Run, Promote(r) \/ PromoteFails(r) \/ PromoteWrite(r)
  PROVE TypeOK'
<1>1. CASE Promote(r)
  BY <1>1 DEF Promote, TypeOK, Works
<1>2. CASE PromoteFails(r)
  <2>1. faults' \in 0 .. MaxFaults /\ why' \subseteq Reasons
    BY <1>2, FaultType, NoteType DEF PromoteFails, Reasons
  <2>2. promo' \in [Run -> {"no", "running", "failed"}]
    BY <1>2 DEF PromoteFails, TypeOK
  <2> QED BY <1>2, <2>1, <2>2, CloseType DEF PromoteFails, TypeOK
<1>3. CASE PromoteWrite(r)
  BY <1>3 DEF PromoteWrite, TypeOK, RunStatuses, Ended
<1> QED BY <1>1, <1>2, <1>3

LEMMA WorkType ==
  ASSUME TypeOK, NEW r \in Run,
         Work(r) \/ Block(r) \/ ReadFails(r) \/ WriteFails(r) \/ Die(r)
  PROVE TypeOK'
<1>1. CASE Start(r)
  BY <1>1, BoundAssumption DEF Start, TypeOK, RunStatuses, Works
<1>2. CASE Block(r)
  <2>1. tries' \in [Run -> 0 .. MaxTries] /\ work' \in [Run -> Works]
    BY <1>2, BoundAssumption, CloseType DEF Block, TypeOK, Works
  <2>2. job' \in JobStatuses /\ own' \in [Run -> Ended]
    BY <1>2 DEF Block, TypeOK, JobStatuses, Ended
  <2>3. why' \subseteq Reasons
    BY <1>2, NoteType DEF Block, Reasons
  <2> QED BY <1>2, <2>1, <2>2, <2>3 DEF Block, TypeOK, RunStatuses
<1>3. CASE Finish(r)
  <2>1. own' \in [Run -> Ended] /\ row' \in [Run -> RunStatuses \cup {"none"}]
    BY <1>3 DEF Finish, TypeOK, RunStatuses, Ended
  <2>2. tries' \in [Run -> 0 .. MaxTries]
    BY <1>3, BoundAssumption DEF Finish, TypeOK
  <2> QED BY <1>3, <2>1, <2>2 DEF Finish, TypeOK, Works
<1>4. CASE ReadRows(r)
  <2>1. ComputedStatus(row, own[r]) \in JobStatuses
    BY ComputedStatusType DEF TypeOK
  <2> QED BY <1>4, <2>1 DEF ReadRows, TypeOK, Works
<1>5. CASE ReadFails(r)
  <2>1. faults' \in 0 .. MaxFaults /\ why' \subseteq Reasons
    BY <1>5, FaultType, NoteType DEF ReadFails, Reasons
  <2> QED BY <1>5, <2>1 DEF ReadFails, TypeOK, Works, Ended, JobStatuses
<1>6. CASE WriteJob(r)
  <2>1. why' \subseteq Reasons
    BY <1>6, WhyType DEF WriteJob
  <2> QED BY <1>6, <2>1, LeaveType DEF WriteJob, TypeOK, JobStatuses
<1>7. CASE WriteFails(r)
  <2>1. faults' \in 0 .. MaxFaults /\ why' \subseteq Reasons
    BY <1>7, FaultType, NoteType DEF WriteFails, Reasons
  <2>2. own' \in [Run -> Ended] /\ work' \in [Run -> Works] /\ tries' \in [Run -> 0 .. MaxTries]
    BY <1>7, LeaveType DEF WriteFails, TypeOK, Works
  <2> QED BY <1>7, <2>1, <2>2 DEF WriteFails, TypeOK, JobStatuses
<1>8. CASE Die(r)
  <2>1. faults' \in 0 .. MaxFaults /\ why' \subseteq Reasons
    BY <1>8, FaultType, NoteType DEF Die, Reasons
  <2> QED BY <1>8, <2>1, CloseType DEF Die, TypeOK, JobStatuses, Ended
<1> QED BY <1>1, <1>2, <1>3, <1>4, <1>5, <1>6, <1>7, <1>8 DEF Work

LEMMA CancelType ==
  ASSUME TypeOK, NEW r \in Run, CancelRun(r) \/ CancelCommit(r)
  PROVE TypeOK'
<1>1. CASE CancelRun(r)
  <2>1. work' \in [Run -> Works] /\ tries' \in [Run -> 0 .. MaxTries]
    BY <1>1, CloseType DEF CancelRun, TypeOK
  <2>2. cancels' \in 0 .. MaxCancels
    BY <1>1, BoundAssumption DEF CancelRun, TypeOK
  <2> QED BY <1>1, <2>1, <2>2 DEF CancelRun, TypeOK
<1>2. CASE CancelCommit(r)
  <2>1. row' \in [Run -> RunStatuses \cup {"none"}]
    BY <1>2 DEF CancelCommit, TypeOK, RunStatuses, Ended
  <2>2. AppStatus(Rows(row')) \in JobStatuses
    BY <2>1, RowsType, AppStatusType
  <2> QED BY <1>2, <2>1, <2>2 DEF CancelCommit, TypeOK
<1> QED BY <1>1, <1>2

LEMMA ReapType == ASSUME TypeOK, Reap PROVE TypeOK'
<1>1. CASE ReapRows
  BY <1>1 DEF ReapRows, TypeOK, RunStatuses, Ended
<1>2. CASE ReapWrite
  BY <1>2, WhyType DEF ReapWrite, TypeOK
<1> QED BY <1>1, <1>2 DEF Reap

LEMMA NextType == TypeOK /\ [Next]_vars => TypeOK'
<1> SUFFICES ASSUME TypeOK, [Next]_vars PROVE TypeOK'
  OBVIOUS
<1>1. CASE UNCHANGED vars
  BY <1>1 DEF vars, TypeOK
<1> QED BY <1>1, TriggerType, PromotionType, WorkType, CancelType, ReapType DEF Next

\* Every variable keeps its type: whatever its writers read and however late they write, the
\* status of a job is one of the five the schema knows.
THEOREM TypeCorrect == Spec => []TypeOK
  BY InitType, NextType, PTL DEF Spec

-----------------------------------------------------------------------------
\* calculateJobStatus of the app and the aggregation of the worker give one answer for the rows
\* of any reachable state, however many runs the job has, as long as none is blocked.
THEOREM AggregationsAgree == Spec => []AggregatesAgree
<1>1. TypeOK => AggregatesAgree
  BY RowsType, SameAggregation DEF TypeOK, AggregatesAgree
<1> QED BY <1>1, TypeCorrect, PTL

-----------------------------------------------------------------------------
\* A run that was inserted, and so one that a worker has seen, has a row.
RowExists ==
  \A r \in Run :
    /\ trigger[r] \in Triggering \ {"throwing"} => row[r] # "none"
    /\ work[r] # "none" => row[r] # "none"

LEMMA InitRowExists == Init => RowExists
  BY DEF Init, RowExists, Triggering, Submitting

LEMMA NextRowExists ==
  ASSUME TypeOK, RowExists, [Next]_vars
  PROVE RowExists'
<1> USE DEF TypeOK, RowExists, Triggering, Submitting
<1>1. CASE UNCHANGED vars
  BY <1>1 DEF vars
<1>2. ASSUME NEW r \in Run, Trigger(r) PROVE RowExists'
  <2>1. CASE ScheduleInsert(r) \/ MarkJob(r)
    BY <2>1 DEF ScheduleInsert, MarkJob
  <2>2. CASE Admit(r) \/ Hold(r)
    BY <2>2 DEF Admit, Hold
  <2>3. CASE WriteAnswer(r) \/ FailQueuedRows(r)
    BY <2>3 DEF WriteAnswer, FailQueuedRows
  <2> QED BY <1>2, <2>1, <2>2, <2>3 DEF Trigger
<1>3. ASSUME NEW r \in Run, Work(r) PROVE RowExists'
  <2>1. CASE Start(r)
    BY <1>3, <2>1 DEF Start
  <2>2. CASE Finish(r)
    BY <1>3, <2>2 DEF Finish, Ended
  <2>3. CASE ReadRows(r)
    BY <1>3, <2>3 DEF ReadRows
  <2>4. CASE WriteJob(r)
    BY <1>3, <2>4 DEF WriteJob, Leave, Close
  <2> QED BY <1>3, <2>1, <2>2, <2>3, <2>4 DEF Work
<1>4. ASSUME NEW r \in Run, Promote(r) \/ PromoteFails(r) \/ PromoteWrite(r) PROVE RowExists'
  BY <1>4 DEF Promote, PromoteFails, PromoteWrite, Close
<1>5. ASSUME NEW r \in Run, ScheduleCheck(r) \/ RouteInsert(r) PROVE RowExists'
  BY <1>5 DEF ScheduleCheck, RouteInsert
<1>6. ASSUME NEW r \in Run, CancelRun(r) \/ CancelCommit(r) PROVE RowExists'
  <2>1. CASE CancelRun(r)
    BY <2>1 DEF CancelRun, Close
  <2>2. CASE CancelCommit(r)
    BY <2>2 DEF CancelCommit
  <2> QED BY <1>6, <2>1, <2>2
<1>7. ASSUME NEW r \in Run, Block(r) PROVE RowExists'
  BY <1>7 DEF Block, Close
<1>8. ASSUME NEW r \in Run, Unprepared(r) \/ ScheduleThrows(r) PROVE RowExists'
  BY <1>8 DEF Unprepared, ScheduleThrows
<1>9. ASSUME NEW r \in Run, ReadFails(r) \/ WriteFails(r) \/ Die(r) PROVE RowExists'
  BY <1>9 DEF ReadFails, WriteFails, Leave, Close, Die
<1>10. CASE Reap
  BY <1>10 DEF Reap, ReapRows, ReapWrite
<1> QED BY <1>1, <1>2, <1>3, <1>4, <1>5, <1>6, <1>7, <1>8, <1>9, <1>10 DEF Next

\* What the short cuts of updateJobStatus are worth: a run that counts as passed through the
\* rows as they are is not passing over another that is under way.
LEMMA PassedIsSettled ==
  ASSUME TypeOK, NEW r \in Run, row[r] # "none",
         ComputedStatus(row, own[r]) = "passed", NEW s \in Run \ {r}
  PROVE row[s] \notin {"queued", "running"}
<1>1. CASE Settled(Rows(row))
  BY <1>1 DEF Settled, Rows, Ended
<1>2. CASE Cardinality({q \in Run : row[q] # "none"}) = 1
  <2> DEFINE R == {q \in Run : row[q] # "none"}
  <2>1. IsFiniteSet(R)
    BY RunAssumption, FS_Subset
  <2>2. PICK x : R = {x}
    BY <1>2, <2>1, FS_Singleton
  <2>3. r \in R
    OBVIOUS
  <2>4. s \notin R
    BY <2>2, <2>3
  <2> QED BY <2>4
<1>3. CASE ~Settled(Rows(row)) /\ Cardinality({q \in Run : row[q] # "none"}) # 1
  <2>1. WorkerStatus(Rows(row)) = "passed"
    BY <1>3 DEF ComputedStatus
  <2>2. Rows(row) = {"passed"}
    BY <2>1 DEF WorkerStatus
  <2> QED BY <2>2 DEF Rows
<1> QED BY <1>1, <1>2, <1>3

LEMMA StepResolves ==
  ASSUME TypeOK, RowExists, [Next]_vars, NEW r \in Run,
         work[r] = "write", work'[r] # "write",
         job' = "passed", job # "passed", why' \cap {"stale", "lost"} = {},
         NEW s \in Run \ {r}
  PROVE row[s] \notin {"queued", "running"}
<1>1. row[r] # "none"
  BY DEF RowExists
<1>2. WriteJob(r) => job' = want[r] /\ why' = Stale(want[r], ComputedStatus(row, own[r]))
  BY DEF WriteJob
<1>3. WriteJob(r)
  <2>1. ~UNCHANGED vars /\ ~UNCHANGED work /\ ~UNCHANGED job
    BY DEF vars
  <2>2. ~Reap
    BY <2>1 DEF Reap, ReapRows, ReapWrite
  <2>3. PICK q \in Run :
          \/ Trigger(q) \/ Promote(q) \/ PromoteWrite(q) \/ Work(q) \/ CancelCommit(q)
          \/ ScheduleCheck(q) \/ RouteInsert(q) \/ CancelRun(q) \/ Block(q)
          \/ Unprepared(q) \/ PromoteFails(q) \/ ScheduleThrows(q) \/ ReadFails(q)
          \/ WriteFails(q) \/ Die(q)
    BY <2>1, <2>2 DEF Next
  <2>4. ~Trigger(q) /\ ~Promote(q) /\ ~PromoteWrite(q) /\ ~PromoteFails(q)
    BY <2>1 DEF Trigger, ScheduleInsert, MarkJob, Admit, Hold, WriteAnswer, FailQueuedRows,
         Promote, PromoteWrite, PromoteFails
  <2>5. ~CancelCommit(q) /\ ~ScheduleCheck(q) /\ ~RouteInsert(q) /\ ~CancelRun(q)
    BY <2>1 DEF CancelCommit, ScheduleCheck, RouteInsert, CancelRun
  <2>6. ~Unprepared(q) /\ ~ScheduleThrows(q) /\ ~ReadFails(q) /\ ~WriteFails(q) /\ ~Die(q)
    BY <2>1 DEF Unprepared, ScheduleThrows, ReadFails, WriteFails, Die, Note
  <2>9. ~Block(q)
    BY <2>1 DEF Block, TypeOK
  <2>7. WriteJob(q)
    BY <2>1, <2>3, <2>4, <2>5, <2>6, <2>9 DEF Work, Start, Finish, ReadRows
  <2>8. q = r
    BY <2>7 DEF WriteJob, Leave, Close, TypeOK
  <2> QED BY <2>7, <2>8
<1>4. ComputedStatus(row, own[r]) = "passed"
  BY <1>2, <1>3 DEF Stale
<1> QED BY <1>1, <1>4, PassedIsSettled

\* A processor that resolves the job as passed, and whose rows were still true when it wrote,
\* has no other run of the job queued or running: for any number of runs and workers.
THEOREM NoPrematureResolution == Spec => NoPrematurePass
<1>1. TypeOK /\ RowExists /\ [Next]_vars => RowExists'
  BY NextRowExists
<1>2. TypeOK /\ RowExists /\ [Next]_vars =>
        [\A r \in Run :
           /\ work[r] = "write" /\ work'[r] # "write"
           /\ job' = "passed" /\ job # "passed" /\ why' \cap {"stale", "lost"} = {}
           => \A s \in Run \ {r} : row[s] \notin {"queued", "running"}]_vars
  BY StepResolves
<1> QED BY <1>1, <1>2, InitType, InitRowExists, NextType, PTL DEF Spec, NoPrematurePass

-----------------------------------------------------------------------------
(* A running job is in hand.                                               *)

\* What a writer that leaves the job 'running' can rely on: somebody is still to write a queued
\* row, rows that do not settle the job stay away as long as why is empty, and the stalled
\* handler has rows to compute from.
HandInv ==
  /\ reaper # "idle" => \E r \in Run : row[r] # "none"
  /\ why = {} => \A r \in Run :
       /\ row[r] = "queued" => trigger[r] \in Triggering \/ OnItsWay(r)
       /\ row[r] # "blocked" /\ promo[r] # "failed"

HandedOn == HandInv /\ RunningJobIsInHand

\* Rows whose aggregation is 'running' hold a run in hand.
LEMMA RunningRowsInHand ==
  ASSUME TypeOK, HandInv, why = {}, \E r \in Run : row[r] # "none",
         WorkerStatus(Rows(row)) = "running"
  PROVE  \E r \in Run : row[r] \in {"queued", "running"}
<1>1. SUFFICES ASSUME \A r \in Run : row[r] \notin {"queued", "running"} PROVE FALSE
  OBVIOUS
<1>2. Rows(row) # {} /\ "error" \notin Rows(row) /\ "failed" \notin Rows(row)
  BY DEF WorkerStatus, Rows
<1>3. Rows(row) \subseteq {"passed"}
  BY <1>1, <1>2 DEF Rows, HandInv, TypeOK, RunStatuses, Ended
<1>4. Rows(row) = {"passed"}
  BY <1>2, <1>3
<1> QED BY <1>4 DEF WorkerStatus

\* The same of what a processor computes: its short cuts give the status of a run that ended.
LEMMA ComputedInHand ==
  ASSUME TypeOK, HandInv, why = {}, NEW r \in Run, row[r] # "none",
         ComputedStatus(row, own[r]) = "running"
  PROVE  \E q \in Run : row[q] \in {"queued", "running"}
<1>1. own[r] # "running"
  BY DEF TypeOK, Ended
<1>2. WorkerStatus(Rows(row)) = "running"
  BY <1>1 DEF ComputedStatus
<1> QED BY <1>2, RunningRowsInHand

LEMMA WhyGrows ==
  ASSUME [Next]_vars
  PROVE  why \subseteq why'
<1>1. CASE UNCHANGED vars
  BY <1>1 DEF vars
<1>2. CASE Reap
  BY <1>2 DEF Reap, ReapRows, ReapWrite, Stale
<1>3. ASSUME NEW r \in Run, Trigger(r) \/ Work(r) PROVE why \subseteq why'
  BY <1>3
     DEF Trigger, ScheduleInsert, MarkJob, Admit, Hold, WriteAnswer, FailQueuedRows, Note,
         Work, Start, Finish, ReadRows, WriteJob, Stale
<1>4. ASSUME NEW r \in Run,
             \/ ScheduleCheck(r) \/ RouteInsert(r) \/ CancelRun(r) \/ CancelCommit(r) \/ Block(r)
             \/ Unprepared(r) \/ Promote(r) \/ PromoteFails(r) \/ PromoteWrite(r)
      PROVE why \subseteq why'
  BY <1>4 DEF ScheduleCheck, RouteInsert, CancelRun, CancelCommit, Block, Unprepared, Promote,
       PromoteFails, PromoteWrite, Note
<1>5. ASSUME NEW r \in Run, ScheduleThrows(r) \/ ReadFails(r) \/ WriteFails(r) \/ Die(r)
      PROVE why \subseteq why'
  BY <1>5 DEF ScheduleThrows, ReadFails, WriteFails, Die, Note
<1> QED BY <1>1, <1>2, <1>3, <1>4, <1>5 DEF Next

\* The part of HandInv that holds whatever reason is named.
LEMMA NextReaperHasRows ==
  ASSUME TypeOK, RowExists, HandInv, [Next]_vars
  PROVE  reaper' # "idle" => \E r \in Run : row'[r] # "none"
<1> USE DEF TypeOK, HandInv
<1> DEFINE Kept == \A s \in Run : row[s] # "none" => row'[s] # "none"
<1>1. CASE UNCHANGED vars
  BY <1>1 DEF vars
<1>2. CASE Reap
  <2>1. CASE ReapRows
    BY <2>1 DEF ReapRows, Overdue
  <2>2. CASE ReapWrite
    BY <2>2 DEF ReapWrite
  <2> QED BY <1>2, <2>1, <2>2 DEF Reap
<1>3. ASSUME NEW r \in Run, Trigger(r) \/ ScheduleCheck(r) \/ RouteInsert(r) \/ Unprepared(r)
                            \/ ScheduleThrows(r)
      PROVE UNCHANGED reaper /\ Kept
  BY <1>3
     DEF Trigger, ScheduleInsert, MarkJob, Admit, Hold, WriteAnswer, FailQueuedRows,
         ScheduleCheck, RouteInsert, Unprepared, ScheduleThrows
<1>4. ASSUME NEW r \in Run, Work(r) \/ Block(r) \/ ReadFails(r) \/ WriteFails(r) \/ Die(r)
      PROVE UNCHANGED reaper /\ Kept
  BY <1>4
     DEF Work, Start, Finish, ReadRows, WriteJob, Block, ReadFails, WriteFails, Die, Ended
<1>5. ASSUME NEW r \in Run, CancelRun(r) \/ CancelCommit(r) \/ Promote(r) \/ PromoteFails(r)
                            \/ PromoteWrite(r)
      PROVE UNCHANGED reaper /\ Kept
  BY <1>5 DEF CancelRun, CancelCommit, Promote, PromoteFails, PromoteWrite
<1> QED BY <1>1, <1>2, <1>3, <1>4, <1>5 DEF Next

LEMMA NextHandedOn ==
  ASSUME TypeOK, RowExists, HandedOn, [Next]_vars, why' = {}
  PROVE  /\ \A r \in Run :
              /\ row'[r] = "queued" => trigger'[r] \in Triggering \/ OnItsWay(r)'
              /\ row'[r] # "blocked" /\ promo'[r] # "failed"
         /\ job' = "running" => reaper' # "idle" \/ \E r \in Run : InHand(r)'
<1>1. why = {} /\ HandInv /\ RunningJobIsInHand
  BY WhyGrows DEF HandedOn
<1> DEFINE Rest == \A r \in Run :
                     /\ row'[r] = "queued" => trigger'[r] \in Triggering \/ OnItsWay(r)'
                     /\ row'[r] # "blocked" /\ promo'[r] # "failed"
           Hand == job' = "running" => reaper' # "idle" \/ \E r \in Run : InHand(r)'
<1> USE DEF TypeOK, RowExists, HandInv, RunningJobIsInHand, InHand, OnItsWay, Triggering, Submitting
<1>2. CASE UNCHANGED vars
  BY <1>1, <1>2 DEF vars
<1>3. CASE Reap
  <2>1. CASE ReapRows
    BY <1>1, <2>1 DEF ReapRows
  <2>2. CASE ReapWrite
    <3>1. job' = WorkerStatus(Rows(row)) /\ \E r \in Run : row[r] # "none"
      BY <1>1, <2>2 DEF ReapWrite, Stale
    <3>2. job' = "running" => \E r \in Run : row[r] \in {"queued", "running"}
      BY <1>1, <3>1, RunningRowsInHand
    <3> QED BY <1>1, <2>2, <3>2 DEF ReapWrite
  <2> QED BY <1>3, <2>1, <2>2 DEF Reap
<1>4. ASSUME NEW r \in Run, Trigger(r) PROVE Rest /\ Hand
  <2>1. CASE ScheduleInsert(r) \/ MarkJob(r)
    BY <1>1, <2>1 DEF ScheduleInsert, MarkJob
  <2>2. CASE Admit(r)
    BY <1>1, <2>2 DEF Admit
  <2>3. CASE Hold(r)
    BY <1>1, <2>3 DEF Hold
  <2>4. CASE WriteAnswer(r)
    BY <1>1, <2>4 DEF WriteAnswer
  <2>5. CASE FailQueuedRows(r)
    BY <1>1, <2>5 DEF FailQueuedRows, Note
  <2> QED BY <1>4, <2>1, <2>2, <2>3, <2>4, <2>5 DEF Trigger
<1>5. ASSUME NEW r \in Run, Work(r) PROVE Rest /\ Hand
  <2>1. CASE Start(r)
    BY <1>1, <2>1 DEF Start
  <2>2. CASE Finish(r)
    BY <1>1, <2>2 DEF Finish, Ended
  <2>3. CASE ReadRows(r)
    BY <1>1, <2>3 DEF ReadRows
  <2>4. CASE WriteJob(r)
    <3>1. job' = want[r] /\ want[r] = ComputedStatus(row, own[r]) /\ row[r] # "none"
      BY <1>1, <2>4 DEF WriteJob, Stale
    <3>2. job' = "running" => \E q \in Run : row[q] \in {"queued", "running"}
      BY <1>1, <3>1, ComputedInHand
    <3>3. UNCHANGED <<row, trigger, promo, cancel>>
      BY <2>4 DEF WriteJob
    <3>4. \A q \in Run : work[q] \in {"held", "waiting", "executing"} => UNCHANGED work[q]
      BY <2>4 DEF WriteJob, Leave, Close
    <3>5. Rest
      BY <1>1, <3>3, <3>4
    <3> QED BY <3>2, <3>3, <3>5
  <2> QED BY <1>5, <2>1, <2>2, <2>3, <2>4 DEF Work
<1>6. ASSUME NEW r \in Run, CancelRun(r) PROVE Rest /\ Hand
  BY <1>1, <1>6 DEF CancelRun, Close
<1>7. ASSUME NEW r \in Run, CancelCommit(r) PROVE Rest /\ Hand
  <2>1. job' = AppStatus(Rows(row')) /\ "error" \in Rows(row')
    BY <1>7 DEF CancelCommit, Rows
  <2>2. job' = "error"
    BY <2>1 DEF AppStatus
  <2> QED BY <1>1, <1>7, <2>2 DEF CancelCommit
<1>8. ASSUME NEW r \in Run, Promote(r) \/ PromoteWrite(r) PROVE Rest /\ Hand
  <2>1. CASE Promote(r)
    BY <1>1, <2>1 DEF Promote
  <2>2. CASE PromoteWrite(r)
    <3>1. promo[r] = "running"
      BY <1>1, <2>2 DEF PromoteWrite
    <3> QED BY <1>1, <2>2, <3>1 DEF PromoteWrite
  <2> QED BY <1>8, <2>1, <2>2
<1>9. ASSUME NEW r \in Run, ScheduleCheck(r) \/ RouteInsert(r) PROVE Rest /\ Hand
  BY <1>1, <1>9 DEF ScheduleCheck, RouteInsert
<1>10. ASSUME NEW r \in Run, ScheduleThrows(r) PROVE Rest /\ Hand
  BY <1>1, <1>10 DEF ScheduleThrows
<1>11. ASSUME NEW r \in Run,
              \/ Block(r) \/ Unprepared(r) \/ PromoteFails(r) \/ ReadFails(r) \/ WriteFails(r)
              \/ Die(r)
       PROVE FALSE
  BY <1>11 DEF Block, Unprepared, PromoteFails, ReadFails, WriteFails, Die, Note
<1> QED BY <1>2, <1>3, <1>4, <1>5, <1>6, <1>7, <1>8, <1>9, <1>10, <1>11 DEF Next

\* Nobody leaves the job 'running' behind with no one to end it: the state JobSettles could
\* not recover from is not reachable, for any number of runs, attempts and cancel requests.
THEOREM RunningJobsAreInHand == Spec => []RunningJobIsInHand
<1>1. Init => HandedOn
  BY DEF Init, HandedOn, HandInv, RunningJobIsInHand, Ended
<1>2. TypeOK /\ RowExists /\ HandedOn /\ [Next]_vars => HandedOn'
  BY NextReaperHasRows, NextHandedOn DEF HandedOn, HandInv, RunningJobIsInHand
<1>3. HandedOn => RunningJobIsInHand
  BY DEF HandedOn
<1> QED BY <1>1, <1>2, <1>3, InitType, InitRowExists, NextType, NextRowExists, PTL DEF Spec
=============================================================================
