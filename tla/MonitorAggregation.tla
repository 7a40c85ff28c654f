------------------------- MODULE MonitorAggregation -------------------------
(***************************************************************************)
(* The results of one monitor that is checked from several locations: each *)
(* schedule makes one job per location, the locations of an execution      *)
(* group meet in a Redis set, and who finds the set complete aggregates    *)
(* the group, writes the status of the monitor and decides about alerts.   *)
(* saveDistributedMonitorResult, saveMonitorResults, evaluateAndSendAlert. *)
(***************************************************************************)
EXTENDS Integers, FiniteSets

CONSTANTS
  Location,           \* the locations of the monitor, all with live workers, two at least: the
                      \* alerts of a single one are decided from the result rows
  MaxGroup,           \* bound: schedules
  MaxOverlap,         \* bound: groups at work at the same time
  RetryLimit,         \* the values of retryLimit in the job data
  FailureThreshold,
  RecoveryThreshold,
  MinInterval,        \* 5: checks between two alerts of a sequence, at least,
  Factor,             \* 2: and this many times the threshold
  MaxAlerts,          \* 3: alerts of a sequence
  Strategy,           \* locationConfig.strategy
  Percent,            \* locationConfig.threshold, for "majority"
  MaxFaults           \* bound: failed calls, expired keys, crashes

ASSUME LocationAssumption == IsFiniteSet(Location) /\ Cardinality(Location) > 1
ASSUME BoundAssumption ==
  /\ MaxGroup \in Nat /\ MaxOverlap \in Nat /\ MaxFaults \in Nat
  /\ RetryLimit \subseteq Nat \ {0}
ASSUME AlertAssumption ==
  /\ FailureThreshold \in Nat \ {0} /\ RecoveryThreshold \in Nat \ {0}
  /\ MinInterval \in Nat \ {0} /\ Factor \in Nat
  /\ MaxAlerts \in Nat \ {0}

Group == 1 .. MaxGroup
Job == Group \X Location

VARIABLES
  status,     \* monitors.status
  alertState, \* config.aggregatedAlertState
  row,        \* isUp of the latest result of a job in monitor_results
  seen,       \* the Redis set of a group
  pc,
  left,       \* attempts a job has left, 0 in handleFinalJobFailure
  view,       \* what an evaluation knows: verdict, and the monitor it read
  \* History: groups whose verdict was written, down groups in a row, failure alerts delivered
  \* in a row of down groups, whether a failure alert waits for a recovery alert, whether
  \* evaluations never overlapped and none lost a write, the groups a fault happened to.
  counted, streak, delivered, open, clean, struck,
  nfaults

history == <<counted, streak, delivered, open>>
faults == <<struck, nfaults>>
vars == <<status, alertState, row, seen, pc, left, view, history, clean, faults>>

PCs == {"none", "queued", "add", "count", "select", "del", "read", "status", "alert",
        "sent", "unsent", "final", "done"}
\* A job between a full SCARD and its last write.
Evaluating == {"select", "del", "read", "status", "alert", "sent", "unsent"}

Statuses == {"pending", "up", "down"}
Verdicts == {"none", "up", "down"}
AlertStates == [failures : Nat, successes : Nat, sentFailure : Nat, sentRecovery : Nat]
Zero == [failures |-> 0, successes |-> 0, sentFailure |-> 0, sentRecovery |-> 0]
NoView == [verdict |-> "none", status |-> "pending", alertState |-> Zero]

TypeOK ==
  /\ status \in Statuses
  /\ alertState \in AlertStates
  /\ row \in [Job -> Verdicts]
  /\ seen \in [Group -> SUBSET Location]
  /\ pc \in [Job -> PCs]
  /\ left \in [Job -> Nat]
  /\ view \in [Job -> [verdict : Verdicts, status : Statuses, alertState : AlertStates]]
  /\ counted \subseteq Group /\ streak \in Nat /\ delivered \in Nat
  /\ open \in {"no", "yes"} /\ clean \in {"no", "yes"}
  /\ struck \subseteq Group /\ nfaults \in 0 .. MaxFaults

\* A monitor just created, or one whose first evaluation is over.
Init ==
  /\ status \in {"pending", "up"}
  /\ alertState = Zero
  /\ row = [j \in Job |-> "none"]
  /\ seen = [g \in Group |-> {}]
  /\ pc = [j \in Job |-> "none"]
  /\ left = [j \in Job |-> 0]
  /\ view = [j \in Job |-> NoView]
  /\ counted = {} /\ streak = 0 /\ delivered = 0 /\ open = "no" /\ clean = "yes"
  /\ struck = {} /\ nfaults = 0

Fault(g) ==
  /\ nfaults < MaxFaults /\ nfaults' = nfaults + 1
  /\ struck' = struck \cup {g}

Go(j, next) == pc' = [pc EXCEPT ![j] = next]

JobsOf(g) == {g} \X Location
Ended(g) == \A j \in JobsOf(g) : pc[j] = "done"

-----------------------------------------------------------------------------
(* Rules.                                                                  *)

AggregatedMutant(up) ==
  IF up = Location THEN "up" ELSE IF up = {} THEN "down" ELSE "partial"
\* calculateAggregatedStatus over the locations that were up; "partial" counts as down.
Aggregated(up) ==
  LET ups == Cardinality(up)
      good == \/ Strategy = "all" /\ ups = Cardinality(Location)
              \/ Strategy = "any" /\ ups > 0
              \/ Strategy = "majority" /\ ups * 100 >= Percent * Cardinality(Location)
  IN IF good THEN "up" ELSE "down"

NextAlertStateMutant(s, before, now) ==
  IF now = "down" THEN [s EXCEPT !.failures = @ + 1, !.successes = 0]
  ELSE [s EXCEPT !.successes = @ + 1, !.sentFailure = 0]
\* getNextAggregatedAlertState: a sequence goes on only if the status read was the same.
NextAlertState(s, before, now) ==
  LET base == IF before = now THEN s ELSE Zero
  IN IF now = "down"
     THEN [Zero EXCEPT !.failures = base.failures + 1, !.sentFailure = base.sentFailure]
     ELSE [Zero EXCEPT !.successes = base.successes + 1, !.sentRecovery = base.sentRecovery]

\* Math.max(5, threshold * 2)
Interval(threshold) ==
  IF Factor * threshold > MinInterval THEN Factor * threshold ELSE MinInterval

DueMutant(count, threshold, sent) ==
  \/ count >= threshold /\ sent = 0
  \/ /\ count > threshold
     /\ \E k \in 0 .. count :
          k >= sent /\ count - threshold = k * Interval(threshold)
DueSkipsMutant(count, threshold, sent) ==
  \/ count = threshold /\ sent = 0
  \/ /\ count > threshold /\ sent < MaxAlerts
     /\ \E k \in 0 .. count :
          k > sent /\ count - threshold = k * Interval(threshold)
\* The first alert at the threshold, the next ones at whole intervals after it.
Due(count, threshold, sent) ==
  \/ count = threshold /\ sent = 0
  \/ /\ count > threshold /\ sent < MaxAlerts
     /\ \E k \in 0 .. count :
          k >= sent /\ count - threshold = k * Interval(threshold)

Upcoming(j) == NextAlertState(view[j].alertState, view[j].status, view[j].verdict)

\* A recovery is looked at only if the status read was 'down'.
ShouldSend(j) ==
  LET s == Upcoming(j)
  IN \/ view[j].verdict = "down" /\ Due(s.failures, FailureThreshold, s.sentFailure)
     \/ /\ view[j].verdict = "up" /\ view[j].status = "down"
        /\ Due(s.successes, RecoveryThreshold, s.sentRecovery)

-----------------------------------------------------------------------------
(* The scheduler (app).                                                    *)

Turn(g) ==
  /\ \A j \in JobsOf(g) : pc[j] = "none"
  /\ \A h \in Group : h < g => \A j \in JobsOf(h) : pc[j] # "none"
  /\ \A h \in Group : h + MaxOverlap <= g => Ended(h)

\* What ended groups leave behind is never read again (rows) or expires (keys).
Forget ==
  /\ row' = [j \in Job |-> IF Ended(j[1]) THEN "none" ELSE row[j]]
  /\ seen' = [g \in Group |-> IF Ended(g) THEN {} ELSE seen[g]]

\* One job per location, all with the number of locations as the expected count.
Schedule(g) ==
  /\ Turn(g)
  /\ \E n \in RetryLimit :
       left' = [j \in Job |-> IF j[1] = g THEN n ELSE left[j]]
  /\ pc' = [j \in Job |-> IF j[1] = g THEN "queued" ELSE pc[j]]
  /\ Forget
  /\ UNCHANGED <<status, alertState, view, history, clean, faults>>

\* One of the queue.add calls throws: the jobs of the others are there, and wait for all.
ScheduleBreaks(g) ==
  /\ Turn(g)
  /\ Fault(g)
  /\ \E lost \in Location, n \in RetryLimit :
       /\ left' = [j \in Job |-> IF j[1] = g /\ j[2] # lost THEN n ELSE left[j]]
       /\ pc' = [j \in Job |-> IF j[1] # g THEN pc[j]
                               ELSE IF j[2] = lost THEN "done" ELSE "queued"]
  /\ Forget
  /\ UNCHANGED <<status, alertState, view, history, clean>>

\* recordSchedulingFailure: the monitor is down, with no look at alerts.
ScheduleFails(g) ==
  /\ Turn(g)
  /\ Fault(g)
  /\ status' = "down"
  /\ pc' = [j \in Job |-> IF j[1] = g THEN "done" ELSE pc[j]]
  /\ UNCHANGED <<alertState, row, seen, left, view, history, clean>>

-----------------------------------------------------------------------------
(* The workers.                                                            *)

End(j) ==
  /\ Go(j, "done")
  /\ left' = [left EXCEPT ![j] = 0]
  /\ view' = [view EXCEPT ![j] = NoView]

\* The check and the insert of its result; an insert that fails is only logged.
Check(j) ==
  /\ pc[j] = "queued"
  /\ Go(j, "add")
  /\ \/ \E r \in {"up", "down"} : row' = [row EXCEPT ![j] = r]
        /\ UNCHANGED faults
     \/ Fault(j[1]) /\ UNCHANGED row
  /\ UNCHANGED <<status, alertState, seen, left, view, history, clean>>

\* handleFinalJobFailure: an error row, unless a row of the group is there: then nothing.
FinalFailure(j) ==
  /\ pc[j] = "final"
  /\ \/ row[j] # "none" /\ End(j) /\ UNCHANGED <<row, faults>>
     \/ /\ row[j] = "none"
        /\ Go(j, "add")
        /\ \/ row' = [row EXCEPT ![j] = "down"] /\ UNCHANGED faults
           \/ Fault(j[1]) /\ UNCHANGED row
        /\ UNCHANGED <<left, view>>
  /\ UNCHANGED <<status, alertState, seen, history, clean>>

\* SADD
Add(j) ==
  /\ pc[j] = "add"
  /\ seen' = [seen EXCEPT ![j[1]] = @ \cup {j[2]}]
  /\ Go(j, "count")
  /\ UNCHANGED <<status, alertState, row, left, view, history, clean, faults>>

CountMutant(j) ==
  /\ pc[j] = "count"
  /\ IF seen[j[1]] \ {j[2]} # Location
     THEN End(j) /\ UNCHANGED clean
     ELSE /\ Go(j, "select")
          /\ clean' = IF \E i \in Job : pc[i] \in Evaluating THEN "no" ELSE clean
          /\ UNCHANGED <<left, view>>
  /\ UNCHANGED <<status, alertState, row, seen, history, faults>>
CountWaitsMutant(j) ==
  /\ pc[j] = "count"
  /\ seen[j[1]] = Location
  /\ Go(j, "select")
  /\ clean' = IF \E i \in Job : pc[i] \in Evaluating THEN "no" ELSE clean
  /\ UNCHANGED <<status, alertState, row, seen, left, view, history, faults>>
\* SCARD: not all locations have reported, or this one aggregates.
Count(j) ==
  /\ pc[j] = "count"
  /\ IF seen[j[1]] # Location
     THEN End(j) /\ UNCHANGED clean
     ELSE /\ Go(j, "select")
          /\ clean' = IF \E i \in Job : pc[i] \in Evaluating THEN "no" ELSE clean
          /\ UNCHANGED <<left, view>>
  /\ UNCHANGED <<status, alertState, row, seen, history, faults>>

\* The latest result of each location; "none" if one is missing.
Select(j) ==
  /\ pc[j] = "select"
  /\ LET rows == [l \in Location |-> row[<<j[1], l>>]]
         verdict == IF \E l \in Location : rows[l] = "none" THEN "none"
                    ELSE Aggregated({l \in Location : rows[l] = "up"})
     IN view' = [view EXCEPT ![j].verdict = verdict]
  /\ Go(j, "del")
  /\ UNCHANGED <<status, alertState, row, seen, left, history, clean, faults>>

\* DEL; without all the rows that is all.
Delete(j) ==
  /\ pc[j] = "del"
  /\ seen' = [seen EXCEPT ![j[1]] = {}]
  /\ \/ view[j].verdict = "none" /\ End(j)
     \/ view[j].verdict # "none" /\ Go(j, "read") /\ UNCHANGED <<left, view>>
  /\ UNCHANGED <<status, alertState, row, history, clean, faults>>

\* saveMonitorResults reads the monitor once: status and counters.
ReadMonitor(j) ==
  /\ pc[j] = "read"
  /\ view' = [view EXCEPT ![j].status = status, ![j].alertState = alertState]
  /\ Go(j, "status")
  /\ UNCHANGED <<status, alertState, row, seen, left, history, clean, faults>>

\* The first verdict of a group counts; one on a pending monitor is not about alerts.
Record(j) ==
  IF j[1] \in counted
  THEN UNCHANGED history
  ELSE /\ counted' = counted \cup {j[1]}
       /\ streak' = IF view[j].verdict = "down" /\ view[j].status # "pending"
                    THEN streak + 1 ELSE 0
       /\ delivered' = IF view[j].verdict = "up" THEN 0 ELSE delivered
       /\ UNCHANGED open

\* updateMonitorStatus
SetStatus(j) ==
  /\ pc[j] = "status"
  /\ status' = view[j].verdict
  /\ Record(j)
  /\ Go(j, "alert")
  /\ UNCHANGED <<alertState, row, seen, left, view, clean, faults>>

\* Its error is only logged.
SetStatusFails(j) ==
  /\ pc[j] = "status"
  /\ Fault(j[1])
  /\ Record(j)
  /\ clean' = "no"
  /\ Go(j, "alert")
  /\ UNCHANGED <<status, alertState, row, seen, left, view>>

\* evaluateAndSendAlert on a monitor that was pending: nothing, not even the counters.
Ignore(j) ==
  /\ pc[j] = "alert"
  /\ view[j].status = "pending"
  /\ End(j)
  /\ UNCHANGED <<status, alertState, row, seen, history, clean, faults>>

\* evaluateAndSendAlert with nothing to send goes on to the counters.
NoAlert(j) ==
  /\ pc[j] = "alert"
  /\ view[j].status # "pending"
  /\ ~ShouldSend(j)
  /\ Go(j, "unsent")
  /\ UNCHANGED <<status, alertState, row, seen, left, view, history, clean, faults>>

Deliver(j) ==
  /\ delivered' = IF view[j].verdict = "down" THEN delivered + 1 ELSE delivered
  /\ open' = IF view[j].verdict = "down" THEN "yes" ELSE "no"
  /\ UNCHANGED <<counted, streak>>

\* sendNotification
Send(j) ==
  /\ pc[j] = "alert"
  /\ view[j].status # "pending"
  /\ ShouldSend(j)
  /\ Deliver(j)
  /\ Go(j, "sent")
  /\ UNCHANGED <<status, alertState, row, seen, left, view, clean, faults>>

\* sendNotification throws, before the providers or after them (alert history).
SendFails(j) ==
  /\ pc[j] = "alert"
  /\ view[j].status # "pending"
  /\ ShouldSend(j)
  /\ Fault(j[1])
  /\ \/ UNCHANGED <<history, clean>>
     \/ Deliver(j) /\ clean' = "no"
  /\ Go(j, "unsent")
  /\ UNCHANGED <<status, alertState, row, seen, left, view>>

\* The counters of this evaluation, one more if its alert was sent.
Persisted(j) ==
  LET s == Upcoming(j)
  IN IF pc[j] = "unsent" THEN s
     ELSE IF view[j].verdict = "down"
          THEN [s EXCEPT !.sentFailure = @ + 1]
          ELSE [s EXCEPT !.sentRecovery = @ + 1]

\* persistAggregatedAlertState
Persist(j) ==
  /\ pc[j] \in {"sent", "unsent"}
  /\ alertState' = Persisted(j)
  /\ End(j)
  /\ UNCHANGED <<status, row, seen, history, clean, faults>>

\* Its error is only logged.
PersistFails(j) ==
  /\ pc[j] \in {"sent", "unsent"}
  /\ Fault(j[1])
  /\ clean' = "no"
  /\ End(j)
  /\ UNCHANGED <<status, alertState, row, seen, history>>

\* A Redis call or a query throws, SADD and DEL maybe after they took effect: the job is tried
\* again from its check, or fails for good.  In handleFinalJobFailure it is only logged.
Throws(j) ==
  /\ pc[j] \in {"add", "count", "select", "del", "read"}
  /\ Fault(j[1])
  /\ \/ UNCHANGED seen
     \/ pc[j] = "add" /\ seen' = [seen EXCEPT ![j[1]] = @ \cup {j[2]}]
     \/ pc[j] = "del" /\ seen' = [seen EXCEPT ![j[1]] = {}]
  /\ Go(j, IF left[j] > 1 THEN "queued" ELSE IF left[j] = 1 THEN "final" ELSE "done")
  /\ left' = [left EXCEPT ![j] = IF @ > 0 THEN @ - 1 ELSE 0]
  /\ view' = [view EXCEPT ![j] = NoView]
  /\ UNCHANGED <<status, alertState, row, history, clean>>

\* The worker dies: the stalled job is taken again; handleFinalJobFailure is not.
Crash(j) ==
  /\ pc[j] \in {"add", "count", "final"} \cup Evaluating
  /\ Fault(j[1])
  /\ Go(j, IF left[j] > 0 THEN "queued" ELSE "done")
  /\ view' = [view EXCEPT ![j] = NoView]
  /\ clean' = IF pc[j] \in {"alert", "sent", "unsent"} THEN "no" ELSE clean
  /\ UNCHANGED <<status, alertState, row, seen, left, history>>

\* The time to live of the Redis set ends before the group is complete.
KeyExpires(g) ==
  /\ seen[g] # {} /\ ~Ended(g)
  /\ Fault(g)
  /\ seen' = [seen EXCEPT ![g] = {}]
  /\ UNCHANGED <<status, alertState, row, pc, left, view, history, clean>>

Step(j) ==
  \/ Check(j) \/ FinalFailure(j)
  \/ Add(j) \/ Count(j)
  \/ Select(j) \/ Delete(j)
  \/ ReadMonitor(j) \/ SetStatus(j)
  \/ Ignore(j) \/ NoAlert(j) \/ Send(j)
  \/ Persist(j)

Next ==
  \/ \E g \in Group : Schedule(g) \/ ScheduleBreaks(g) \/ ScheduleFails(g) \/ KeyExpires(g)
  \/ \E j \in Job :
       \/ Step(j)
       \/ SetStatusFails(j) \/ SendFails(j) \/ PersistFails(j)
       \/ Throws(j) \/ Crash(j)

\* Workers take the jobs of their queue and every call they await ends.
Fairness == \A j \in Job : WF_vars(Step(j))

Spec == Init /\ [][Next]_vars /\ Fairness

\* Bound of the run: the second fault comes in the first groups, and no more are scheduled then.
FaultsComeEarly == nfaults > 1 => \A j \in Job : j[1] > 2 => pc[j] = "none"

-----------------------------------------------------------------------------
(* Properties.                                                             *)

\* Recorded alerts never outrun the failures they stand for: at most MaxAlerts, none below the
\* threshold, and a whole interval of failed checks for each one after the first, whatever
\* evaluations overlap, writes are lost or jobs are repeated, and for every copy of the counters.
Spaced(s) ==
  /\ s.sentFailure <= MaxAlerts
  /\ s.sentFailure > 0 =>
       (s.sentFailure - 1) * Interval(FailureThreshold) <= s.failures - FailureThreshold
AlertsSpaced == Spaced(alertState) /\ \A j \in Job : Spaced(view[j].alertState)

\* "Maximum 3 alerts per failure sequence": alerts delivered, not only recorded, as long as
\* evaluations do not overlap and lose no write.
AlertsLimited == clean = "yes" => delivered <= MaxAlerts

\* "The number of consecutive failures required before sending the first failure alert": a
\* failure alert follows that many down groups in a row, under the same proviso.
AlertsEarned ==
  [][delivered' > delivered /\ clean' = "yes" => streak >= FailureThreshold]_vars

\* The alerts of a row of n down groups, as the code spaces them: MaxAlerts of them, the first
\* at the threshold, the others at equal intervals after it (T, T + I, T + 2I).  The comments
\* and the docs say "exponential" and "threshold, threshold + 5, threshold + 15", where the
\* third comes at threshold + 10: the two part at the third alert.
Moments(n) ==
  {k \in 0 .. MaxAlerts - 1 : FailureThreshold + k * Interval(FailureThreshold) <= n}

\* No alert of this schedule is missed and none comes twice: as long as nothing fails and
\* evaluations do not overlap, a row of down groups has had exactly the failure alerts of its
\* length, whatever ups, a pending monitor and recovery alerts come before it.
AlertsOnSchedule ==
  nfaults = 0 /\ clean = "yes" /\ (\A j \in Job : pc[j] # "alert")
    => delivered = Cardinality(Moments(streak))

\* "this worker will aggregate": of the locations of a group at least one finds it complete,
\* so that a group no fault happened to has its verdict when its jobs are done.
EveryGroupEvaluated == \A g \in Group : Ended(g) => g \in counted \cup struck

\* No location waits for another: "let the last worker handle aggregation".
JobsEnd == []<>(\A j \in Job : pc[j] \in {"none", "done"})

\* "Recovery: consecutive successes reach threshold after being down": by the time the counters
\* show that many successes, a recovery alert followed the last failure alert.
RecoveryAnnounced == open = "yes" => alertState.successes < RecoveryThreshold
=============================================================================
