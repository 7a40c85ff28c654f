---------------------- MODULE MonitorAggregationProofs ----------------------
(***************************************************************************)
(* Theorems of MonitorAggregation, for every set of locations, number of   *)
(* overlapping groups, threshold and bound.                                *)
(***************************************************************************)
EXTENDS MonitorAggregation, TLAPS

\* What a job holds at each place: a verdict from the point it has one, and at "sent" the
\* alert it was due to send.
HoldsVerdict == {"read", "status", "alert", "sent", "unsent"}
JobInv ==
  \A j \in Job :
    /\ pc[j] \in HoldsVerdict => view[j].verdict \in {"up", "down"}
    /\ pc[j] = "sent" => ShouldSend(j)

Inv == TypeOK /\ JobInv /\ AlertsSpaced

-----------------------------------------------------------------------------
LEMMA IntervalType == \A t \in Nat : Interval(t) \in Nat
  BY AlertAssumption DEF Interval

LEMMA ProductMonotone ==
  ASSUME NEW a \in Int, NEW b \in Int, NEW c \in Nat, a <= b
  PROVE a * c <= b * c
<1>1. b * c - a * c = (b - a) * c
  OBVIOUS
<1>2. (b - a) * c >= 0
  OBVIOUS
<1> QED BY <1>1, <1>2

LEMMA ViewType ==
  ASSUME TypeOK, NEW j \in Job
  PROVE /\ view[j].alertState \in AlertStates
        /\ view[j].status \in Statuses
        /\ view[j].verdict \in Verdicts
  BY DEF TypeOK

\* getNextAggregatedAlertState keeps alerts spaced.
LEMMA NextStateSpaced ==
  ASSUME NEW s \in AlertStates, Spaced(s), NEW before, NEW now
  PROVE /\ NextAlertState(s, before, now) \in AlertStates
        /\ Spaced(NextAlertState(s, before, now))
<1> DEFINE I == Interval(FailureThreshold)
<1>1. I \in Nat
  BY IntervalType, AlertAssumption
<1>2. NextAlertState(s, before, now) \in AlertStates
  <2>1. s.failures + 1 \in Nat /\ s.sentFailure \in Nat
        /\ s.successes + 1 \in Nat /\ s.sentRecovery \in Nat
    BY DEF AlertStates
  <2>2. CASE before = now
    <3>1. CASE now = "down"
      <4>1. NextAlertState(s, before, now) =
              [failures |-> s.failures + 1, successes |-> 0,
               sentFailure |-> s.sentFailure, sentRecovery |-> 0]
        BY <2>2, <3>1 DEF NextAlertState, Zero
      <4> QED BY <2>1, <4>1 DEF AlertStates
    <3>2. CASE now # "down"
      <4>1. NextAlertState(s, before, now) =
              [failures |-> 0, successes |-> s.successes + 1,
               sentFailure |-> 0, sentRecovery |-> s.sentRecovery]
        BY <2>2, <3>2 DEF NextAlertState, Zero
      <4> QED BY <2>1, <4>1 DEF AlertStates
    <3> QED BY <3>1, <3>2
  <2>3. CASE before # now
    <3>1. CASE now = "down"
      <4>1. NextAlertState(s, before, now) =
              [failures |-> 0 + 1, successes |-> 0, sentFailure |-> 0, sentRecovery |-> 0]
        BY <2>3, <3>1 DEF NextAlertState, Zero
      <4> QED BY <4>1 DEF AlertStates
    <3>2. CASE now # "down"
      <4>1. NextAlertState(s, before, now) =
              [failures |-> 0, successes |-> 0 + 1, sentFailure |-> 0, sentRecovery |-> 0]
        BY <2>3, <3>2 DEF NextAlertState, Zero
      <4> QED BY <4>1 DEF AlertStates
    <3> QED BY <3>1, <3>2
  <2> QED BY <2>2, <2>3
<1>3. CASE now = "down" /\ before = now
  <2> DEFINE t == NextAlertState(s, before, now)
  <2>1. t.failures = s.failures + 1 /\ t.sentFailure = s.sentFailure
    BY <1>3 DEF NextAlertState, Zero, AlertStates
  <2>2. s.failures \in Nat /\ s.sentFailure \in Nat
    BY DEF AlertStates
  <2>3. (s.sentFailure - 1) * I \in Int
    BY <2>2, <1>1
  <2> HIDE DEF I, t
  <2>4. /\ t.sentFailure <= MaxAlerts
        /\ t.sentFailure > 0 => (t.sentFailure - 1) * I <= t.failures - FailureThreshold
    BY <2>1, <2>2, <2>3, AlertAssumption DEF Spaced, I
  <2>5. Spaced(t)
    BY <2>4 DEF Spaced, I
  <2> QED BY <2>5, <1>2 DEF t
<1>4. CASE ~(now = "down" /\ before = now)
  <2>1. NextAlertState(s, before, now).sentFailure = 0
    BY <1>4 DEF NextAlertState, Zero, AlertStates
  <2> QED BY <2>1, <1>2, AlertAssumption DEF Spaced
<1> QED BY <1>2, <1>3, <1>4

\* Counting the failure alert that was due keeps alerts spaced.
LEMMA OneMoreSpaced ==
  ASSUME NEW s \in AlertStates, Spaced(s),
         Due(s.failures, FailureThreshold, s.sentFailure)
  PROVE /\ [s EXCEPT !.sentFailure = @ + 1] \in AlertStates
        /\ Spaced([s EXCEPT !.sentFailure = @ + 1])
<1> DEFINE I == Interval(FailureThreshold)
           n == s.sentFailure
           t == [s EXCEPT !.sentFailure = @ + 1]
<1>1. I \in Nat
  BY IntervalType, AlertAssumption
<1>2. s.failures \in Nat /\ n \in Nat /\ FailureThreshold \in Nat /\ MaxAlerts \in Nat \ {0}
  BY AlertAssumption DEF AlertStates
<1>3. t \in AlertStates /\ t.sentFailure = n + 1 /\ t.failures = s.failures
  BY DEF AlertStates
<1>4. n + 1 <= MaxAlerts /\ n * I <= s.failures - FailureThreshold
  <2>1. CASE s.failures = FailureThreshold /\ n = 0
    BY <2>1, <1>1, <1>2
  <2>2. CASE n < MaxAlerts /\ \E k \in 0 .. s.failures :
               k >= n /\ s.failures - FailureThreshold = k * I
    <3>1. PICK k \in 0 .. s.failures : k >= n /\ s.failures - FailureThreshold = k * I
      BY <2>2
    <3>2. n * I <= k * I
      BY <3>1, <1>1, <1>2, ProductMonotone
    <3> HIDE DEF I
    <3> QED BY <3>1, <3>2, <2>2, <1>2
  <2> QED BY <2>1, <2>2 DEF Due
<1>5. t.sentFailure - 1 = n
  BY <1>2, <1>3
<1> HIDE DEF t, I, n
<1>6. Spaced(t)
  BY <1>2, <1>3, <1>4, <1>5 DEF Spaced, I
<1> QED BY <1>3, <1>6 DEF t

LEMMA PersistedSpaced ==
  ASSUME Inv, NEW j \in Job, pc[j] \in {"sent", "unsent"}
  PROVE Persisted(j) \in AlertStates /\ Spaced(Persisted(j))
<1>1. view[j].alertState \in AlertStates /\ Spaced(view[j].alertState)
  BY ViewType DEF Inv, AlertsSpaced
<1>2. Upcoming(j) \in AlertStates /\ Spaced(Upcoming(j))
  BY <1>1, NextStateSpaced DEF Upcoming
<1>3. CASE pc[j] = "unsent"
  BY <1>2, <1>3 DEF Persisted
<1>4. CASE pc[j] = "sent" /\ view[j].verdict = "down"
  <2>1. Due(Upcoming(j).failures, FailureThreshold, Upcoming(j).sentFailure)
    BY <1>4 DEF Inv, JobInv, ShouldSend
  <2> QED BY <2>1, <1>2, <1>4, OneMoreSpaced DEF Persisted
<1>5. CASE pc[j] = "sent" /\ view[j].verdict # "down"
  <2>1. Persisted(j) = [Upcoming(j) EXCEPT !.sentRecovery = @ + 1]
    BY <1>5 DEF Persisted
  <2>2. /\ Persisted(j) \in AlertStates
        /\ Persisted(j).sentFailure = Upcoming(j).sentFailure
        /\ Persisted(j).failures = Upcoming(j).failures
    BY <2>1, <1>2 DEF AlertStates
  <2> QED BY <2>2, <1>2 DEF Spaced
<1> QED BY <1>3, <1>4, <1>5

LEMMA ZeroSpaced == Zero \in AlertStates /\ Spaced(Zero)
  BY AlertAssumption DEF Zero, AlertStates, Spaced

-----------------------------------------------------------------------------
LEMMA InitInv == Init => Inv
<1> SUFFICES ASSUME Init PROVE Inv
  OBVIOUS
<1>1. TypeOK
  BY ZeroSpaced, BoundAssumption DEF Init, TypeOK, NoView, Statuses, Verdicts, PCs
<1>2. JobInv
  BY DEF Init, JobInv, HoldsVerdict
<1>3. AlertsSpaced
  BY ZeroSpaced DEF Init, AlertsSpaced, NoView
<1> QED BY <1>1, <1>2, <1>3 DEF Inv

LEMMA JobParts == \A j \in Job : j[1] \in Group /\ j[2] \in Location
  BY DEF Job

Views == [verdict : Verdicts, status : Statuses, alertState : AlertStates]

\* What one job changes about itself keeps its type.
LEMMA JobStepType ==
  ASSUME TypeOK, NEW j \in Job, NEW p \in PCs, NEW n \in Nat, NEW v \in Views
  PROVE /\ [pc EXCEPT ![j] = p] \in [Job -> PCs]
        /\ [left EXCEPT ![j] = n] \in [Job -> Nat]
        /\ [view EXCEPT ![j] = v] \in [Job -> Views]
  BY DEF TypeOK, Views

LEMMA EndType ==
  ASSUME TypeOK, NEW j \in Job, End(j)
  PROVE pc' \in [Job -> PCs] /\ left' \in [Job -> Nat] /\ view' \in [Job -> Views]
<1>1. NoView \in Views
  BY ZeroSpaced DEF NoView, Views, Verdicts, Statuses
<1>2. "done" \in PCs
  BY DEF PCs
<1> QED BY <1>1, <1>2, JobStepType DEF End, Go

LEMMA NextType == Inv /\ [Next]_vars => TypeOK'
<1> SUFFICES ASSUME Inv, [Next]_vars PROVE TypeOK'
  OBVIOUS
<1> USE BoundAssumption DEF Inv, TypeOK, PCs, Statuses, Verdicts, Fault, Go, history, faults
<1> USE JobParts
<1>1. NoView \in [verdict : Verdicts, status : Statuses, alertState : AlertStates]
  BY ZeroSpaced DEF NoView
<1>2. ASSUME NEW g \in Group, Schedule(g) PROVE TypeOK'
  BY <1>2 DEF Schedule, Forget
<1>3. ASSUME NEW g \in Group, ScheduleBreaks(g) PROVE TypeOK'
  BY <1>3 DEF ScheduleBreaks, Forget
<1>4. ASSUME NEW g \in Group, ScheduleFails(g) PROVE TypeOK'
  BY <1>4 DEF ScheduleFails
<1>5. ASSUME NEW g \in Group, KeyExpires(g) PROVE TypeOK'
  BY <1>5 DEF KeyExpires
<1>6. ASSUME NEW j \in Job, Check(j) PROVE TypeOK'
  BY <1>6 DEF Check
<1>7. ASSUME NEW j \in Job, FinalFailure(j) PROVE TypeOK'
  <2>1. CASE row[j] # "none"
    BY <1>7, <2>1, EndType DEF FinalFailure, Views
  <2>2. CASE row[j] = "none"
    BY <1>7, <2>2 DEF FinalFailure
  <2> QED BY <2>1, <2>2
<1>8. ASSUME NEW j \in Job, Add(j) PROVE TypeOK'
  BY <1>8 DEF Add
<1>9. ASSUME NEW j \in Job, Count(j) PROVE TypeOK'
  <2>1. CASE seen[j[1]] # Location
    BY <1>9, <2>1, EndType DEF Count, Views
  <2>2. CASE seen[j[1]] = Location
    BY <1>9, <2>2 DEF Count
  <2> QED BY <2>1, <2>2
<1>10. ASSUME NEW j \in Job, Select(j) PROVE TypeOK'
  <2>1. PICK v \in Verdicts : view' = [view EXCEPT ![j].verdict = v]
    BY <1>10 DEF Select, Aggregated
  <2>2. view' \in [Job -> Views]
    BY <2>1 DEF Views
  <2> QED BY <1>10, <2>2 DEF Select, Views
<1>11. ASSUME NEW j \in Job, Delete(j) PROVE TypeOK'
  <2>1. seen' \in [Group -> SUBSET Location]
    BY <1>11 DEF Delete
  <2>2. CASE End(j)
    BY <1>11, <2>1, <2>2, EndType DEF Delete, Views
  <2>3. CASE ~End(j)
    BY <1>11, <2>1, <2>3 DEF Delete
  <2> QED BY <2>2, <2>3
<1>12. ASSUME NEW j \in Job, ReadMonitor(j) PROVE TypeOK'
  <2>1. view' \in [Job -> Views]
    BY <1>12 DEF ReadMonitor, Views
  <2> QED BY <1>12, <2>1 DEF ReadMonitor, Views
<1>13. ASSUME NEW j \in Job, SetStatus(j) PROVE TypeOK'
  BY <1>13 DEF SetStatus, Record, JobInv, HoldsVerdict
<1>14. ASSUME NEW j \in Job, SetStatusFails(j) PROVE TypeOK'
  BY <1>14 DEF SetStatusFails, Record
<1>15. ASSUME NEW j \in Job, Ignore(j) PROVE TypeOK'
  BY <1>15, EndType DEF Ignore, Views
<1>16. ASSUME NEW j \in Job, NoAlert(j) PROVE TypeOK'
  BY <1>16 DEF NoAlert
<1>17. ASSUME NEW j \in Job, Send(j) PROVE TypeOK'
  BY <1>17 DEF Send, Deliver
<1>18. ASSUME NEW j \in Job, SendFails(j) PROVE TypeOK'
  BY <1>18 DEF SendFails, Deliver
<1>19. ASSUME NEW j \in Job, Persist(j) PROVE TypeOK'
  <2>1. Persisted(j) \in AlertStates
    BY <1>19, PersistedSpaced DEF Persist
  <2> QED BY <1>19, <2>1, EndType DEF Persist, Views
<1>20. ASSUME NEW j \in Job, PersistFails(j) PROVE TypeOK'
  BY <1>20, EndType DEF PersistFails, Views
<1>21. ASSUME NEW j \in Job, Throws(j) PROVE TypeOK'
  <2>1. /\ pc' \in [Job -> PCs] /\ left' \in [Job -> Nat] /\ view' \in [Job -> Views]
    <3>1. NoView \in Views
      BY <1>1 DEF Views
    <3> DEFINE n == IF left[j] > 0 THEN left[j] - 1 ELSE 0
               p == IF left[j] > 1 THEN "queued" ELSE IF left[j] = 1 THEN "final" ELSE "done"
    <3>2. n \in Nat /\ p \in PCs
      OBVIOUS
    <3> QED BY <1>21, <3>1, <3>2, JobStepType DEF Throws
  <2>2. seen' \in [Group -> SUBSET Location]
    BY <1>21 DEF Throws
  <2> QED BY <1>21, <2>1, <2>2 DEF Throws, Views
<1>22. ASSUME NEW j \in Job, Crash(j) PROVE TypeOK'
  BY <1>22, <1>1 DEF Crash
<1>23. CASE UNCHANGED vars
  BY <1>23 DEF vars
<1> QED BY <1>2, <1>3, <1>4, <1>5, <1>6, <1>7, <1>8, <1>9, <1>10, <1>11, <1>12, <1>13, <1>14,
           <1>15, <1>16, <1>17, <1>18, <1>19, <1>20, <1>21, <1>22, <1>23 DEF Next, Step

\* A step that changes no counters and whose views are old ones, empty ones or copies of the
\* counters of the monitor keeps alerts spaced.
LEMMA CopiesSpaced ==
  ASSUME Inv, UNCHANGED alertState,
         \A j \in Job : view'[j].alertState \in {view[j].alertState, Zero, alertState}
  PROVE AlertsSpaced'
  BY ZeroSpaced DEF Inv, AlertsSpaced, Spaced

LEMMA NextSpaced == Inv /\ [Next]_vars => AlertsSpaced'
<1> SUFFICES ASSUME Inv, [Next]_vars PROVE AlertsSpaced'
  OBVIOUS
<1>1. ASSUME UNCHANGED alertState, NEW j \in Job,
             \/ UNCHANGED view
             \/ view' = [view EXCEPT ![j] = NoView]
             \/ \E v : view' = [view EXCEPT ![j].verdict = v]
             \/ view' = [view EXCEPT ![j].status = status, ![j].alertState = alertState]
      PROVE AlertsSpaced'
  <2>1. \A i \in Job : view'[i].alertState \in {view[i].alertState, Zero, alertState}
    BY <1>1 DEF Inv, TypeOK, NoView
  <2> QED BY <1>1, <2>1, CopiesSpaced
<1>2. ASSUME UNCHANGED <<alertState, view>> PROVE AlertsSpaced'
  BY <1>2 DEF Inv, AlertsSpaced, Spaced
<1>3. ASSUME NEW g \in Group,
             Schedule(g) \/ ScheduleBreaks(g) \/ ScheduleFails(g) \/ KeyExpires(g)
      PROVE AlertsSpaced'
  BY <1>2, <1>3 DEF Schedule, ScheduleBreaks, ScheduleFails, KeyExpires
<1>4. ASSUME NEW j \in Job,
             \/ Check(j) \/ Add(j) \/ SetStatus(j) \/ NoAlert(j) \/ Send(j)
             \/ SetStatusFails(j) \/ SendFails(j)
      PROVE AlertsSpaced'
  BY <1>2, <1>4 DEF Check, Add, SetStatus, NoAlert, Send, SetStatusFails, SendFails
<1>5. ASSUME NEW j \in Job,
             \/ FinalFailure(j) \/ Count(j) \/ Delete(j) \/ Ignore(j)
             \/ PersistFails(j) \/ Throws(j) \/ Crash(j)
      PROVE AlertsSpaced'
  BY <1>1, <1>5 DEF FinalFailure, Count, Delete, Ignore, PersistFails, Throws, Crash, End
<1>6. ASSUME NEW j \in Job, Select(j) PROVE AlertsSpaced'
  BY <1>1, <1>6 DEF Select
<1>7. ASSUME NEW j \in Job, ReadMonitor(j) PROVE AlertsSpaced'
  BY <1>1, <1>7 DEF ReadMonitor
<1>8. ASSUME NEW j \in Job, Persist(j) PROVE AlertsSpaced'
  <2>1. Spaced(alertState)'
    BY <1>8, PersistedSpaced DEF Persist, Spaced
  <2>2. \A i \in Job : view'[i].alertState \in {view[i].alertState, Zero}
    BY <1>8 DEF Persist, End, NoView, Inv, TypeOK
  <2>3. \A i \in Job : Spaced(view[i].alertState)'
    BY <2>2, ZeroSpaced DEF Inv, AlertsSpaced, Spaced
  <2> QED BY <2>1, <2>3 DEF AlertsSpaced
<1>9. CASE UNCHANGED vars
  BY <1>2, <1>9 DEF vars
<1> QED BY <1>3, <1>4, <1>5, <1>6, <1>7, <1>8, <1>9 DEF Next, Step

\* What JobInv says of one job depends on its place and its view.
OneJob(i) ==
  /\ pc[i] \in HoldsVerdict => view[i].verdict \in {"up", "down"}
  /\ pc[i] = "sent" => ShouldSend(i)

LEMMA OtherJobs ==
  ASSUME NEW i \in Job, OneJob(i), pc'[i] = pc[i], view'[i] = view[i]
  PROVE OneJob(i)'
  BY DEF OneJob, ShouldSend, Upcoming

LEMMA NextJobInv == Inv /\ [Next]_vars => JobInv'
<1> SUFFICES ASSUME Inv, [Next]_vars, NEW i \in Job PROVE OneJob(i)'
  BY DEF JobInv, OneJob
<1>0. OneJob(i)
  BY DEF Inv, JobInv, OneJob
<1> USE DEF Inv, TypeOK, Go
<1>1. ASSUME NEW g \in Group, Schedule(g) \/ ScheduleBreaks(g) \/ ScheduleFails(g)
      PROVE OneJob(i)'
  <2>1. view' = view /\ pc'[i] \in {pc[i], "queued", "done"}
    BY <1>1 DEF Schedule, ScheduleBreaks, ScheduleFails
  <2>2. CASE pc'[i] = pc[i]
    BY <1>0, <2>1, <2>2, OtherJobs
  <2>3. CASE pc'[i] \in {"queued", "done"}
    BY <2>3 DEF OneJob, HoldsVerdict
  <2> QED BY <2>1, <2>2, <2>3
<1>2. ASSUME NEW g \in Group, KeyExpires(g) PROVE OneJob(i)'
  BY <1>2, <1>0, OtherJobs DEF KeyExpires
<1>3. ASSUME NEW j \in Job, NEW p \in PCs, pc' = [pc EXCEPT ![j] = p], p \notin HoldsVerdict,
             \A k \in Job \ {j} : view'[k] = view[k]
      PROVE OneJob(i)'
  <2>1. CASE i = j
    BY <1>3, <2>1 DEF OneJob, HoldsVerdict
  <2>2. CASE i # j
    BY <1>0, <1>3, <2>2, OtherJobs
  <2> QED BY <2>1, <2>2
<1>4. ASSUME NEW j \in Job,
             \/ Check(j) \/ FinalFailure(j) \/ Add(j) \/ Count(j) \/ Select(j) \/ Ignore(j)
             \/ Persist(j) \/ PersistFails(j) \/ Throws(j) \/ Crash(j)
      PROVE OneJob(i)'
  BY <1>3, <1>4 DEF Check, FinalFailure, Add, Count, Select, Ignore, Persist, PersistFails,
     Throws, Crash, End, PCs, HoldsVerdict
<1>5. ASSUME NEW j \in Job, Delete(j) PROVE OneJob(i)'
  <2>1. CASE End(j)
    BY <1>3, <2>1 DEF End, PCs, HoldsVerdict
  <2>2. CASE ~End(j) /\ i = j
    BY <1>5, <2>2 DEF Delete, OneJob, HoldsVerdict, Verdicts
  <2>3. CASE ~End(j) /\ i # j
    BY <1>0, <1>5, <2>3, OtherJobs DEF Delete
  <2> QED BY <2>1, <2>2, <2>3
<1>6. ASSUME NEW j \in Job, ReadMonitor(j) PROVE OneJob(i)'
  <2>1. CASE i = j
    BY <1>0, <1>6, <2>1 DEF ReadMonitor, OneJob, HoldsVerdict
  <2>2. CASE i # j
    BY <1>0, <1>6, <2>2, OtherJobs DEF ReadMonitor
  <2> QED BY <2>1, <2>2
<1>7. ASSUME NEW j \in Job, SetStatus(j) \/ SetStatusFails(j) \/ NoAlert(j) \/ SendFails(j)
      PROVE OneJob(i)'
  <2>1. CASE i = j
    BY <1>0, <1>7, <2>1
       DEF SetStatus, SetStatusFails, NoAlert, SendFails, OneJob, HoldsVerdict
  <2>2. CASE i # j
    BY <1>0, <1>7, <2>2, OtherJobs DEF SetStatus, SetStatusFails, NoAlert, SendFails
  <2> QED BY <2>1, <2>2
<1>8. ASSUME NEW j \in Job, Send(j) PROVE OneJob(i)'
  <2>1. CASE i = j
    <3>1. view' = view /\ pc[i] = "alert" /\ pc'[i] = "sent" /\ ShouldSend(i)
      BY <1>8, <2>1 DEF Send
    <3>2. ShouldSend(i)'
      BY <3>1 DEF ShouldSend, Upcoming
    <3> QED BY <1>0, <3>1, <3>2 DEF OneJob, HoldsVerdict
  <2>2. CASE i # j
    BY <1>0, <1>8, <2>2, OtherJobs DEF Send
  <2> QED BY <2>1, <2>2
<1>9. CASE UNCHANGED vars
  BY <1>0, <1>9, OtherJobs DEF vars
<1> QED BY <1>1, <1>2, <1>4, <1>5, <1>6, <1>7, <1>8, <1>9 DEF Next, Step

-----------------------------------------------------------------------------
LEMMA NextInv == Inv /\ [Next]_vars => Inv'
  BY NextType, NextJobInv, NextSpaced DEF Inv

\* Every variable keeps its type: a verdict that is written is 'up' or 'down', for every
\* strategy and whatever rows are missing.
THEOREM TypeCorrect == Spec => []TypeOK
<1>1. Inv => TypeOK
  BY DEF Inv
<1> QED BY <1>1, InitInv, NextInv, PTL DEF Spec

\* The recorded failure alerts stay spaced and limited, for every number of overlapping
\* evaluations, lost writes and repeated jobs.
THEOREM AlertsAreSpaced == Spec => []AlertsSpaced
<1>1. Inv => AlertsSpaced
  BY DEF Inv
<1> QED BY <1>1, InitInv, NextInv, PTL DEF Spec
=============================================================================
