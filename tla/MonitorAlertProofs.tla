------------------------- MODULE MonitorAlertProofs -------------------------
(***************************************************************************)
(* Alerts that are delivered: while evaluations do not overlap and lose no *)
(* write, the counters of MonitorAggregation stand for what was delivered  *)
(* and for the failures there really were.                                 *)
(***************************************************************************)
EXTENDS MonitorAggregationProofs, FiniteSetTheorems

\* From the write of the verdict to the write of the counters.
InFlight == {"alert", "sent", "unsent"}

OneEvaluates == \A i, j \in Job : pc[i] \in Evaluating /\ pc[j] \in Evaluating => i = j

\* Who found the set complete has deleted it, and is not in the one that may have started since.
HasLeft == \A j \in Job : pc[j] \in {"read", "status"} \cup InFlight => j[2] \notin seen[j[1]]

\* A group with a verdict gets no second one: the location that wrote it never comes back.
CountedIsOver ==
  \A g \in counted :
    /\ \A l \in Location : pc[<<g, l>>] \notin {"select", "del", "read", "status"}
    /\ \E k \in Location : pc[<<g, k>>] \in InFlight \cup {"done"} /\ k \notin seen[g]

\* What counters and status say of the alerts delivered and the down groups in a row.
Agrees(s, st) ==
  /\ st = "down" => delivered <= s.sentFailure
  /\ st # "down" => delivered = 0
  /\ st = "pending" => s.failures = 0
  /\ s.failures <= streak

\* The same of an evaluation whose counters are not yet written.
AgreesInFlight(j) ==
  /\ status # "pending"
  /\ view[j].verdict = "down" => status = "down"
  /\ view[j].status = "pending" => pc[j] = "alert" /\ alertState.failures = 0
  /\ view[j].verdict = "up" \/ view[j].status = "pending" => delivered = 0
  /\ view[j].verdict = "down" /\ view[j].status # "pending" =>
       /\ delivered <= Upcoming(j).sentFailure + (IF pc[j] = "sent" THEN 1 ELSE 0)
       /\ Upcoming(j).failures <= streak

Agreement ==
  /\ (\A j \in Job : pc[j] \notin InFlight) => Agrees(alertState, status)
  /\ \A j \in Job : pc[j] = "status" =>
       view[j].alertState = alertState /\ Agrees(alertState, view[j].status)
  /\ \A j \in Job : pc[j] \in InFlight => AgreesInFlight(j)

AlertInv ==
  /\ HasLeft
  /\ clean = "yes" => OneEvaluates /\ CountedIsOver /\ Agreement

-----------------------------------------------------------------------------
LEMMA JobPairs ==
  /\ \A j \in Job : j = <<j[1], j[2]>> /\ j[1] \in Group /\ j[2] \in Location
  /\ \A g \in Group, l \in Location :
       <<g, l>> \in Job /\ <<g, l>>[1] = g /\ <<g, l>>[2] = l
  BY DEF Job

LEMMA Cleanliness == TypeOK /\ [Next]_vars /\ clean' = "yes" => clean = "yes"
  BY DEF Next, Step, Schedule, ScheduleBreaks, ScheduleFails, KeyExpires, Check, FinalFailure, Add,
     Count, Select, Delete, ReadMonitor, SetStatus, Ignore, NoAlert, Send, Persist,
     SetStatusFails, SendFails, PersistFails, Throws, Crash, vars

\* The three ways in which a job moves while evaluations are clean, as far as alerts go.
JobMoves(j, places) ==
  /\ \E p \in places : pc' = [pc EXCEPT ![j] = p]
  /\ \A i \in Job \ {j} : view'[i] = view[i]

Elsewhere == {"queued", "add", "count", "select", "del", "read", "final", "done"}

LEMMA QuietMoves ==
  ASSUME TypeOK, NEW j \in Job, clean' = "yes",
         \/ Check(j) \/ FinalFailure(j) \/ Add(j) \/ Count(j) \/ Select(j) \/ Delete(j)
         \/ Throws(j) \/ Crash(j)
  PROVE /\ JobMoves(j, Elsewhere)
        /\ pc[j] \notin InFlight
        /\ UNCHANGED <<status, alertState, history>>
  BY DEF Check, FinalFailure, Add, Count, Select, Delete, Throws, Crash, End, Go, TypeOK,
     JobMoves, Elsewhere, InFlight, Evaluating, history

\* A group has its first verdict, or keeps the one it has.
LEMMA Sets ==
  ASSUME TypeOK, NEW j \in Job, clean' = "yes",
         SetStatus(j) \/ SetStatusFails(j)
  PROVE SetStatus(j)
  BY DEF SetStatusFails

LEMMA Sends ==
  ASSUME TypeOK, NEW j \in Job, clean' = "yes", SendFails(j)
  PROVE /\ pc[j] = "alert" /\ view[j].status # "pending"
        /\ pc' = [pc EXCEPT ![j] = "unsent"]
        /\ UNCHANGED <<status, alertState, row, seen, left, view, history, clean>>
  BY DEF SendFails, Go

-----------------------------------------------------------------------------
LEMMA NextHasLeft == TypeOK /\ HasLeft /\ [Next]_vars => HasLeft'
<1> SUFFICES ASSUME TypeOK, HasLeft, [Next]_vars, NEW i \in Job,
                    pc'[i] \in {"read", "status"} \cup InFlight
             PROVE  i[2] \notin seen'[i[1]]
  BY DEF HasLeft
<1> USE JobPairs DEF HasLeft, TypeOK, Go, InFlight
<1>1. ASSUME NEW g \in Group,
             Schedule(g) \/ ScheduleBreaks(g) \/ ScheduleFails(g) \/ KeyExpires(g)
      PROVE i[2] \notin seen'[i[1]]
  BY <1>1 DEF Schedule, ScheduleBreaks, ScheduleFails, KeyExpires, Forget
<1>2. ASSUME NEW j \in Job, Add(j) PROVE i[2] \notin seen'[i[1]]
  <2>1. i # j /\ pc'[i] = pc[i]
    BY <1>2 DEF Add
  <2>2. i[1] = j[1] => i[2] # j[2]
    BY <2>1
  <2> QED BY <1>2, <2>1, <2>2 DEF Add
<1>3. ASSUME NEW j \in Job, Throws(j) PROVE i[2] \notin seen'[i[1]]
  <2>1. i # j /\ pc'[i] = pc[i]
    BY <1>3 DEF Throws
  <2>2. i[1] = j[1] => i[2] # j[2]
    BY <2>1
  <2> QED BY <1>3, <2>1, <2>2 DEF Throws
<1>4. ASSUME NEW j \in Job, Delete(j) PROVE i[2] \notin seen'[i[1]]
  BY <1>4 DEF Delete, End
<1>5. ASSUME NEW j \in Job,
             \/ Check(j) \/ FinalFailure(j) \/ Count(j) \/ Select(j) \/ ReadMonitor(j)
             \/ SetStatus(j) \/ Ignore(j) \/ NoAlert(j) \/ Send(j) \/ Persist(j)
             \/ SetStatusFails(j) \/ SendFails(j) \/ PersistFails(j) \/ Crash(j)
      PROVE i[2] \notin seen'[i[1]]
  BY <1>5 DEF Check, FinalFailure, Count, Select, ReadMonitor, SetStatus, Ignore, NoAlert, Send,
     Persist, SetStatusFails, SendFails, PersistFails, Crash, End
<1>6. CASE UNCHANGED vars
  BY <1>6 DEF vars
<1> QED BY <1>1, <1>2, <1>3, <1>4, <1>5, <1>6 DEF Next, Step

LEMMA NextOne == TypeOK /\ OneEvaluates /\ [Next]_vars /\ clean' = "yes" => OneEvaluates'
<1> SUFFICES ASSUME TypeOK, OneEvaluates, [Next]_vars, clean' = "yes" PROVE OneEvaluates'
  OBVIOUS
<1>1. ASSUME \A i \in Job : pc'[i] \in Evaluating => pc[i] \in Evaluating
      PROVE OneEvaluates'
  BY <1>1 DEF OneEvaluates
<1> USE DEF TypeOK, Go, Evaluating
<1>2. ASSUME NEW g \in Group,
             Schedule(g) \/ ScheduleBreaks(g) \/ ScheduleFails(g) \/ KeyExpires(g)
      PROVE OneEvaluates'
  BY <1>1, <1>2 DEF Schedule, ScheduleBreaks, ScheduleFails, KeyExpires
<1>3. ASSUME NEW j \in Job, Count(j) PROVE OneEvaluates'
  BY <1>3 DEF Count, End, OneEvaluates
<1>4. ASSUME NEW j \in Job,
             \/ Check(j) \/ FinalFailure(j) \/ Add(j) \/ Select(j) \/ Delete(j) \/ ReadMonitor(j)
             \/ SetStatus(j) \/ Ignore(j) \/ NoAlert(j) \/ Send(j) \/ Persist(j)
             \/ SetStatusFails(j) \/ SendFails(j) \/ PersistFails(j) \/ Throws(j) \/ Crash(j)
      PROVE OneEvaluates'
  BY <1>1, <1>4 DEF Check, FinalFailure, Add, Select, Delete, ReadMonitor, SetStatus, Ignore,
     NoAlert, Send, Persist, SetStatusFails, SendFails, PersistFails, Throws, Crash, End
<1>5. CASE UNCHANGED vars
  BY <1>1, <1>5 DEF vars
<1> QED BY <1>2, <1>3, <1>4, <1>5 DEF Next, Step

-----------------------------------------------------------------------------
LEMMA NextCounted ==
  ASSUME TypeOK, HasLeft, OneEvaluates, CountedIsOver, [Next]_vars, clean' = "yes"
  PROVE CountedIsOver'
<1> USE JobPairs DEF TypeOK, Go
<1>1. SUFFICES ASSUME NEW g \in counted'
               PROVE  /\ \A l \in Location :
                           pc'[<<g, l>>] \notin {"select", "del", "read", "status"}
                      /\ \E k \in Location :
                           pc'[<<g, k>>] \in InFlight \cup {"done"} /\ k \notin seen'[g]
  BY DEF CountedIsOver
<1> DEFINE Over == /\ \A l \in Location :
                        pc'[<<g, l>>] \notin {"select", "del", "read", "status"}
                   /\ \E k \in Location :
                        pc'[<<g, k>>] \in InFlight \cup {"done"} /\ k \notin seen'[g]
<1>2. CASE g \notin counted
  <2>1. PICK j \in Job : SetStatus(j)
    BY <1>1, <1>2 DEF Next, Step, Schedule, ScheduleBreaks, ScheduleFails, KeyExpires, Check,
       FinalFailure, Add, Count, Select, Delete, ReadMonitor, Ignore, NoAlert, Send, Persist,
       SetStatusFails, SendFails, PersistFails, Throws, Crash, Deliver, history, vars
  <2>2. g = j[1]
    BY <1>1, <1>2, <2>1 DEF SetStatus, Record, history
  <2>3. j[2] \notin seen[g] /\ seen' = seen /\ pc[j] = "status"
    BY <2>1, <2>2 DEF SetStatus, HasLeft
  <2>4. pc'[j] = "alert" /\ \A i \in Job \ {j} : pc'[i] = pc[i] /\ pc[i] \notin Evaluating
    BY <2>1, <2>3 DEF SetStatus, OneEvaluates, Evaluating
  <2>5. j = <<g, j[2]>> /\ j[2] \in Location
    BY <2>2
  <2>6. \A l \in Location : <<g, l>> \in Job
    BY <2>2
  <2>7. \A l \in Location : pc'[<<g, l>>] \notin {"select", "del", "read", "status"}
    BY <2>4, <2>6 DEF Evaluating
  <2>8. pc'[<<g, j[2]>>] \in InFlight \cup {"done"} /\ j[2] \notin seen'[g]
    BY <2>3, <2>4, <2>5 DEF InFlight
  <2> QED BY <2>5, <2>7, <2>8
<1>3. CASE g \in counted
  <2>1. \A l \in Location : pc[<<g, l>>] \notin {"select", "del", "read", "status"}
    BY <1>3 DEF CountedIsOver
  <2>2. PICK k \in Location : pc[<<g, k>>] \in InFlight \cup {"done"} /\ k \notin seen[g]
    BY <1>3 DEF CountedIsOver
  <2>3. g \in Group /\ <<g, k>> \in Job
    BY <1>3
  <2>4. ASSUME NEW h \in Group,
               Schedule(h) \/ ScheduleBreaks(h) \/ ScheduleFails(h) \/ KeyExpires(h)
        PROVE Over
    <3>1. CASE KeyExpires(h)
      BY <2>1, <2>2, <2>3, <3>1 DEF KeyExpires
    <3>2. CASE ~KeyExpires(h)
      <4>1. h # g
        BY <2>2, <2>3, <2>4, <3>2
           DEF Schedule, ScheduleBreaks, ScheduleFails, Turn, JobsOf, InFlight
      <4>2. \A l \in Location : pc'[<<g, l>>] = pc[<<g, l>>]
        BY <2>3, <2>4, <3>2, <4>1 DEF Schedule, ScheduleBreaks, ScheduleFails
      <4>3. seen'[g] \subseteq seen[g]
        BY <2>3, <2>4, <3>2 DEF Schedule, ScheduleBreaks, ScheduleFails, Forget
      <4> QED BY <2>1, <2>2, <4>2, <4>3
    <3> QED BY <3>1, <3>2
  <2>5. ASSUME NEW j \in Job, Add(j) \/ Throws(j) PROVE Over
    <3>1. j # <<g, k>>
      BY <2>2, <2>5 DEF Add, Throws, InFlight
    <3>2. j[1] = g => j[2] # k
      BY <3>1
    <3>3. k \notin seen'[g]
      BY <2>2, <2>3, <2>5, <3>2 DEF Add, Throws
    <3>4. pc'[<<g, k>>] = pc[<<g, k>>]
      BY <2>3, <2>5, <3>1 DEF Add, Throws
    <3>5. \A l \in Location : pc'[<<g, l>>] \in {pc[<<g, l>>], "count", "queued", "final", "done"}
      BY <2>3, <2>5 DEF Add, Throws
    <3> QED BY <2>1, <2>2, <3>3, <3>4, <3>5
  <2>6. ASSUME NEW j \in Job,
               Select(j) \/ Delete(j) \/ ReadMonitor(j) \/ SetStatus(j) \/ SetStatusFails(j)
        PROVE Over
    <3>1. j[1] # g
      BY <2>1, <2>6 DEF Select, Delete, ReadMonitor, SetStatus, SetStatusFails
    <3>2. \A l \in Location : pc'[<<g, l>>] = pc[<<g, l>>]
      BY <2>3, <2>6, <3>1 DEF Select, Delete, ReadMonitor, SetStatus, SetStatusFails, End
    <3>3. seen'[g] = seen[g]
      BY <2>3, <2>6, <3>1 DEF Select, Delete, ReadMonitor, SetStatus, SetStatusFails
    <3> QED BY <2>1, <2>2, <3>2, <3>3
  <2>7. ASSUME NEW j \in Job, Count(j) PROVE Over
    <3>1. CASE j[1] = g
      <4>1. seen[g] # Location
        BY <2>2
      <4>2. pc[j] = "count" /\ pc' = [pc EXCEPT ![j] = "done"] /\ seen' = seen
        BY <2>7, <3>1, <4>1 DEF Count, End
      <4>3. j # <<g, k>>
        BY <2>2, <4>2 DEF InFlight
      <4>4. \A l \in Location : pc'[<<g, l>>] \in {pc[<<g, l>>], "done"}
        BY <2>3, <4>2
      <4>5. pc'[<<g, k>>] = pc[<<g, k>>]
        BY <2>3, <4>2, <4>3
      <4> QED BY <2>1, <2>2, <4>2, <4>4, <4>5
    <3>2. CASE j[1] # g
      <4>1. \A l \in Location : pc'[<<g, l>>] = pc[<<g, l>>]
        BY <2>3, <2>7, <3>2 DEF Count, End
      <4> QED BY <2>1, <2>2, <2>7, <4>1 DEF Count
    <3> QED BY <3>1, <3>2
  <2>8. ASSUME NEW j \in Job,
               \/ Ignore(j) \/ NoAlert(j) \/ Send(j) \/ Persist(j) \/ SendFails(j)
               \/ PersistFails(j)
        PROVE Over
    <3>1. seen' = seen /\ pc[j] \in InFlight
      BY <2>8 DEF Ignore, NoAlert, Send, Persist, SendFails, PersistFails, InFlight
    <3>2. pc'[j] \in InFlight \cup {"done"} /\ \A i \in Job \ {j} : pc'[i] = pc[i]
      BY <2>8 DEF Ignore, NoAlert, Send, Persist, SendFails, PersistFails, End, InFlight
    <3> QED BY <2>1, <2>2, <2>3, <3>1, <3>2 DEF InFlight
  <2>9. ASSUME NEW j \in Job, Check(j) \/ FinalFailure(j) \/ Crash(j) PROVE Over
    <3>1. pc[j] \notin InFlight \cup {"done"} /\ seen' = seen
      BY <2>9 DEF Check, FinalFailure, Crash, InFlight, Evaluating
    <3>2. pc'[j] \in {"add", "done", "queued"} /\ \A i \in Job \ {j} : pc'[i] = pc[i]
      BY <2>9 DEF Check, FinalFailure, Crash, End
    <3> QED BY <2>1, <2>2, <2>3, <3>1, <3>2
  <2>10. CASE UNCHANGED vars
    BY <2>1, <2>2, <2>10 DEF vars
  <2> QED BY <2>4, <2>5, <2>6, <2>7, <2>8, <2>9, <2>10 DEF Next, Step
<1> QED BY <1>2, <1>3

-----------------------------------------------------------------------------
\* The counters after a verdict.
LEMMA UpcomingCounts ==
  ASSUME TypeOK, NEW j \in Job
  PROVE /\ Upcoming(j) \in AlertStates
        /\ view[j].verdict = "down" /\ view[j].status = "down" =>
             /\ Upcoming(j).failures = view[j].alertState.failures + 1
             /\ Upcoming(j).sentFailure = view[j].alertState.sentFailure
        /\ view[j].verdict = "down" /\ view[j].status # "down" =>
             Upcoming(j).failures = 1 /\ Upcoming(j).sentFailure = 0
        /\ view[j].verdict = "up" => Upcoming(j).failures = 0
<1>1. view[j].alertState \in AlertStates
  BY ViewType
<1>2. CASE view[j].verdict = "down" /\ view[j].status = "down"
  <2>1. Upcoming(j) = [failures |-> view[j].alertState.failures + 1, successes |-> 0,
                       sentFailure |-> view[j].alertState.sentFailure, sentRecovery |-> 0]
    BY <1>2 DEF Upcoming, NextAlertState, Zero
  <2> QED BY <1>1, <1>2, <2>1 DEF AlertStates
<1>3. CASE view[j].verdict = "down" /\ view[j].status # "down"
  <2>1. Upcoming(j) = [failures |-> 0 + 1, successes |-> 0, sentFailure |-> 0, sentRecovery |-> 0]
    BY <1>3 DEF Upcoming, NextAlertState, Zero
  <2> QED BY <1>3, <2>1 DEF AlertStates
<1>4. CASE view[j].verdict # "down"
  <2>1. PICK n \in Nat, m \in Nat :
          Upcoming(j) = [failures |-> 0, successes |-> n, sentFailure |-> 0, sentRecovery |-> m]
    <3>1. CASE view[j].status = view[j].verdict
      <4>1. Upcoming(j) = [failures |-> 0, successes |-> view[j].alertState.successes + 1,
                           sentFailure |-> 0, sentRecovery |-> view[j].alertState.sentRecovery]
        BY <1>4, <3>1 DEF Upcoming, NextAlertState, Zero
      <4>2. view[j].alertState.successes + 1 \in Nat /\ view[j].alertState.sentRecovery \in Nat
        BY <1>1 DEF AlertStates
      <4> QED BY <4>1, <4>2
    <3>2. CASE view[j].status # view[j].verdict
      <4>1. Upcoming(j) = [failures |-> 0, successes |-> 0 + 1,
                           sentFailure |-> 0, sentRecovery |-> 0]
        BY <1>4, <3>2 DEF Upcoming, NextAlertState, Zero
      <4> QED BY <4>1
    <3> QED BY <3>1, <3>2
  <2> QED BY <1>4, <2>1 DEF AlertStates
<1> QED BY <1>2, <1>3, <1>4

\* A job that is not at work on the monitor moves.
LEMMA SteadyAgreement ==
  ASSUME TypeOK, Agreement, NEW j \in Job, JobMoves(j, Elsewhere), pc[j] \notin InFlight,
         UNCHANGED <<status, alertState, history>>
  PROVE Agreement'
<1>1. pc'[j] \notin InFlight \cup {"status"}
  BY DEF JobMoves, Elsewhere, InFlight, TypeOK
<1>2. \A i \in Job \ {j} : pc'[i] = pc[i] /\ view'[i] = view[i]
  BY DEF JobMoves, TypeOK
<1>3. (\A i \in Job : pc'[i] \notin InFlight) => Agrees(alertState, status)'
  BY <1>1, <1>2 DEF Agreement, Agrees, history
<1>4. ASSUME NEW i \in Job, pc'[i] = "status"
      PROVE  view'[i].alertState = alertState' /\ Agrees(alertState, view[i].status)'
  BY <1>1, <1>2, <1>4 DEF Agreement, Agrees, history
<1>5. ASSUME NEW i \in Job, pc'[i] \in InFlight PROVE AgreesInFlight(i)'
  <2>1. i # j /\ pc'[i] = pc[i] /\ view'[i] = view[i]
    BY <1>1, <1>2, <1>5
  <2>2. Upcoming(i)' = Upcoming(i)
    BY <2>1 DEF Upcoming
  <2> QED BY <1>5, <2>1, <2>2 DEF Agreement, AgreesInFlight, history
<1> QED BY <1>3, <1>4, <1>5 DEF Agreement

\* The evaluation that is at work is the only one: what is to be shown is about it.
LEMMA OwnAgreement ==
  ASSUME TypeOK, OneEvaluates, NEW j \in Job, pc[j] \in Evaluating,
         NEW p, pc' = [pc EXCEPT ![j] = p],
         p \notin InFlight => Agrees(alertState, status)',
         p = "status" => view'[j].alertState = alertState' /\ Agrees(alertState, view[j].status)',
         p \in InFlight => AgreesInFlight(j)'
  PROVE Agreement'
<1>1. \A i \in Job \ {j} : pc'[i] \notin InFlight \cup {"status"}
  BY DEF OneEvaluates, Evaluating, InFlight, TypeOK
<1>2. pc'[j] = p
  BY DEF TypeOK
<1> QED BY <1>1, <1>2 DEF Agreement

LEMMA SetStatusAgreement ==
  ASSUME TypeOK, JobInv, OneEvaluates, CountedIsOver, Agreement, NEW j \in Job, SetStatus(j)
  PROVE Agreement'
<1>1. /\ pc[j] = "status" /\ pc' = [pc EXCEPT ![j] = "alert"]
      /\ status' = view[j].verdict /\ view' = view /\ alertState' = alertState
  BY DEF SetStatus, Go
<1>2. view[j].verdict \in {"up", "down"} /\ view[j].status \in Statuses
  BY <1>1, ViewType DEF JobInv, HoldsVerdict
<1>3. view[j].alertState = alertState /\ Agrees(alertState, view[j].status)
  BY <1>1 DEF Agreement
<1>4. j[1] \notin counted
  BY <1>1, JobPairs DEF CountedIsOver
<1>5. /\ streak' = IF view[j].verdict = "down" /\ view[j].status # "pending" THEN streak + 1 ELSE 0
      /\ delivered' = IF view[j].verdict = "up" THEN 0 ELSE delivered
  BY <1>4 DEF SetStatus, Record
<1>6. Upcoming(j)' = Upcoming(j) /\ pc'[j] = "alert"
  BY <1>1 DEF Upcoming, TypeOK
<1>7. alertState \in AlertStates /\ streak \in Nat /\ delivered \in Nat
  BY DEF TypeOK
<1>8. /\ status' # "pending" /\ (view[j].verdict = "down" => status' = "down")
      /\ view[j].status = "pending" => alertState.failures = 0
      /\ view[j].verdict = "up" \/ view[j].status = "pending" => delivered' = 0
  BY <1>1, <1>2, <1>3, <1>5 DEF Agrees
<1>9. view[j].verdict = "down" /\ view[j].status # "pending" =>
        delivered' <= Upcoming(j).sentFailure /\ Upcoming(j).failures <= streak'
  BY <1>2, <1>3, <1>5, <1>7, UpcomingCounts DEF Agrees, AlertStates
<1>10. AgreesInFlight(j)'
  <2>1. Upcoming(j).sentFailure + 0 = Upcoming(j).sentFailure
    BY UpcomingCounts DEF AlertStates
  <2> QED BY <1>1, <1>6, <1>8, <1>9, <2>1 DEF AgreesInFlight
<1> QED BY <1>1, <1>10, OwnAgreement DEF Evaluating, InFlight

LEMMA AlertAgreement ==
  ASSUME TypeOK, JobInv, OneEvaluates, Agreement, NEW j \in Job, clean' = "yes",
         Ignore(j) \/ NoAlert(j) \/ Send(j) \/ SendFails(j) \/ Persist(j) \/ PersistFails(j)
  PROVE Agreement'
<1>1. pc[j] \in InFlight /\ pc[j] \in Evaluating
  BY DEF Ignore, NoAlert, Send, SendFails, Persist, PersistFails, InFlight, Evaluating
<1>2. AgreesInFlight(j)
  BY <1>1 DEF Agreement
<1>3. view[j].verdict \in {"up", "down"} /\ Upcoming(j) \in AlertStates
  BY <1>1, UpcomingCounts DEF JobInv, HoldsVerdict, InFlight
<1>4. alertState \in AlertStates /\ streak \in Nat /\ delivered \in Nat
  BY DEF TypeOK
<1>5. CASE Ignore(j)
  <2>1. Agrees(alertState, status)'
    BY <1>2, <1>4, <1>5 DEF Ignore, AgreesInFlight, Agrees, AlertStates, history
  <2>2. pc' = [pc EXCEPT ![j] = "done"]
    BY <1>5 DEF Ignore, End, Go
  <2> QED BY <1>1, <2>1, <2>2, OwnAgreement DEF InFlight
<1>6. CASE NoAlert(j) \/ SendFails(j)
  <2>1. /\ pc[j] = "alert" /\ view[j].status # "pending" /\ pc' = [pc EXCEPT ![j] = "unsent"]
        /\ UNCHANGED <<status, alertState, view, history>>
    BY <1>6, Sends DEF NoAlert, Go
  <2>2. Upcoming(j)' = Upcoming(j) /\ pc'[j] = "unsent"
    BY <2>1 DEF Upcoming, TypeOK
  <2>3. AgreesInFlight(j)'
    BY <1>2, <2>1, <2>2 DEF AgreesInFlight, history
  <2> QED BY <1>1, <2>1, <2>3, OwnAgreement DEF InFlight
<1>7. CASE Send(j)
  <2>1. /\ pc[j] = "alert" /\ view[j].status # "pending" /\ pc' = [pc EXCEPT ![j] = "sent"]
        /\ UNCHANGED <<status, alertState, view, streak>>
        /\ delivered' = IF view[j].verdict = "down" THEN delivered + 1 ELSE delivered
    BY <1>7 DEF Send, Go, Deliver
  <2>2. Upcoming(j)' = Upcoming(j) /\ pc'[j] = "sent"
    BY <2>1 DEF Upcoming, TypeOK
  <2>3. view[j].verdict = "down" =>
          delivered' <= Upcoming(j).sentFailure + 1 /\ Upcoming(j).failures <= streak
    BY <1>2, <1>3, <1>4, <2>1 DEF AgreesInFlight, AlertStates
  <2>4. AgreesInFlight(j)'
    BY <1>2, <1>3, <2>1, <2>2, <2>3 DEF AgreesInFlight
  <2> QED BY <1>1, <2>1, <2>4, OwnAgreement DEF InFlight
<1>8. CASE Persist(j)
  <2>1. /\ pc[j] \in {"sent", "unsent"} /\ pc' = [pc EXCEPT ![j] = "done"]
        /\ alertState' = Persisted(j) /\ UNCHANGED <<status, history>>
    BY <1>8 DEF Persist, End, Go
  <2>2. view[j].status # "pending" /\ status # "pending"
    BY <1>2, <2>1 DEF AgreesInFlight
  <2>3. CASE view[j].verdict = "down"
    <3>1. /\ Persisted(j).failures = Upcoming(j).failures
          /\ Persisted(j).sentFailure = Upcoming(j).sentFailure + (IF pc[j] = "sent" THEN 1 ELSE 0)
      BY <1>3, <2>1, <2>3 DEF Persisted, AlertStates
    <3>2. status = "down" /\ delivered <= Persisted(j).sentFailure /\ Persisted(j).failures <= streak
      BY <1>2, <2>2, <2>3, <3>1 DEF AgreesInFlight
    <3>3. Agrees(alertState, status)'
      BY <2>1, <3>2 DEF Agrees, history
    <3> QED BY <1>1, <2>1, <3>3, OwnAgreement DEF InFlight
  <2>4. CASE view[j].verdict = "up"
    <3>1. Persisted(j).failures = 0 /\ Persisted(j).sentFailure \in Nat
      BY <1>3, <2>1, <2>4, UpcomingCounts DEF Persisted, AlertStates
    <3>2. Agrees(alertState, status)'
      BY <1>2, <1>4, <2>1, <2>2, <2>4, <3>1 DEF Agrees, AgreesInFlight, history
    <3> QED BY <1>1, <2>1, <3>2, OwnAgreement DEF InFlight
  <2> QED BY <1>3, <2>3, <2>4
<1>9. CASE PersistFails(j)
  BY <1>9 DEF PersistFails
<1> QED BY <1>5, <1>6, <1>7, <1>8, <1>9

LEMMA ScheduleAgreement ==
  ASSUME TypeOK, Agreement, NEW g \in Group,
         Schedule(g) \/ ScheduleBreaks(g) \/ ScheduleFails(g) \/ KeyExpires(g)
  PROVE Agreement'
<1>1. /\ UNCHANGED <<alertState, view, history>> /\ status' \in {status, "down"}
      /\ \A i \in Job : \/ pc'[i] = pc[i]
                        \/ pc'[i] \in {"queued", "done"} /\ pc[i] = "none"
  BY JobPairs DEF Schedule, ScheduleBreaks, ScheduleFails, KeyExpires, Turn, JobsOf, Job, TypeOK,
     history
<1>2. ASSUME \A i \in Job : pc'[i] \notin InFlight PROVE Agrees(alertState, status)'
  <2>1. Agrees(alertState, status)
    BY <1>1, <1>2 DEF Agreement, InFlight
  <2> QED BY <1>1, <2>1 DEF Agrees, history, TypeOK, AlertStates
<1>3. ASSUME NEW i \in Job, pc'[i] = "status"
      PROVE  view'[i].alertState = alertState' /\ Agrees(alertState, view[i].status)'
  BY <1>1, <1>3 DEF Agreement, Agrees, history
<1>4. ASSUME NEW i \in Job, pc'[i] \in InFlight PROVE AgreesInFlight(i)'
  <2>1. pc'[i] = pc[i] /\ view'[i] = view[i]
    BY <1>1, <1>4 DEF InFlight
  <2>2. Upcoming(i)' = Upcoming(i)
    BY <2>1 DEF Upcoming
  <2> QED BY <1>1, <1>4, <2>1, <2>2 DEF Agreement, AgreesInFlight, history
<1> QED BY <1>2, <1>3, <1>4 DEF Agreement

LEMMA NextAgreement ==
  ASSUME TypeOK, JobInv, OneEvaluates, CountedIsOver, Agreement, [Next]_vars, clean' = "yes"
  PROVE Agreement'
<1>1. ASSUME NEW g \in Group,
             Schedule(g) \/ ScheduleBreaks(g) \/ ScheduleFails(g) \/ KeyExpires(g)
      PROVE Agreement'
  BY <1>1, ScheduleAgreement
<1>2. ASSUME NEW j \in Job,
             \/ Check(j) \/ FinalFailure(j) \/ Add(j) \/ Count(j) \/ Select(j) \/ Delete(j)
             \/ Throws(j) \/ Crash(j)
      PROVE Agreement'
  BY <1>2, QuietMoves, SteadyAgreement
<1>3. ASSUME NEW j \in Job, ReadMonitor(j) PROVE Agreement'
  <2>1. /\ pc[j] = "read" /\ pc' = [pc EXCEPT ![j] = "status"]
        /\ UNCHANGED <<status, alertState, history>>
        /\ view'[j].alertState = alertState /\ view'[j].status = status
    BY <1>3 DEF ReadMonitor, Go, TypeOK
  <2>2. \A i \in Job : pc[i] \notin InFlight
    BY <2>1 DEF OneEvaluates, Evaluating, InFlight
  <2>3. Agrees(alertState, status)
    BY <2>2 DEF Agreement
  <2>4. Agrees(alertState, status)' /\ Agrees(alertState, view[j].status)'
    BY <2>1, <2>3 DEF Agrees, history
  <2> QED BY <2>1, <2>4, OwnAgreement DEF Evaluating, InFlight
<1>4. ASSUME NEW j \in Job, SetStatus(j) \/ SetStatusFails(j) PROVE Agreement'
  BY <1>4, Sets, SetStatusAgreement
<1>5. ASSUME NEW j \in Job,
             \/ Ignore(j) \/ NoAlert(j) \/ Send(j) \/ SendFails(j) \/ Persist(j)
             \/ PersistFails(j)
      PROVE Agreement'
  BY <1>5, AlertAgreement
<1>6. CASE UNCHANGED vars
  <2>1. \A i \in Job : Upcoming(i)' = Upcoming(i)
    BY <1>6 DEF vars, Upcoming
  <2> QED BY <1>6, <2>1 DEF vars, history, Agreement, Agrees, AgreesInFlight
<1> QED BY <1>1, <1>2, <1>3, <1>4, <1>5, <1>6 DEF Next, Step

-----------------------------------------------------------------------------
LEMMA InitAlertInv == Init => AlertInv
  BY DEF Init, AlertInv, HasLeft, OneEvaluates, Evaluating, CountedIsOver, InFlight, Agreement,
     Agrees, Zero

LEMMA NextAlertInv == Inv /\ AlertInv /\ [Next]_vars => AlertInv'
<1> SUFFICES ASSUME Inv, AlertInv, [Next]_vars PROVE AlertInv'
  OBVIOUS
<1>1. TypeOK /\ JobInv
  BY DEF Inv
<1>2. HasLeft'
  BY <1>1, NextHasLeft DEF AlertInv
<1>3. ASSUME clean' = "yes" PROVE OneEvaluates' /\ CountedIsOver' /\ Agreement'
  <2>1. HasLeft /\ OneEvaluates /\ CountedIsOver /\ Agreement
    BY <1>1, <1>3, Cleanliness DEF AlertInv
  <2> QED BY <1>1, <1>3, <2>1, NextOne, NextCounted, NextAgreement
<1> QED BY <1>2, <1>3 DEF AlertInv

\* At most MaxAlerts failure alerts are delivered in a row of down groups, as long as
\* evaluations do not overlap and lose no write, for all thresholds and strategies.
THEOREM AlertsAreLimited == Spec => []AlertsLimited
<1>1. Inv /\ AlertInv => AlertsLimited
  <2> SUFFICES ASSUME Inv, Agreement PROVE delivered <= MaxAlerts
    BY DEF AlertInv, AlertsLimited
  <2> USE AlertAssumption
  <2>1. TypeOK /\ JobInv /\ delivered \in Nat /\ alertState \in AlertStates
    BY DEF Inv, TypeOK
  <2>2. CASE \A j \in Job : pc[j] \notin InFlight
    BY <2>1, <2>2 DEF Agreement, Agrees, Inv, AlertsSpaced, Spaced, AlertStates
  <2>3. ASSUME NEW j \in Job, pc[j] \in InFlight PROVE delivered <= MaxAlerts
    <3>1. AgreesInFlight(j) /\ view[j].verdict \in {"up", "down"}
      BY <2>1, <2>3 DEF Agreement, JobInv, HoldsVerdict, InFlight
    <3>2. CASE delivered = 0
      BY <3>2
    <3>3. CASE delivered # 0 /\ pc[j] = "sent"
      <4>1. Persisted(j) \in AlertStates /\ Persisted(j).sentFailure <= MaxAlerts
        BY <3>3, PersistedSpaced DEF Spaced
      <4>2. Persisted(j).sentFailure = Upcoming(j).sentFailure + 1
        BY <2>1, <3>1, <3>3, UpcomingCounts DEF Persisted, AgreesInFlight, AlertStates
      <4> QED BY <2>1, <3>1, <3>3, <4>1, <4>2 DEF AgreesInFlight, AlertStates
    <3>4. CASE delivered # 0 /\ pc[j] # "sent"
      <4>1. Upcoming(j) \in AlertStates /\ Upcoming(j).sentFailure <= MaxAlerts
        BY <2>1, ViewType, NextStateSpaced DEF Inv, AlertsSpaced, Upcoming, Spaced
      <4> QED BY <2>1, <3>1, <3>4, <4>1 DEF AgreesInFlight, AlertStates
    <3> QED BY <3>2, <3>3, <3>4
  <2> QED BY <2>2, <2>3
<1> QED BY <1>1, InitInv, NextInv, InitAlertInv, NextAlertInv, PTL DEF Spec

\* A failure alert is delivered only after FailureThreshold down groups in a row, under the
\* same proviso.
THEOREM AlertsAreEarned == Spec => AlertsEarned
<1> DEFINE Earned == delivered' > delivered /\ clean' = "yes" => streak >= FailureThreshold
<1>1. Inv /\ AlertInv /\ [Next]_vars => [Earned]_vars
  <2> SUFFICES ASSUME Inv, AlertInv, [Next]_vars, delivered' > delivered, clean' = "yes"
               PROVE  streak >= FailureThreshold
    OBVIOUS
  <2>1. TypeOK /\ Agreement
    BY Cleanliness DEF Inv, AlertInv
  <2>2. delivered \in Nat /\ streak \in Nat /\ FailureThreshold \in Nat
    BY <2>1, AlertAssumption DEF TypeOK
  <2>3. PICK j \in Job : Send(j) \/ SetStatus(j) \/ SetStatusFails(j) \/ SendFails(j)
    <3>1. delivered' # delivered
      BY <2>2
    <3>2. ASSUME NEW g \in Group,
                 Schedule(g) \/ ScheduleBreaks(g) \/ ScheduleFails(g) \/ KeyExpires(g)
          PROVE FALSE
      BY <3>1, <3>2 DEF Schedule, ScheduleBreaks, ScheduleFails, KeyExpires, history
    <3>3. ASSUME NEW j \in Job,
                 \/ Check(j) \/ FinalFailure(j) \/ Add(j) \/ Count(j) \/ Select(j) \/ Delete(j)
                 \/ Throws(j) \/ Crash(j)
          PROVE FALSE
      BY <2>1, <3>1, <3>3, QuietMoves DEF history
    <3>4. ASSUME NEW j \in Job,
                 \/ ReadMonitor(j) \/ Ignore(j) \/ NoAlert(j) \/ Persist(j) \/ PersistFails(j)
          PROVE FALSE
      BY <3>1, <3>4 DEF ReadMonitor, Ignore, NoAlert, Persist, PersistFails, history
    <3> QED BY <3>1, <3>2, <3>3, <3>4 DEF Next, Step, vars, history
  <2>4. Send(j) /\ view[j].verdict = "down"
    BY <2>2, <2>3 DEF Send, SetStatus, SetStatusFails, SendFails, Record, Deliver, history
  <2>5. pc[j] = "alert" /\ view[j].status # "pending" /\ ShouldSend(j)
    BY <2>4 DEF Send
  <2>6. Upcoming(j).failures <= streak
    BY <2>1, <2>4, <2>5 DEF Agreement, AgreesInFlight, InFlight
  <2>7. Upcoming(j).failures >= FailureThreshold /\ Upcoming(j).failures \in Nat
    BY <2>1, <2>2, <2>4, <2>5, UpcomingCounts DEF ShouldSend, Due, AlertStates
  <2> QED BY <2>2, <2>6, <2>7
<1> QED BY <1>1, InitInv, NextInv, InitAlertInv, NextAlertInv, PTL DEF Spec, AlertsEarned

-----------------------------------------------------------------------------
(* Without faults the counters are exact, and every alert comes on time.   *)

\* The s alerts of n down groups in a row: none before the threshold, then as many as
\* there were moments for one, up to MaxAlerts.
OnTime(n, s) ==
  IF n < FailureThreshold
  THEN s = 0
  ELSE /\ s \in 1 .. MaxAlerts
       /\ (s - 1) * Interval(FailureThreshold) <= n - FailureThreshold
       /\ s = MaxAlerts \/ n - FailureThreshold < s * Interval(FailureThreshold)

\* Agrees and AgreesInFlight are bounds, enough to say that there are no too many alerts;
\* that none is missing needs the counters to be equal to what they count.
Keeps(s, st) ==
  /\ st = "down" => s.failures = streak /\ s.sentFailure = delivered
  /\ st # "down" => streak = 0
  /\ st = "pending" => s.sentFailure = 0
  /\ OnTime(streak, delivered)

KeepsInFlight(j) ==
  /\ status = view[j].verdict
  /\ view[j].verdict = "up" \/ view[j].status = "pending" => streak = 0
  /\ view[j].status = "pending" => alertState.sentFailure = 0
  /\ view[j].verdict = "down" /\ view[j].status # "pending" =>
       /\ Upcoming(j).failures = streak /\ streak > 0
       /\ delivered = Upcoming(j).sentFailure + (IF pc[j] = "sent" THEN 1 ELSE 0)
       /\ OnTime(IF pc[j] = "alert" THEN streak - 1 ELSE streak, delivered)

Punctual ==
  /\ (\A j \in Job : pc[j] \notin InFlight) => Keeps(alertState, status)
  /\ \A j \in Job : pc[j] = "status" => Keeps(alertState, view[j].status)
  /\ \A j \in Job : pc[j] \in InFlight => KeepsInFlight(j)

PunctualInv == nfaults = 0 /\ clean = "yes" => Punctual

LEMMA IntervalPositive == Interval(FailureThreshold) \in Nat \ {0}
  BY AlertAssumption DEF Interval

\* One more down group: the alert that Due calls for keeps the row on time, and so does
\* sending none when it does not.
LEMMA DueIsOnTime ==
  ASSUME NEW n \in Nat \ {0}, NEW s \in Nat, OnTime(n - 1, s)
  PROVE  OnTime(n, IF Due(n, FailureThreshold, s) THEN s + 1 ELSE s)
<1> DEFINE I == Interval(FailureThreshold)
           F == FailureThreshold
<1>1. I \in Nat \ {0} /\ F \in Nat \ {0} /\ MaxAlerts \in Nat \ {0}
  BY IntervalPositive, AlertAssumption
<1>2. CASE n < F
  BY <1>1, <1>2 DEF Due, OnTime
<1>3. CASE n = F
  <2>1. s = 0 /\ Due(n, F, s)
    BY <1>1, <1>3 DEF Due, OnTime
  <2>2. 0 * I = 0 /\ 1 * I = I
    BY <1>1
  <2> HIDE DEF I
  <2>3. OnTime(n, 1)
    BY <1>1, <1>3, <2>2 DEF OnTime, I
  <2> QED BY <2>1, <2>3
<1>4. CASE n > F
  <2>1. /\ s \in 1 .. MaxAlerts
        /\ (s - 1) * I <= n - 1 - F
        /\ s = MaxAlerts \/ n - 1 - F < s * I
    BY <1>1, <1>4 DEF OnTime
  <2>2. s * I \in Nat /\ (s - 1) * I \in Nat /\ (s + 1) * I = s * I + I /\ s + 1 - 1 = s
    BY <1>1, <2>1
  <2>3. s <= s * I
    BY <1>1, <2>1, ProductMonotone
  <2>4. ASSUME Due(n, F, s) PROVE s < MaxAlerts /\ n - F = s * I
    <3>1. PICK k \in 0 .. n : s < MaxAlerts /\ k >= s /\ n - F = k * I
      BY <1>1, <1>4, <2>4 DEF Due
    <3>2. s * I <= k * I
      BY <1>1, <3>1, ProductMonotone
    <3> HIDE DEF I
    <3> QED BY <1>1, <1>4, <2>1, <2>2, <3>1, <3>2
  <2>5. ASSUME s < MaxAlerts, n - F = s * I PROVE Due(n, F, s)
    <3>1. s \in 0 .. n
      <4> HIDE DEF I
      <4> QED BY <1>1, <2>2, <2>3, <2>5
    <3> QED BY <1>4, <2>5, <3>1 DEF Due
  <2> HIDE DEF I
  <2>6. CASE Due(n, F, s)
    <3>1. OnTime(n, s + 1)
      BY <1>1, <1>4, <2>1, <2>2, <2>4, <2>6 DEF OnTime, I
    <3> QED BY <2>6, <3>1
  <2>7. CASE ~Due(n, F, s)
    <3>1. OnTime(n, s)
      BY <1>1, <1>4, <2>1, <2>2, <2>5, <2>7 DEF OnTime, I
    <3> QED BY <2>7, <3>1
  <2> QED BY <2>6, <2>7
<1> QED BY <1>1, <1>2, <1>3, <1>4

\* Being on time is having had one alert for each of the moments.
LEMMA OnTimeCounts ==
  ASSUME NEW n \in Nat, NEW s \in Nat, OnTime(n, s)
  PROVE  s = Cardinality(Moments(n))
<1> DEFINE I == Interval(FailureThreshold)
           F == FailureThreshold
<1>1. I \in Nat \ {0} /\ F \in Nat \ {0} /\ MaxAlerts \in Nat \ {0}
  BY IntervalPositive, AlertAssumption
<1>2. \A k \in Int : k * I \in Int
  BY <1>1
<1>3. s \in 0 .. MaxAlerts
  BY <1>1 DEF OnTime
<1>4. ASSUME NEW k \in 0 .. MaxAlerts - 1 PROVE F + k * I <= n <=> k < s
  <2>1. CASE n < F
    <3>1. 0 * I <= k * I /\ 0 * I = 0
      BY <1>1, <1>4, ProductMonotone
    <3> HIDE DEF I
    <3> QED BY <1>1, <1>2, <1>4, <2>1, <3>1 DEF OnTime
  <2>2. CASE n >= F
    <3>1. /\ s \in 1 .. MaxAlerts
          /\ (s - 1) * I <= n - F
          /\ s = MaxAlerts \/ n - F < s * I
      BY <1>1, <2>2 DEF OnTime
    <3>2. k <= s - 1 => k * I <= (s - 1) * I
      BY <1>1, <1>3, <1>4, ProductMonotone
    <3>3. s <= k => s * I <= k * I
      BY <1>1, <1>3, <1>4, ProductMonotone
    <3>4. k * I \in Int /\ s * I \in Int /\ (s - 1) * I \in Int
      BY <1>2, <1>3, <1>4
    <3> HIDE DEF I
    <3> QED BY <1>1, <1>3, <1>4, <2>2, <3>1, <3>2, <3>3, <3>4
  <2> QED BY <1>1, <2>1, <2>2
<1>5. Moments(n) = 0 .. s - 1
  <2> HIDE DEF I
  <2> QED BY <1>1, <1>3, <1>4 DEF Moments, I
<1>6. Cardinality(0 .. s - 1) = s
  BY FS_Interval
<1> QED BY <1>5, <1>6

\* Without a fault only the jobs and the scheduler move.
LEMMA FaultFree ==
  ASSUME TypeOK, [Next]_vars, nfaults' = 0
  PROVE  /\ nfaults = 0
         /\ (\E g \in Group : Schedule(g)) \/ (\E j \in Job : Step(j)) \/ UNCHANGED vars
<1>1. nfaults \in Nat
  BY BoundAssumption DEF TypeOK
<1>2. ASSUME NEW g \in Group PROVE ~Fault(g)
  BY <1>1 DEF Fault
<1>3. \A j \in Job : j[1] \in Group
  BY JobPairs
<1>4. ASSUME NEW g \in Group, ScheduleBreaks(g) \/ ScheduleFails(g) \/ KeyExpires(g) PROVE FALSE
  BY <1>2, <1>4 DEF ScheduleBreaks, ScheduleFails, KeyExpires
<1>5. ASSUME NEW j \in Job,
             \/ SetStatusFails(j) \/ SendFails(j) \/ PersistFails(j) \/ Throws(j) \/ Crash(j)
      PROVE FALSE
  BY <1>2, <1>3, <1>5 DEF SetStatusFails, SendFails, PersistFails, Throws, Crash
<1>6. (\E g \in Group : Schedule(g)) \/ (\E j \in Job : Step(j)) \/ UNCHANGED vars
  BY <1>4, <1>5 DEF Next
<1>7. ASSUME NEW j \in Job, Check(j) \/ FinalFailure(j) PROVE nfaults = 0
  BY <1>2, <1>3, <1>7 DEF Check, FinalFailure, faults
<1>8. ASSUME NEW j \in Job, Step(j), ~Check(j), ~FinalFailure(j) PROVE nfaults = 0
  BY <1>8 DEF Step, Add, Count, Select, Delete, ReadMonitor, SetStatus, Ignore, NoAlert, Send,
     Persist, faults
<1>9. CASE (\E g \in Group : Schedule(g)) \/ UNCHANGED vars
  BY <1>9 DEF Schedule, vars, faults
<1> QED BY <1>6, <1>7, <1>8, <1>9

\* SteadyAgreement and OwnAgreement for the exact counters.
LEMMA SteadyPunctual ==
  ASSUME TypeOK, Punctual, UNCHANGED <<status, alertState, history>>,
         \A i \in Job : \/ pc'[i] = pc[i] /\ view'[i] = view[i]
                        \/ pc'[i] \notin InFlight \cup {"status"} /\ pc[i] \notin InFlight
  PROVE  Punctual'
<1>1. (\A i \in Job : pc'[i] \notin InFlight) => Keeps(alertState, status)'
  BY DEF Punctual, Keeps, history
<1>2. ASSUME NEW i \in Job, pc'[i] = "status" PROVE Keeps(alertState, view[i].status)'
  BY <1>2 DEF Punctual, Keeps, history
<1>3. ASSUME NEW i \in Job, pc'[i] \in InFlight PROVE KeepsInFlight(i)'
  <2>1. pc'[i] = pc[i] /\ view'[i] = view[i]
    BY <1>3
  <2>2. Upcoming(i)' = Upcoming(i)
    BY <2>1 DEF Upcoming
  <2> QED BY <1>3, <2>1, <2>2 DEF Punctual, KeepsInFlight, history
<1> QED BY <1>1, <1>2, <1>3 DEF Punctual

LEMMA OwnPunctual ==
  ASSUME TypeOK, OneEvaluates, NEW j \in Job, pc[j] \in Evaluating,
         NEW p, pc' = [pc EXCEPT ![j] = p],
         p \notin InFlight => Keeps(alertState, status)',
         p = "status" => Keeps(alertState, view[j].status)',
         p \in InFlight => KeepsInFlight(j)'
  PROVE  Punctual'
<1>1. \A i \in Job \ {j} : pc'[i] \notin InFlight \cup {"status"}
  BY DEF OneEvaluates, Evaluating, InFlight, TypeOK
<1>2. pc'[j] = p
  BY DEF TypeOK
<1> QED BY <1>1, <1>2 DEF Punctual

LEMMA SetStatusPunctual ==
  ASSUME TypeOK, JobInv, OneEvaluates, CountedIsOver, Agreement, Punctual,
         NEW j \in Job, SetStatus(j)
  PROVE  Punctual'
<1>1. /\ pc[j] = "status" /\ pc' = [pc EXCEPT ![j] = "alert"]
      /\ status' = view[j].verdict /\ view' = view /\ alertState' = alertState
  BY DEF SetStatus, Go
<1>2. view[j].verdict \in {"up", "down"} /\ view[j].status \in Statuses
  BY <1>1, ViewType DEF JobInv, HoldsVerdict
<1>3. view[j].alertState = alertState /\ Keeps(alertState, view[j].status)
  BY <1>1 DEF Agreement, Punctual
<1>4. j[1] \notin counted
  BY <1>1, JobPairs DEF CountedIsOver
<1>5. /\ streak' = IF view[j].verdict = "down" /\ view[j].status # "pending" THEN streak + 1 ELSE 0
      /\ delivered' = IF view[j].verdict = "up" THEN 0 ELSE delivered
  BY <1>4 DEF SetStatus, Record
<1>6. Upcoming(j)' = Upcoming(j) /\ pc'[j] = "alert"
  BY <1>1 DEF Upcoming, TypeOK
<1>7. alertState \in AlertStates /\ streak \in Nat /\ delivered \in Nat
  BY DEF TypeOK
<1>8. ASSUME view[j].verdict = "down", view[j].status # "pending"
      PROVE  /\ Upcoming(j).failures = streak' /\ streak' > 0
             /\ delivered' = Upcoming(j).sentFailure
             /\ OnTime(streak' - 1, delivered')
  <2>1. streak' = streak + 1 /\ delivered' = delivered /\ streak' - 1 = streak
    BY <1>5, <1>7, <1>8
  <2>2. OnTime(streak' - 1, delivered')
    BY <1>3, <2>1 DEF Keeps
  <2>3. CASE view[j].status = "down"
    BY <1>3, <1>7, <1>8, <2>1, <2>2, <2>3, UpcomingCounts DEF Keeps
  <2>4. CASE view[j].status # "down"
    <3>1. streak = 0 /\ delivered = 0
      BY <1>3, <2>4, AlertAssumption DEF Keeps, OnTime
    <3> QED BY <1>7, <1>8, <2>1, <2>2, <2>4, <3>1, UpcomingCounts
  <2> QED BY <2>3, <2>4
<1>9. KeepsInFlight(j)'
  <2>1. Upcoming(j).sentFailure + 0 = Upcoming(j).sentFailure
    BY UpcomingCounts DEF AlertStates
  <2>2. view[j].verdict = "up" \/ view[j].status = "pending" => streak' = 0
    BY <1>2, <1>5
  <2>3. view[j].status = "pending" => alertState.sentFailure = 0
    BY <1>3 DEF Keeps
  <2> QED BY <1>1, <1>6, <1>8, <2>1, <2>2, <2>3 DEF KeepsInFlight
<1> QED BY <1>1, <1>9, OwnPunctual DEF Evaluating, InFlight

LEMMA AlertPunctual ==
  ASSUME TypeOK, JobInv, OneEvaluates, Agreement, Punctual, NEW j \in Job,
         Ignore(j) \/ NoAlert(j) \/ Send(j) \/ Persist(j)
  PROVE  Punctual'
<1>1. pc[j] \in InFlight /\ pc[j] \in Evaluating
  BY DEF Ignore, NoAlert, Send, Persist, InFlight, Evaluating
<1>2. AgreesInFlight(j) /\ KeepsInFlight(j)
  BY <1>1 DEF Agreement, Punctual
<1>3. view[j].verdict \in {"up", "down"} /\ Upcoming(j) \in AlertStates
  BY <1>1, UpcomingCounts DEF JobInv, HoldsVerdict, InFlight
<1>4. alertState \in AlertStates /\ streak \in Nat /\ delivered \in Nat
  BY DEF TypeOK
<1>5. streak = 0 /\ delivered = 0 => OnTime(streak, delivered)
  BY AlertAssumption DEF OnTime
<1>6. ASSUME view[j].verdict = "down", view[j].status # "pending", pc[j] = "alert"
      PROVE  /\ Due(streak, FailureThreshold, delivered) <=> ShouldSend(j)
             /\ OnTime(streak, IF ShouldSend(j) THEN delivered + 1 ELSE delivered)
  <2>1. /\ Upcoming(j).failures = streak /\ streak > 0
        /\ Upcoming(j).sentFailure = delivered
        /\ OnTime(streak - 1, delivered)
    BY <1>2, <1>3, <1>6 DEF KeepsInFlight, AlertStates
  <2>2. Due(streak, FailureThreshold, delivered) <=> ShouldSend(j)
    BY <1>6, <2>1 DEF ShouldSend
  <2>3. streak \in Nat \ {0}
    BY <1>4, <2>1
  <2> QED BY <1>4, <2>1, <2>2, <2>3, DueIsOnTime
<1>7. CASE Ignore(j)
  <2>1. pc' = [pc EXCEPT ![j] = "done"] /\ UNCHANGED <<status, alertState, history>>
    BY <1>7 DEF Ignore, End, Go
  <2>2. /\ alertState.failures = 0 /\ alertState.sentFailure = 0
        /\ streak = 0 /\ delivered = 0
    BY <1>2, <1>7 DEF Ignore, AgreesInFlight, KeepsInFlight
  <2>3. Keeps(alertState, status)'
    BY <1>5, <2>1, <2>2 DEF Keeps, history
  <2> QED BY <1>1, <2>1, <2>3, OwnPunctual DEF InFlight
<1>8. CASE NoAlert(j)
  <2>1. /\ pc[j] = "alert" /\ view[j].status # "pending" /\ pc' = [pc EXCEPT ![j] = "unsent"]
        /\ UNCHANGED <<status, alertState, view, history>> /\ ~ShouldSend(j)
    BY <1>8 DEF NoAlert, Go
  <2>2. Upcoming(j)' = Upcoming(j) /\ pc'[j] = "unsent"
    BY <2>1 DEF Upcoming, TypeOK
  <2>3. KeepsInFlight(j)'
    BY <1>2, <1>6, <2>1, <2>2 DEF KeepsInFlight, history
  <2> QED BY <1>1, <2>1, <2>3, OwnPunctual DEF InFlight
<1>9. CASE Send(j)
  <2>1. /\ pc[j] = "alert" /\ view[j].status # "pending" /\ pc' = [pc EXCEPT ![j] = "sent"]
        /\ UNCHANGED <<status, alertState, view, streak>> /\ ShouldSend(j)
        /\ delivered' = IF view[j].verdict = "down" THEN delivered + 1 ELSE delivered
    BY <1>9 DEF Send, Go, Deliver
  <2>2. Upcoming(j)' = Upcoming(j) /\ pc'[j] = "sent"
    BY <2>1 DEF Upcoming, TypeOK
  <2>3. ASSUME view[j].verdict = "down"
        PROVE  delivered' = Upcoming(j).sentFailure + 1 /\ OnTime(streak, delivered')
    <3>1. delivered = Upcoming(j).sentFailure + 0
      BY <1>2, <2>1, <2>3 DEF KeepsInFlight
    <3> QED BY <1>3, <1>6, <2>1, <2>3, <3>1 DEF AlertStates
  <2>4. KeepsInFlight(j)'
    BY <1>2, <2>1, <2>2, <2>3 DEF KeepsInFlight
  <2> QED BY <1>1, <2>1, <2>4, OwnPunctual DEF InFlight
<1>10. CASE Persist(j)
  <2>1. /\ pc[j] \in {"sent", "unsent"} /\ pc' = [pc EXCEPT ![j] = "done"]
        /\ alertState' = Persisted(j) /\ UNCHANGED <<status, history>>
    BY <1>10 DEF Persist, End, Go
  <2>2. view[j].status # "pending" /\ status = view[j].verdict
    BY <1>2, <2>1 DEF AgreesInFlight, KeepsInFlight
  <2>3. CASE view[j].verdict = "down"
    <3>1. /\ Persisted(j).failures = Upcoming(j).failures
          /\ Persisted(j).sentFailure = Upcoming(j).sentFailure + (IF pc[j] = "sent" THEN 1 ELSE 0)
      BY <1>3, <2>1, <2>3 DEF Persisted, AlertStates
    <3>2. /\ Persisted(j).failures = streak /\ Persisted(j).sentFailure = delivered
          /\ OnTime(streak, delivered)
      BY <1>2, <2>1, <2>2, <2>3, <3>1 DEF KeepsInFlight
    <3>3. Keeps(alertState, status)'
      BY <2>1, <2>2, <2>3, <3>2 DEF Keeps, history
    <3> QED BY <1>1, <2>1, <3>3, OwnPunctual DEF InFlight
  <2>4. CASE view[j].verdict = "up"
    <3>1. streak = 0 /\ delivered = 0
      BY <1>2, <2>4 DEF AgreesInFlight, KeepsInFlight
    <3>2. Keeps(alertState, status)'
      BY <1>5, <2>1, <2>2, <2>4, <3>1 DEF Keeps, history
    <3> QED BY <1>1, <2>1, <3>2, OwnPunctual DEF InFlight
  <2> QED BY <1>3, <2>3, <2>4
<1> QED BY <1>7, <1>8, <1>9, <1>10

LEMMA NextPunctual == Inv /\ AlertInv /\ PunctualInv /\ [Next]_vars => PunctualInv'
<1> SUFFICES ASSUME Inv, AlertInv, PunctualInv, [Next]_vars, nfaults' = 0, clean' = "yes"
             PROVE  Punctual'
  BY DEF PunctualInv
<1>1. /\ TypeOK /\ JobInv /\ OneEvaluates /\ CountedIsOver /\ Agreement /\ Punctual
      /\ (\E g \in Group : Schedule(g)) \/ (\E j \in Job : Step(j)) \/ UNCHANGED vars
  BY Cleanliness, FaultFree DEF Inv, AlertInv, PunctualInv
<1>2. ASSUME NEW g \in Group, Schedule(g) PROVE Punctual'
  <2>1. /\ UNCHANGED <<status, alertState, view, history>>
        /\ \A i \in Job : \/ pc'[i] = pc[i]
                          \/ pc'[i] = "queued" /\ pc[i] = "none"
    BY <1>1, <1>2, JobPairs DEF Schedule, Turn, JobsOf, Job, TypeOK
  <2> QED BY <1>1, <2>1, SteadyPunctual DEF InFlight
<1>3. ASSUME NEW j \in Job,
             \/ Check(j) \/ FinalFailure(j) \/ Add(j) \/ Count(j) \/ Select(j) \/ Delete(j)
      PROVE Punctual'
  <2>1. /\ JobMoves(j, Elsewhere) /\ pc[j] \notin InFlight
        /\ UNCHANGED <<status, alertState, history>>
    BY <1>1, <1>3, QuietMoves
  <2>2. pc'[j] \notin InFlight \cup {"status"}
    BY <1>1, <2>1 DEF JobMoves, Elsewhere, InFlight, TypeOK
  <2>3. \A i \in Job \ {j} : pc'[i] = pc[i] /\ view'[i] = view[i]
    BY <1>1, <2>1 DEF JobMoves, TypeOK
  <2> QED BY <1>1, <2>1, <2>2, <2>3, SteadyPunctual
<1>4. ASSUME NEW j \in Job, ReadMonitor(j) PROVE Punctual'
  <2>1. /\ pc[j] = "read" /\ pc' = [pc EXCEPT ![j] = "status"]
        /\ UNCHANGED <<status, alertState, history>> /\ view'[j].status = status
    BY <1>1, <1>4 DEF ReadMonitor, Go, TypeOK
  <2>2. \A i \in Job : pc[i] \notin InFlight
    BY <1>1, <2>1 DEF OneEvaluates, Evaluating, InFlight
  <2>3. Keeps(alertState, status)
    BY <1>1, <2>2 DEF Punctual
  <2>4. Keeps(alertState, status)' /\ Keeps(alertState, view[j].status)'
    BY <2>1, <2>3 DEF Keeps, history
  <2> QED BY <1>1, <2>1, <2>4, OwnPunctual DEF Evaluating, InFlight
<1>5. ASSUME NEW j \in Job, SetStatus(j) PROVE Punctual'
  BY <1>1, <1>5, SetStatusPunctual
<1>6. ASSUME NEW j \in Job, Ignore(j) \/ NoAlert(j) \/ Send(j) \/ Persist(j) PROVE Punctual'
  BY <1>1, <1>6, AlertPunctual
<1>7. CASE UNCHANGED vars
  BY <1>1, <1>7, SteadyPunctual DEF vars
<1> QED BY <1>1, <1>2, <1>3, <1>4, <1>5, <1>6, <1>7 DEF Step

LEMMA InitPunctual == Init => PunctualInv
  BY AlertAssumption
     DEF Init, PunctualInv, Punctual, Keeps, OnTime, InFlight, Zero

\* While nothing fails and evaluations do not overlap, a row of down groups has had
\* exactly the failure alerts of its length: none is missed, late, early or repeated, for
\* all thresholds, intervals, limits, strategies and numbers of locations.
THEOREM AlertsAreOnSchedule == Spec => []AlertsOnSchedule
<1>1. Inv /\ AlertInv /\ PunctualInv => AlertsOnSchedule
  <2> SUFFICES ASSUME Inv, AlertInv, PunctualInv, nfaults = 0, clean = "yes",
                      \A j \in Job : pc[j] # "alert"
               PROVE  delivered = Cardinality(Moments(streak))
    BY DEF AlertsOnSchedule
  <2>1. TypeOK /\ JobInv /\ Agreement /\ Punctual /\ streak \in Nat /\ delivered \in Nat
    BY DEF Inv, TypeOK, AlertInv, PunctualInv
  <2>2. CASE \A j \in Job : pc[j] \notin InFlight
    BY <2>1, <2>2, OnTimeCounts DEF Punctual, Keeps
  <2>3. ASSUME NEW j \in Job, pc[j] \in InFlight PROVE OnTime(streak, delivered)
    <3>1. AgreesInFlight(j) /\ KeepsInFlight(j) /\ pc[j] # "alert"
      BY <2>1, <2>3 DEF Agreement, Punctual
    <3>2. view[j].verdict \in {"up", "down"}
      BY <2>1, <2>3 DEF JobInv, HoldsVerdict, InFlight
    <3>3. CASE view[j].verdict = "down"
      BY <3>1, <3>3 DEF AgreesInFlight, KeepsInFlight
    <3>4. CASE view[j].verdict = "up"
      BY <3>1, <3>4, AlertAssumption DEF AgreesInFlight, KeepsInFlight, OnTime
    <3> QED BY <3>2, <3>3, <3>4
  <2> QED BY <2>1, <2>2, <2>3, OnTimeCounts
<1> QED
  BY <1>1, InitInv, NextInv, InitAlertInv, NextAlertInv, InitPunctual, NextPunctual, PTL DEF Spec
=============================================================================
