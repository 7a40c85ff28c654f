------------------------- MODULE MonitorGroupProofs -------------------------
(***************************************************************************)
(* No group is lost: in every behaviour of MonitorAggregation a group no   *)
(* fault happened to has its verdict when its jobs are done.               *)
(***************************************************************************)
EXTENDS MonitorAggregationProofs, FiniteSetTheorems

LEMMA LocationsExist == Location # {}
  BY LocationAssumption, FS_EmptySet

\* The locations of a group that have been through SADD.
Reported(g) == {l \in Location : pc[<<g, l>>] \notin {"none", "queued", "add"}}

\* A group without a verdict that no fault happened to: the rows of its checks are there, who
\* found it complete has seen them all, and either somebody is on the way to the verdict with
\* the set deleted, or the set holds who reported, and when it is complete somebody has yet to
\* look at it or to delete it.
OpenGroup(g) ==
  /\ \A j \in JobsOf(g) :
       /\ pc[j] \notin {"final", "alert", "sent", "unsent"}
       /\ row[j] = "none" => pc[j] \in {"none", "queued"}
       /\ pc[j] = "del" => view[j].verdict # "none"
       /\ pc[j] \in {"select", "del", "read", "status"} => Reported(g) = Location
  /\ \/ \E j \in JobsOf(g) : pc[j] \in {"read", "status"}
     \/ /\ seen[g] = Reported(g)
        /\ seen[g] = Location => \E j \in JobsOf(g) : pc[j] \in {"count", "select", "del"}

GroupInv == \A g \in Group \ (struck \cup counted) : OpenGroup(g)

-----------------------------------------------------------------------------
LEMMA JobsOfGroup ==
  /\ \A g \in Group : JobsOf(g) = {j \in Job : j[1] = g}
  /\ \A g \in Group, l \in Location : <<g, l>> \in JobsOf(g)
  /\ \A j \in Job : j = <<j[1], j[2]>> /\ j[1] \in Group /\ j[2] \in Location
  BY DEF JobsOf, Job

\* Such a group is under way.
LEMMA OpenIsNotEnded ==
  ASSUME NEW g \in Group, OpenGroup(g)
  PROVE ~Ended(g)
<1> SUFFICES ASSUME Ended(g) PROVE FALSE
  OBVIOUS
<1>1. Reported(g) = Location
  BY JobsOfGroup DEF Ended, Reported
<1> QED BY <1>1 DEF Ended, OpenGroup

\* The invariant of a group speaks of its own jobs and its own set only.
LEMMA OtherGroup ==
  ASSUME NEW g \in Group, OpenGroup(g), seen'[g] = seen[g],
         \A j \in JobsOf(g) : pc'[j] = pc[j] /\ row'[j] = row[j] /\ view'[j] = view[j]
  PROVE OpenGroup(g)'
<1>1. Reported(g)' = Reported(g)
  BY JobsOfGroup DEF Reported
<1>2. JobsOf(g)' = JobsOf(g)
  BY DEF JobsOf
<1> QED BY <1>1, <1>2 DEF OpenGroup

\* A job that has reported and goes on to a place behind SADD.
LEMMA ReportedStays ==
  ASSUME NEW g \in Group, NEW j \in JobsOf(g), NEW p, pc' = [pc EXCEPT ![j] = p], TypeOK,
         pc[j] \in {"none", "queued", "add"} <=> p \in {"none", "queued", "add"}
  PROVE Reported(g)' = Reported(g)
  BY JobsOfGroup DEF Reported, TypeOK

-----------------------------------------------------------------------------
\* The scheduler: the group itself is scheduled, or another one.
LEMMA ScheduleGroup ==
  ASSUME TypeOK, GroupInv, NEW h \in Group,
         Schedule(h) \/ ScheduleBreaks(h) \/ ScheduleFails(h) \/ KeyExpires(h),
         NEW g \in Group, g \notin struck', g \notin counted'
  PROVE OpenGroup(g)'
<1>1. OpenGroup(g) /\ ~Ended(g)
  <2>1. g \notin struck /\ g \notin counted
    BY DEF Schedule, ScheduleBreaks, ScheduleFails, KeyExpires, Fault, history, faults
  <2> QED BY <2>1, OpenIsNotEnded DEF GroupInv
<1>2. view' = view
  BY DEF Schedule, ScheduleBreaks, ScheduleFails, KeyExpires
<1>3. g # h \/ Schedule(h)
  BY DEF ScheduleBreaks, ScheduleFails, KeyExpires, Fault, TypeOK
<1>4. seen'[g] = seen[g] /\ \A j \in JobsOf(g) : row'[j] = row[j]
  <2>1. CASE Schedule(h) \/ ScheduleBreaks(h)
    BY <1>1, <2>1, JobsOfGroup DEF Schedule, ScheduleBreaks, Forget, TypeOK
  <2>2. CASE ScheduleFails(h)
    BY <2>2 DEF ScheduleFails
  <2>3. CASE KeyExpires(h) /\ g # h
    BY <2>3 DEF KeyExpires, TypeOK
  <2> QED BY <1>3, <2>1, <2>2, <2>3
<1>5. CASE g # h
  <2>1. \A j \in JobsOf(g) : pc'[j] = pc[j]
    BY <1>5, JobsOfGroup DEF Schedule, ScheduleBreaks, ScheduleFails, KeyExpires, TypeOK
  <2> QED BY <1>1, <1>2, <1>4, <2>1, OtherGroup
<1>6. CASE g = h
  <2>1. \A j \in JobsOf(g) : pc[j] = "none" /\ pc'[j] = "queued"
    BY <1>3, <1>6, JobsOfGroup DEF Schedule, Turn, TypeOK
  <2>2. Reported(g) = {} /\ Reported(g)' = {}
    BY <2>1, JobsOfGroup DEF Reported
  <2>3. seen'[g] = {} /\ Location # {}
    BY <1>1, <1>4, <2>1, <2>2, LocationsExist DEF OpenGroup
  <2>4. JobsOf(g)' = JobsOf(g)
    BY DEF JobsOf
  <2> QED BY <2>1, <2>2, <2>3, <2>4 DEF OpenGroup
<1> QED BY <1>5, <1>6

\* The jobs of other groups, and steps with a fault, do not touch it.
LEMMA StepElsewhere ==
  ASSUME TypeOK, NEW g \in Group, OpenGroup(g), NEW j \in Job, j[1] # g,
         \E p : pc' = [pc EXCEPT ![j] = p],
         \A i \in Job \ {j} : view'[i] = view[i],
         row' = row \/ \E r : row' = [row EXCEPT ![j] = r],
         seen' = seen \/ \E s : seen' = [seen EXCEPT ![j[1]] = s]
  PROVE OpenGroup(g)'
<1>1. seen'[g] = seen[g]
  BY JobsOfGroup DEF TypeOK
<1>2. \A i \in JobsOf(g) : i \in Job /\ i # j
  BY JobsOfGroup
<1>3. \A i \in JobsOf(g) : pc'[i] = pc[i] /\ row'[i] = row[i] /\ view'[i] = view[i]
  BY <1>2 DEF TypeOK
<1> QED BY <1>1, <1>3, OtherGroup

\* One step of a job of the group itself.
LEMMA StepOfOwnJob ==
  ASSUME TypeOK, JobInv, NEW g \in Group, OpenGroup(g), NEW j \in Job, j[1] = g,
         Check(j) \/ Add(j) \/ Count(j) \/ Select(j) \/ Delete(j) \/ ReadMonitor(j),
         g \notin struck'
  PROVE OpenGroup(g)'
<1>1. j \in JobsOf(g) /\ JobsOf(g) \subseteq Job /\ JobsOf(g)' = JobsOf(g)
  BY JobsOfGroup DEF JobsOf
<1>2. j = <<g, j[2]>> /\ j[2] \in Location
  BY JobsOfGroup
<1> USE <1>1 DEF TypeOK, Go
<1>3. CASE Check(j)
  <2>1. Reported(g)' = Reported(g)
    BY <1>3, ReportedStays DEF Check
  <2>2. row'[j] # "none" /\ \A i \in Job \ {j} : row'[i] = row[i]
    BY <1>3 DEF Check, Fault
  <2> QED BY <1>3, <2>1, <2>2 DEF OpenGroup, Check
<1>4. CASE Add(j)
  <2>1. Reported(g)' = Reported(g) \cup {j[2]}
    BY <1>2, <1>4, JobsOfGroup DEF Add, Reported
  <2>2. seen'[g] = seen[g] \cup {j[2]}
    BY <1>4 DEF Add
  <2> QED BY <1>4, <2>1, <2>2 DEF OpenGroup, Add, Reported
<1>5. CASE Count(j)
  <2>1. Reported(g)' = Reported(g)
    BY <1>5, ReportedStays DEF Count, End
  <2>2. CASE seen[g] # Location
    BY <1>5, <2>1, <2>2 DEF OpenGroup, Count, End
  <2>3. CASE seen[g] = Location
    BY <1>5, <2>1, <2>3 DEF OpenGroup, Count, Reported
  <2> QED BY <2>2, <2>3
<1>6. CASE Select(j)
  <2>1. Reported(g)' = Reported(g)
    BY <1>6, ReportedStays DEF Select
  <2>2. \A l \in Location : row[<<g, l>>] # "none"
    BY <1>6, JobsOfGroup DEF OpenGroup, Select, Reported
  <2>3. view'[j].verdict # "none" /\ \A i \in Job \ {j} : view'[i] = view[i]
    BY <1>6, <2>2 DEF Select, Aggregated
  <2> QED BY <1>6, <2>1, <2>3 DEF OpenGroup, Select
<1>7. CASE Delete(j)
  <2>1. Reported(g)' = Reported(g)
    BY <1>7, ReportedStays DEF Delete, End
  <2>2. pc' = [pc EXCEPT ![j] = "read"] /\ UNCHANGED <<view, row>>
    BY <1>7 DEF OpenGroup, Delete
  <2> QED BY <1>7, <2>1, <2>2 DEF OpenGroup, Delete
<1>8. CASE ReadMonitor(j)
  <2>1. Reported(g)' = Reported(g)
    BY <1>8, ReportedStays DEF ReadMonitor
  <2>2. \A i \in Job : view'[i].verdict = view[i].verdict
    BY <1>8 DEF ReadMonitor
  <2> QED BY <1>8, <2>1, <2>2 DEF OpenGroup, ReadMonitor
<1> QED BY <1>3, <1>4, <1>5, <1>6, <1>7, <1>8

LEMMA NextGroup == TypeOK /\ JobInv /\ GroupInv /\ [Next]_vars => GroupInv'
<1> SUFFICES ASSUME TypeOK, JobInv, GroupInv, [Next]_vars,
                    NEW g \in Group, g \notin struck', g \notin counted'
             PROVE  OpenGroup(g)'
  BY DEF GroupInv
<1>1. ASSUME NEW h \in Group,
             Schedule(h) \/ ScheduleBreaks(h) \/ ScheduleFails(h) \/ KeyExpires(h)
      PROVE OpenGroup(g)'
  BY <1>1, ScheduleGroup
<1>2. ASSUME NEW j \in Job,
             \/ Step(j) \/ SetStatusFails(j) \/ SendFails(j) \/ PersistFails(j)
             \/ Throws(j) \/ Crash(j)
      PROVE OpenGroup(g)'
  <2>1. g \notin struck /\ g \notin counted
    <3>1. struck \subseteq struck'
      BY <1>2 DEF Step, Check, FinalFailure, Add, Count, Select, Delete, ReadMonitor, SetStatus,
         Ignore, NoAlert, Send, Persist, SetStatusFails, SendFails, PersistFails, Throws, Crash,
         Fault, faults
    <3>2. counted \subseteq counted'
      BY <1>2 DEF Step, Check, FinalFailure, Add, Count, Select, Delete, ReadMonitor, SetStatus,
         Ignore, NoAlert, Send, Persist, SetStatusFails, SendFails, PersistFails, Throws, Crash,
         Record, Deliver, history
    <3> QED BY <3>1, <3>2
  <2>2. OpenGroup(g)
    BY <2>1 DEF GroupInv
  <2>3. CASE j[1] # g
    <3>1. \E p : pc' = [pc EXCEPT ![j] = p]
      BY <1>2 DEF Step, Check, FinalFailure, Add, Count, Select, Delete, ReadMonitor, SetStatus,
         Ignore, NoAlert, Send, Persist, SetStatusFails, SendFails, PersistFails, Throws, Crash,
         End, Go
    <3>2. \A i \in Job \ {j} : view'[i] = view[i]
      BY <1>2 DEF Step, Check, FinalFailure, Add, Count, Select, Delete, ReadMonitor, SetStatus,
         Ignore, NoAlert, Send, Persist, SetStatusFails, SendFails, PersistFails, Throws, Crash,
         End, TypeOK
    <3>3. row' = row \/ \E r : row' = [row EXCEPT ![j] = r]
      BY <1>2 DEF Step, Check, FinalFailure, Add, Count, Select, Delete, ReadMonitor, SetStatus,
         Ignore, NoAlert, Send, Persist, SetStatusFails, SendFails, PersistFails, Throws, Crash
    <3>4. seen' = seen \/ \E s : seen' = [seen EXCEPT ![j[1]] = s]
      BY <1>2 DEF Step, Check, FinalFailure, Add, Count, Select, Delete, ReadMonitor, SetStatus,
         Ignore, NoAlert, Send, Persist, SetStatusFails, SendFails, PersistFails, Throws, Crash
    <3> QED BY <2>2, <2>3, <3>1, <3>2, <3>3, <3>4, StepElsewhere
  <2>4. CASE j[1] = g
    <3>1. pc[j] \notin {"final", "alert", "sent", "unsent"}
      BY <2>2, <2>4, JobsOfGroup DEF OpenGroup
    <3>2. ~SetStatus(j)
      BY <2>1, <2>4 DEF SetStatus, Record
    <3>3. ~Fault(j[1])
      BY <2>4 DEF Fault
    <3>4. ~Throws(j) /\ ~Crash(j) /\ ~SetStatusFails(j) /\ ~SendFails(j) /\ ~PersistFails(j)
      BY <3>3 DEF Throws, Crash, SetStatusFails, SendFails, PersistFails
    <3>5. ~FinalFailure(j) /\ ~Ignore(j) /\ ~NoAlert(j) /\ ~Send(j) /\ ~Persist(j)
      BY <3>1 DEF FinalFailure, Ignore, NoAlert, Send, Persist
    <3>6. \/ Check(j) \/ Add(j) \/ Count(j) \/ Select(j) \/ Delete(j) \/ ReadMonitor(j)
      BY <1>2, <3>2, <3>4, <3>5 DEF Step
    <3> QED BY <2>2, <2>4, <3>6, StepOfOwnJob
  <2> QED BY <2>3, <2>4
<1>3. CASE UNCHANGED vars
  <2>1. OpenGroup(g)
    BY <1>3 DEF vars, GroupInv, history, faults
  <2> QED BY <1>3, <2>1, OtherGroup DEF vars
<1> QED BY <1>1, <1>2, <1>3 DEF Next

\* A group that no fault happened to is evaluated: at least one of its locations finds the
\* set complete, whatever the order of their steps and what happens to other groups.
THEOREM GroupsAreEvaluated == Spec => []EveryGroupEvaluated
<1>1. Init => GroupInv
  BY JobsOfGroup, LocationsExist DEF Init, GroupInv, OpenGroup, Reported
<1>2. GroupInv => EveryGroupEvaluated
  BY OpenIsNotEnded DEF GroupInv, EveryGroupEvaluated
<1>3. Inv => TypeOK /\ JobInv
  BY DEF Inv
<1> QED BY <1>1, <1>2, <1>3, InitInv, NextInv, NextGroup, PTL DEF Spec
=============================================================================
