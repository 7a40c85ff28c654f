-------------------------- MODULE MCCapacityManager --------------------------
(* CapacityManager on small sets of runs and replicas.                      *)
EXTENDS CapacityManager, TLC

CONSTANTS r1, r2, r3, r4, p1, p2

TwoRuns == {r1, r2}
ThreeRuns == {r1, r2, r3}
FourRuns == {r1, r2, r3, r4}
OneReplica == {p1}
TwoReplicas == {p1, p2}
OneCancel == {r1}
NoCancel == {}

\* BullMQ takes back the job of the cancelled run only, or no job.
OneRequeue == [r \in Run |-> IF r = r1 THEN 1 ELSE 0]
NoRequeue == [r \in Run |-> 0]

\* The runs that are not cancelled, and the replicas, are interchangeable.
Symmetry == Permutations(Run \ Cancellable) \cup Permutations(Replica)
=============================================================================
