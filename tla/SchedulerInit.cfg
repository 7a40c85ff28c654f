\* Three replicas, every kind of work, two overruns, two faults.
SPECIFICATION Spec
CONSTANTS
  Replica = {r1, r2, r3}
  NoReplica = NoReplica
  Service = {"jobs", "monitors", "cleanup"}
  MaxAttempts = 2
  MaxFaults = 2
  MaxOverruns = 2
INVARIANTS
  TypeOK
  OverlapBounded
  LockMeansWork
PROPERTIES
  LockIsFreed
\* All replicas have answered.
CHECK_DEADLOCK FALSE
