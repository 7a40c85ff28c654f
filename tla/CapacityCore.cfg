\* Admission without faults and without reconciliation.
SPECIFICATION CoreSpec
CONSTANTS
  r1 = r1
  r2 = r2
  r3 = r3
  r4 = r4
  p1 = p1
  p2 = p2
  Run <- FourRuns
  Replica <- TwoReplicas
  Cancellable <- OneCancel
  RunningCapacity = 2
  QueuedCapacity = 1
  MaxRequeues <- OneRequeue
  MaxFaults = 0
  NoRun = NoRun
SYMMETRY Symmetry
INVARIANTS
  OnePlace
  SlotAccounting
  JobsWithinCapacity
PROPERTIES
  PoolSpec
  QueuedRunKept
\* All requests and jobs end.
CHECK_DEADLOCK FALSE
