\* A promotion between the ZADD and the SET of addToQueue.
SPECIFICATION CoreSpec
CONSTANTS
  r1 = r1
  r2 = r2
  r3 = r3
  r4 = r4
  p1 = p1
  p2 = p2
  Run <- TwoRuns
  Replica <- OneReplica
  Cancellable <- NoCancel
  RunningCapacity = 1
  QueuedCapacity = 1
  MaxRequeues <- NoRequeue
  MaxFaults = 0
  NoRun = NoRun
INVARIANTS
  PromotedRunHasData
CHECK_DEADLOCK FALSE
