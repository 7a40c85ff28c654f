\* Two requests between reserveSlot and the ZADD.
SPECIFICATION CoreSpec
CONSTANTS
  r1 = r1
  r2 = r2
  r3 = r3
  r4 = r4
  p1 = p1
  p2 = p2
  Run <- ThreeRuns
  Replica <- OneReplica
  Cancellable <- NoCancel
  RunningCapacity = 1
  QueuedCapacity = 1
  MaxRequeues <- NoRequeue
  MaxFaults = 0
  NoRun = NoRun
INVARIANTS
  QueuedWithinCapacity
CHECK_DEADLOCK FALSE
