\* Everything: faults, restarts and reconciliation at any moment.
SPECIFICATION Spec
CONSTANTS
  r1 = r1
  r2 = r2
  r3 = r3
  r4 = r4
  p1 = p1
  p2 = p2
  Run <- TwoRuns
  Replica <- OneReplica
  Cancellable <- OneCancel
  RunningCapacity = 1
  QueuedCapacity = 1
  MaxRequeues <- NoRequeue
  MaxFaults = 2
  NoRun = NoRun
INVARIANTS
  TypeOK
  OnePlace
PROPERTIES
  OnlyFaultsDrift
  QueuedRunIsServed
  CounterDrains
