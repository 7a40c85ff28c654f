\* One run of any kind, two workers, two attempts, one tolerated stall, faults.
SPECIFICATION Spec
CONSTANTS
  Worker = {w1, w2}
  NoWorker = NoWorker
  MaxAttempts = 2
  MaxStalls = 1
  MaxFaults = 1
INVARIANTS
  TypeOK
  QueuedRowIsAccounted
  ExecutorsBounded
  FreshJobIsUntouched
PROPERTIES
  RowEnds
  WithdrawnStaysEnded
\* A run ends.
CHECK_DEADLOCK FALSE
