\* One worker, no faults: a run cancelled before its first attempt.
SPECIFICATION Spec
CONSTANTS
  Worker = {w1}
  NoWorker = NoWorker
  MaxAttempts = 3
  MaxStalls = 0
  MaxFaults = 0
PROPERTIES
  CancelledNotExecuted
\* A run ends.
CHECK_DEADLOCK FALSE
