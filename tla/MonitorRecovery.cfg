\* The limits of the code, recovery threshold 2, no faults.
SPECIFICATION Spec
CONSTANTS
  Location = {l1, l2}
  MaxGroup = 4
  MaxOverlap = 1
  RetryLimit = {3}
  FailureThreshold = 1
  RecoveryThreshold = 2
  MinInterval = 5
  Factor = 2
  MaxAlerts = 3
  Strategy = "majority"
  Percent = 50
  MaxFaults = 0
INVARIANTS RecoveryAnnounced
\* The bounded schedules are used up.
CHECK_DEADLOCK FALSE
