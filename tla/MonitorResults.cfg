\* Five groups of two locations, two faults; the smallest thresholds that tell the first, the
\* second, the third and no further alert apart.
SPECIFICATION Spec
CONSTANTS
  Location = {l1, l2}
  MaxGroup = 5
  MaxOverlap = 1
  RetryLimit = {1, 2}
  FailureThreshold = 2
  RecoveryThreshold = 1
  MinInterval = 1
  Factor = 0
  MaxAlerts = 3
  Strategy = "all"
  Percent = 50
  MaxFaults = 2
CONSTRAINT FaultsComeEarly
INVARIANTS TypeOK AlertsSpaced AlertsLimited AlertsOnSchedule EveryGroupEvaluated
PROPERTIES AlertsEarned JobsEnd
\* The bounded schedules are used up.
CHECK_DEADLOCK FALSE
