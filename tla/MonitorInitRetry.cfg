\* One replica initializes the monitors; one query fails.
SPECIFICATION Spec
CONSTANTS
  Replica = {r1}
  NoReplica = NoReplica
  Service = {"monitors"}
  MaxAttempts = 3
  MaxFaults = 1
  MaxOverruns = 0
PROPERTIES
  SkipMeansOtherAtWork
\* The replica has answered.
CHECK_DEADLOCK FALSE
