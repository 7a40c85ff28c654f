\* Two runs of either engine, two attempts, one cancel request, one fault; a behaviour is followed until
\* one of the reasons is noted why the job may stay running.
SPECIFICATION Spec
CONSTANTS
  Run = {r1, r2}
  Engines = {"playwright", "k6"}
  MaxTries = 2
  MaxCancels = 1
  MaxFaults = 1
CONSTRAINT Followed
INVARIANTS TypeOK AggregatesAgree 
PROPERTIES NoPrematurePass 
\* All runs end.
CHECK_DEADLOCK FALSE
