\* Two requests of one pod, plans of up to four steps of which three are kept;
\* all requests end, and the system with them.
SPECIFICATION FairSpec
CONSTANTS
  r1 = r1
  r2 = r2
  NoRequest = NoRequest
  Requests = {r1, r2}
  Dashboards = {r2}
  MaxRawSteps = 4
  MaxPlanSteps = 3
  MaxGraphIterations = 5
  MaxRetries = 1
  RecursionLimit = 12
  MaxConcurrentSteps = 2
  MaxQueueDepth = 3
  PodDies = TRUE
CHECK_DEADLOCK FALSE
INVARIANTS NeverCut
PROPERTIES ExecutesPlan RequestEnds
