\* Redis may come and go, the leader may die and Camael may fail; two incidents
\* of one deployment.
SPECIFICATION FairSpec
CONSTANTS
  oom = oom
  degraded = degraded
  app = app
  Incidents = {oom, degraded}
  Deployments = {app}
  Target <- TwoOfOne
  HandoffTTL = 3
  PendingTTL = 3
  FixTicks = 1
  VerifyDelay = 1
  MaxHandoffs = 3
  RedisFaults = TRUE
  FixFails = TRUE
  Crashes = TRUE
INVARIANTS TypeOK OneFixAtATime NoRollbackOverFix
PROPERTIES VerdictReached
