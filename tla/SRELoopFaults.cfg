\* Crashes, an unreachable Redis and failing runs of a pod and its replacements,
\* two incidents of one deployment, of which only one is severe enough to heal.
SPECIFICATION FairSpec
CONSTANTS
  p1 = p1
  oom = oom
  degraded = degraded
  app = app
  NoIncident = NoIncident
  MaxRestarts = 1
  RestartWindow = 1
  MaintenanceTTL = 1
  MinSeverity = 2
  Pods = {p1}
  Incidents = {oom, degraded}
  AutoHealable = {oom, degraded}
  Protected = {}
  Deployments = {app}
  Target <- TwoTarget
  Severity <- TwoSeverity
  DedupTTL <- TwoDedupTTL
  OneLeader = TRUE
  RedisFaults = TRUE
  Crashes = TRUE
  LoopErrors = TRUE
  HandoffErrors = FALSE
INVARIANTS TypeOK SilencedOnlyIfHandled
PROPERTIES LivingPodVerifies
