\* Two pods that both believe they lead, one incident, no faults.
SPECIFICATION Spec
CONSTANTS
  p1 = p1
  p2 = p2
  oom = oom
  degraded = degraded
  app = app
  NoIncident = NoIncident
  MaxRestarts = 2
  RestartWindow = 3
  MaintenanceTTL = 1
  MinSeverity = 2
  Pods = {p1, p2}
  Incidents = {oom}
  AutoHealable = {oom}
  Protected = {}
  Deployments = {app}
  Target <- OneTarget
  Severity <- OneSeverity
  DedupTTL <- OneDedupTTL
  OneLeader = FALSE
  RedisFaults = FALSE
  Crashes = FALSE
  LoopErrors = TRUE
  HandoffErrors = TRUE
SYMMETRY PodSymmetry
INVARIANTS RestartLimit HandledOncePerTTL
