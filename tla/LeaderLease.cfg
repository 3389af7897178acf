\* Three pods (two and the third of a rolling update) that may or may not find
\* the Lease object, failing API calls, runs as long as the lease.
SPECIFICATION FairSpec
CONSTANTS
  p1 = p1
  p2 = p2
  p3 = p3
  Pods = {p1, p2, p3}
  Gone = Gone
  NoLease = NoLease
  LeaseDuration = 2
  MaxRun = 2
  ApiErrors = TRUE
INVARIANTS GrantedLeaderIsUnique
PROPERTIES TakeoverOnlyAfterExpiry LoopGoesOn
