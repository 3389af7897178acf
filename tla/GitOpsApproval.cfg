\* One incident with two pull requests: two operators at a time, or one and a Redis that may fail.
SPECIFICATION AllSpec
CONSTANTS
  oom = oom
  h1 = h1
  h2 = h2
  NoIncident = NoIncident
  Incidents = {oom}
  Handlers = {h1, h2}
  MaxPRs = 2
  RfcFails = FALSE
  RedisFails = FALSE
  UiMerges = TRUE
SYMMETRY HandlerSymmetry
INVARIANTS TypeOK ImplementedWasMerged OnePRWaits
