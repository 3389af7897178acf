\* One operator approves while another rejects; nobody merges in Bitbucket.
SPECIFICATION AllSpec
CONSTANTS
  oom = oom
  h1 = h1
  h2 = h2
  NoIncident = NoIncident
  Incidents = {oom}
  Handlers = {h1, h2}
  MaxPRs = 1
  RfcFails = FALSE
  RedisFails = FALSE
  UiMerges = FALSE
PROPERTIES RejectedNotMerged
