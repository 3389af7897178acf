\* Three pods of a deployment may have the same issue; two actors of each kind may
\* meet in the other components.  GitHub makes a run in one tick, half of the sleep.
SPECIFICATION AllSpec
CONSTANTS
  x1 = x1
  x2 = x2
  y1 = y1
  y2 = y2
  z1 = z1
  z2 = z2
  p0 = p0
  p3 = p3
  backend = backend
  backend2 = backend2
  job = job
  manifest = manifest
  app = app
  dev = dev
  op = op
  none = none
  NoOwner = NoOwner
  Leaders = {y1, y2}
  Pods = {p0, x1, x2, p3}
  Owners = {app}
  Owner <- MCOwner
  Containers <- OneEach
  Budget = 5
  WarnDays = 14
  Readings = {4, 99}
  MaxChanges = 2
  Tasks = {x1, x2}
  People = {dev}
  Files = {y1, y2}
  Branches = {z1, z2}
  MaxFaults = 1
  Incidents = {x1, x2}
  Handlers = {op}
  Repos = {y1, y2}
  MaxPRs = 2
  Runners = {x1, x2}
  Sleep = 2
  Interval = 3
  Timeout = 6
  Registering = 1
  MaxRuns = 5
  Fixes = {x1, x2}
  Resources = {backend, backend2, job}
  Apps = {backend}
  Begins <- MCBegins
  Hyphenated <- MCHyphenated
  Length <- MCLength
  FileOfApp <- MCFileOfApp
  Search <- MCSearch
  InGitHub = {job}
  Layouts <- MCLayouts
  Issues = {"HIGH_CPU", "HIGH_RESTARTS"}
INVARIANTS NothingLost ReportedIsThere ActsOnMeant VerdictIsFresh
PROPERTIES LoweredForAReason AlertMeansRestart NothingReverted
CHECK_DEADLOCK FALSE
