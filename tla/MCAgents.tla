------------------------------ MODULE MCAgents ------------------------------
(***************************************************************************)
(* Components around the agents that share no state, each a specification  *)
(* of its own: the detection of anomalies, the manifests that Camael       *)
(* patches, the answers of the operator to Camael, the tasks of Gabriel    *)
(* and the test runs of Phanuel.  A behaviour is a behaviour of one of     *)
(* them; the others stay as they start.                                    *)
(***************************************************************************)
EXTENDS Detection, Sequences, TLC

\* The actors of each component; those of several have the same names.
CONSTANTS
  x1, x2,     \* pods; requests, tasks, incidents, fixes
  y1, y2,     \* leaders; files
  z1, z2,     \* branches
  p0, p3,     \* pods
  backend, backend2, job, manifest,   \* resources, the file of the first two
  app, dev, op, none

VARIABLE part

-----------------------------------------------------------------------------
\* A deployment of three pods; the first pod is a StatefulSet's.
MCOwner == [p \in Pods |-> IF p = p0 THEN NoOwner ELSE app]

OneEach == [p \in Pods |-> 1]

-----------------------------------------------------------------------------
VARIABLES base, branches, open, gPc, plan, seen, head, gReported, gFaults, reset

tasks == <<base, branches, open, gPc, plan, seen, head, gReported, gFaults, reset>>

CONSTANTS Tasks, People, Files, Branches, MaxFaults

Code ==
  INSTANCE CodeTasks WITH
    None <- none, pc <- gPc, reported <- gReported, faults <- gFaults

-----------------------------------------------------------------------------
VARIABLES prs, home, state, pending, draft, told, req, waited, newer

answers == <<prs, home, state, pending, draft, told, req, waited, newer>>

CONSTANTS Incidents, Handlers, Repos, MaxPRs

ASSUME ChoiceAssumption == MaxPRs \in Nat

Choice == INSTANCE ApprovalChoice WITH None <- none

-----------------------------------------------------------------------------
VARIABLES runs, tPc, due, age, own, tReported

tests == <<runs, tPc, due, age, own, tReported>>

CONSTANTS Runners, Sleep, Interval, Timeout, Registering, MaxRuns

ASSUME TestsAssumption == {Sleep, Interval, Registering} \subseteq Nat

Tests ==
  INSTANCE TestRuns WITH
    Requests <- Runners, pc <- tPc, reported <- tReported

-----------------------------------------------------------------------------
VARIABLES main, commits, locks, fix, copy, forked, first

fixes == <<main, commits, locks, fix, copy, forked, first>>

Line(name, number) == [key |-> name, number |-> number, dot |-> FALSE]

Decimal(name, number) == [key |-> name, number |-> number, dot |-> TRUE]

Requests == <<Line("requests", 0), Line("memory", 64)>>

Limits ==
  {<<>>,
   <<Line("limits", 0), Decimal("cpu", 500), Decimal("memory", 1536)>>,
   <<Line("limits", 0), Line("cpu", 500), Line("memory", 1024)>>,
   <<Line("limits", 0), Line("ephemeral-storage", 10), Line("memory", 100)>>}

Probes ==
  {<<Line("livenessProbe", 0)>>,
   <<Line("readinessProbe", 0), Line("initialDelaySeconds", 5)>>}

\* Containers with the probes first and the limits before the requests, or both
\* the other way round.
LimitsFirst ==
  {probes \o <<Line("resources", 0)>> \o limits \o Requests : probes \in Probes, limits \in Limits}

LimitsLast ==
  {<<Line("resources", 0)>> \o Requests \o limits \o probes : probes \in Probes, limits \in Limits}

TwoContainers == {c \o d : c \in LimitsFirst \cup LimitsLast, d \in LimitsLast}

\* "backend2" begins with "backend", which is all that is known.
MCBegins == (backend :> {backend}) @@ (backend2 :> {backend}) @@ (job :> {})

MCHyphenated == (backend :> {backend}) @@ (backend2 :> {}) @@ (job :> {})

MCLength == backend :> 7

MCFileOfApp == backend :> manifest

MCSearch == [r \in {backend, backend2, job} |-> none]

MCLayouts == manifest :> TwoContainers

CONSTANTS Fixes, Resources, Apps, Begins, Hyphenated, Length, FileOfApp, Search, InGitHub,
          Layouts, Issues

Manifests == INSTANCE ManifestFix WITH NoFile <- none

\* The files that resources may be defined in hold such lines, and every
\* issue that is handed over has a patch.
ASSUME ManifestAssumption ==
  /\ \A file \in DOMAIN Layouts : \A lines \in Layouts[file] : \A n \in DOMAIN lines :
       lines[n] \in [key : STRING, number : Nat, dot : BOOLEAN]
  /\ \A r \in Resources : Manifests!ManifestsOf(r) \subseteq DOMAIN Layouts \cup {none}
  /\ Issues \subseteq {"OOM_KILLED", "DEPLOYMENT_DEGRADED", "CRASH_LOOP", "HIGH_MEMORY",
                      "MEMORY_LEAK_PREDICTED", "HIGH_RESTARTS", "HIGH_CPU"}

-----------------------------------------------------------------------------
AllInit ==
  /\ part \in {"detection", "manifests", "tasks", "answers", "tests"}
  /\ Init /\ Code!Init /\ Choice!Init /\ Tests!Init /\ Manifests!Init
  /\ part # "detection" => restarts = [p \in Pods |-> <<4>>]
  /\ part # "manifests" => first[manifest] = CHOOSE layout \in TwoContainers : TRUE
  /\ part # "tests" => runs = <<>>

DetectionNext == part = "detection" /\ Next /\ UNCHANGED <<tasks, answers, tests, fixes>>

TasksNext == part = "tasks" /\ Code!Next /\ UNCHANGED <<vars, answers, tests, fixes>>

AnswersNext == part = "answers" /\ Choice!Next /\ UNCHANGED <<vars, tasks, tests, fixes>>

TestsNext == part = "tests" /\ Tests!Next /\ UNCHANGED <<vars, tasks, answers, fixes>>

ManifestsNext ==
  part = "manifests" /\ Manifests!Next /\ UNCHANGED <<vars, tasks, answers, tests>>

AllNext ==
  /\ UNCHANGED part
  /\ DetectionNext \/ ManifestsNext \/ TasksNext \/ AnswersNext \/ TestsNext

AllSpec == AllInit /\ [][AllNext]_<<part, vars, tasks, answers, tests, fixes>>

-----------------------------------------------------------------------------
\* Merges lower nothing but by a read that was stale or in a CPU limit with decimals.
LoweredForAReason == Manifests!LoweredForAReason

\* No merge of Gabriel's takes a change out of the base branch.
NothingReverted == Code!NothingReverted

\* What Gabriel reported is in its pull request until that is merged.
ReportedIsThere == Code!ReportedIsThere

\* What the operator answers is done to the pull request he means, or to one that the
\* ways to say it do not tell from it.
ActsOnMeant == Choice!ActsOnMeant

\* Phanuel's verdict is not that of an older run.
VerdictIsFresh == Tests!VerdictIsFresh
=============================================================================
