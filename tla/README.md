# Amael-AgenticIA: a TLA+ model of the service and its autonomous operations

Amael is a multi-agent assistant that also operates the cluster it runs in.
Users chat with it, upload documents, and get a plan of their day; agents for
development and testing work on GitHub. Raphael, the SRE agent, observes
Kubernetes, diagnoses with an LLM and restarts deployments on its own; Camael,
the DevOps agent, turns an incident into a pull request with a change record
(RFC) that a human approves. This directory specifies the program: first what
acts without being asked (election, circuit breaker, detection, healing loop,
verification, handoff, approval), then what serves the users (chat, pipeline,
documents, accounts, planner), the other agents that change something, and the
life of the pods in which all of it runs. It is checked with TLC on small
instances, and every safety property that the passing runs check, the
refinement among them, is proved with TLAPS for every instance.

Paths below are relative to the root of the repository (`src/` here).

- [1. Inventory](#1-inventory)
- [2. Modules and their correspondence to the code](#2-modules-and-their-correspondence-to-the-code)
- [3. What the runs check](#3-what-the-runs-check)
- [4. Bounds](#4-bounds)
- [5. Fairness](#5-fairness)
- [6. What is proved](#6-what-is-proved)
- [7. Disagreements between code and documentation](#7-disagreements-between-code-and-documentation)
- [8. What is not modelled](#8-what-is-not-modelled)
- [9. Plan](#9-plan)
- [10. Running the checks](#10-running-the-checks)

## 1. Inventory

The backend is one image, run by a Deployment of one replica that rolls with
`maxSurge: 1` and that an HPA takes up to three
(`k8s/agents/05-backend-deployment.yaml`, `11-hpa-pdb.yaml`). In every pod an
APScheduler fires `sre_autonomous_loop` each 60 s next to the FastAPI workers.
Pods share PostgreSQL, Redis, Qdrant, MinIO and the Kubernetes API, and nothing
else.

| Component | State | Operations | Interacts with | Hard because |
|---|---|---|---|---|
| Leader election, `agents/sre/scheduler.py` 106-172 | the Lease `sre-agent-leader`; `_loop_state.is_leader` | read, create, replace | Kubernetes API, other pods | stale copies, clocks, errors that mean "lead" |
| Loop circuit breaker, `scheduler.py` 30-80 | `_state`, `_failures`, `_opened_at` | `state`, `record_success`, `record_failure` | loop, threads of the status endpoint | reading changes the state, in several statements and without a lock |
| Observers and detection, `agents/sre/observer.py`, `detector.py` | restart baseline in the memory of each leader | observe, deduplicate, correlate | Kubernetes, Prometheus, loop | the baseline outlives listings that fail, pods and other leaders |
| SRE loop, `scheduler.py` 279-451 with `healer.py` | dedup keys, restart counters, maintenance key, in-memory fallbacks | observe, deduplicate, diagnose, decide, restart, record, mark | election, Redis, Kubernetes, LLM | check and act are seconds to minutes apart; Redis fails open; crashes |
| Diagnosis, history and verdicts, `agents/sre/diagnoser.py`, `reporter.py` | rows of `sre_incidents` | confidence, verdict, rollback | Kubernetes, PostgreSQL, LLM | each step changes what the next one reads |
| Verification, `healer.py` 312-462 | jobs of the scheduler of one pod | schedule, verify, wait, roll back, close | Camael's keys, RFC | runs minutes later in a pod that may be gone |
| Handoff, `healer.py` 575-736 | `sre:gitops:<ns>:<deployment>`, `_IN_MEMORY_GITOPS_LOCK` | lock, start a thread | Camael | two keys with one TTL, set at different times |
| Camael's fix, `agents/devops/agent.py` 365-687, `agents/sre/bug_library.py`, `argocd_discovery.py` | `bb:pending_pr:<incident>`, `sn:rfc:<incident>`, branches and manifests in Bitbucket | find the manifest, patch, branch, commit, PR, RFC, save | Bitbucket, ServiceNow, ArgoCD, LLM | one of several steps fails; the file changes after it was read |
| Approval, `agents/devops/agent.py` 754-890, `interfaces/api/routers/devops.py` 184-475, 568-777 | the same keys, the PR, the RFC | announce, ask, approve, reject, merge webhook | operators, Bitbucket, ServiceNow, verification | entry read before an await, used after it; which PR an answer means |
| Chat workflow, `orchestration/`, `agents/planner`, `executor`, `supervisor` | `AgentState` of a request, `_pending_steps` of a pod | plan, group, run batches, judge, replan | tools, LLM | replan bound, recursion limit, parallel batch, blocked event loop |
| Chat, routing and dispatch, `interfaces/api/routers/chat.py`, `conversations.py`, `orchestration/agent_router.py`, `agent_dispatcher.py` | rate limit and answers in Redis, conversations and messages in PostgreSQL | ask, stream, rename, delete, change roles | pipeline, agents, users | roles and rows read early and used late, by several pods |
| Chat circuit breaker, `core/circuit_breaker.py` | three keys in Redis, shared by pods | `is_open`, `record_*` | chat router | transitions of several commands |
| Documents, `routers/ingest.py`, `documents.py`, `agents/researcher/rag_retriever.py` | collection in Qdrant, table, jobs, cache of retrievals | upload, job, ask, wipe | Qdrant, PostgreSQL, Redis | four stores, no transaction |
| Accounts, `routers/admin.py`, `auth.py`, `identity.py`, `profile.py` | rows of profiles and identities, cached language | login, create, change, delete, choose a language | chat, PostgreSQL, Redis | read-modify-write, cache beside the database |
| Day planner, `routers/planner.py`, `agents/productivity` | key of the day in Redis, credentials in Vault, calendar | plan, brief, synchronise | CronJob, Google, LLM, WhatsApp | retries of what may have begun |
| Life of a pod, `main.py`, `observability/health.py`, `storage/`, `agents/sre/agent.py` 105-250, 562-610 | pool, client, tables, runbooks in Qdrant | start, probe, drain, stop | Kubernetes, all services | every step may fail and the pod goes on |
| Gabriel, `agents/dev/agent.py`, `tools/github/tool.py` | branches and pull requests in GitHub | read, rewrite, branch, commit, PR | GitHub, LLM | a file read minutes before it is written; branch names an LLM chooses |
| Phanuel, `agents/qa/agent.py` | workflow runs of GitHub | dispatch, poll, conclude | GitHub | a dispatch does not say which run it made |
| SRE command and task APIs, memory, research, productivity, coder, arch and CTO agents, registry, object storage, tools, observability, speech | little or none of their own | request/response | users, models | I/O |

What makes them correct, in a sentence each:

- *Election*: one leader at a time, takeover only of an expired Lease, and the
  loop outlives its leader.
- *Loop breaker*: opens on a streak of failures and only then, keeps its pause
  but for who was looking while it opened, and lets the loop try again.
- *Detection*: what was seen reaches the loop at least as severe as it was, and
  a restart is reported when there was one.
- *Loop*: an incident is handled once per dedup TTL, restarts stay below the
  limit, a crash or an outage of Redis silences nothing, every restart is
  verified.
- *History*: what never helped is not done again, and a rollback leaves the
  version that was found unhealthy.
- *Verification and handoff*: no rollback while a fix is on its way, one fix at
  a time for a deployment, and waiting ends.
- *Fix and approval*: a fix takes back nothing that was merged, what was
  rejected is not merged, RFCs move for the merge they were opened for, pull
  requests do not pile up, and an answer is about the one the operator means.
- *Chat workflow*: the plan is executed whole, once and in order, within the
  limit of LangGraph, and every request ends.
- *Chat*: no agent without its role, and what was answered is kept.
- *Chat breaker*: nothing but a use that began earlier cuts its pause short.
- *Documents*: what was reported as indexed is found; what is gone is answered
  for a time only.
- *Accounts*: a number of a type means one account, choices are not lost, caches
  go stale for a known reason only.
- *Planner*: nobody is briefed twice, and the plan reaches the calendar.
- *Life of a pod*: whoever dies in its start, the next start completes it; a pod
  that serves becomes ready again.
- *Gabriel and Phanuel*: a merge reverts nothing, a reported pull request has
  its change, a verdict is not that of an older run.

## 2. Modules and their correspondence to the code

    Detection --anomalies--+                                     ManifestFix (file, patch, branch)
    LeaderLease --who------+--> SRELoop --restart--> GitOpsFix --PR--> GitOpsApproval
    LoopBreaker --when-----+    (one run)         (handoff, verify)    (operators, RFC)
    Remediation --confidence, verdict, rollback--+                     ApprovalChoice (which PR)

    ChatService --question--> ChatWorkflow (implements PlanExecution) --calls--> ServiceBreaker
    Documents, Profiles, DayPlanner: the other things users have
    CodeTasks (Gabriel), TestRuns (Phanuel): agents that change something in GitHub
    Lifecycle: the pods in which all of it runs

The modules meet at named interfaces rather than in one product, whose state
space TLC could not explore. `SRELoop` takes the outcome of the election as the
constant `OneLeader`, the anomalies of `Detection` and the confidence of
`Remediation` as any. `GitOpsFix` starts where `SRELoop!Dispatch` ends, and its
action `Settle` stands for what `GitOpsApproval` describes in full. In
`GitOpsApproval`, in turn, a fix starts and a verification gives its verdict
at any time, which is more than `GitOpsFix` allows. `ChatService` has the answer
or the exception in which `ChatWorkflow` ends.

Three MC modules put specifications that share no state next to one another:
`MCService` (ChatService, Documents, Profiles, DayPlanner), `MCParts`
(LoopBreaker, ServiceBreaker, Remediation, Lifecycle) and `MCAgents` (Detection,
ManifestFix, CodeTasks, ApprovalChoice, TestRuns). Their variable `part` chooses
one; a behaviour is a behaviour of that one, and the others stay as they start.
These are sums and no products: a run checks each specification as if alone, and
shows nothing of one beside another. Their actors, files, settings and bounds are
CONSTANTS with assumptions of their own (`DocumentsAssumption`, `RemedyAssumption`,
`ManifestAssumption`, ...), to which the `.cfg` gives small values and of which the
proofs know nothing else; functions that a `.cfg` cannot write are definitions
of the MC module that begin with `MC`. `MCGitOpsApproval` likewise chooses, with its
variable `instance`, between two instances of the one module: Redis answers, or its
commands may fail.

### LeaderLease

`_try_acquire_lease`: the pod takes `now` (`TakeNow`), reads the Lease
(`ReadLease`), and replaces or creates it. Time is relative: `age` is the age of
the stored `renewTime`, `elapsed[p]` that of pod p's `now`, so that the expiry
test of the code is `age - elapsed[p] > LeaseDuration` and a write sets `age` to
`elapsed[p]`. `resourceVersion` is the set `fresh` of the pods whose copy is
still the stored one: a write empties it, a replacement by a pod outside it is
the 409. `ElectionError` is the outer `except`, which lets the pod lead; a
write whose answer was lost may have been applied. `Granted` are the pods a
Lease let through, `Leading` those and the ones an exception let through.

### LoopBreaker

The thread of the loop and those of the API share the object without a lock, so
that a step is one access to `_state` or `_opened_at`. The property `state` is
`Ask` (is it OPEN), `Age` (`_opened_at` against the clock) and `Move` (HALF_OPEN,
whatever the state is by now); `Fire` are these and `Answer` in the loop's thread,
at the start of a run, `ReadStatus` the first three in a thread that serves
`get_loop_state`. A run ends in `RecordSuccess`, in `RecordFailure` and, when that
opens the breaker, `Open` and `Stamp`, the two assignments of `_state` and
`_opened_at`; or nothing is recorded because of maintenance or the election
(`LeaveUnrecorded`). `streak`, `lastFail` and `early` (readings that began before
the last opening had its time) are history.

### SRELoop

One action per step of a run that another pod, a crash or Redis can come
between: `StartRun`, `CheckMaintenance`, `Elect`, `Observe`, `NextAnomaly`
(deduplication), `Diagnose` (LLM or fallback, then `decide_action`),
`CheckLimit`, `Restart`, `RecordRestart`, `MarkIncident`, `Dispatch`
(`handoff_to_camael` and `schedule_verification`), `FinishRun`, `LoopError`. Keys
with a TTL are countdowns. When Redis is down, `is_duplicate_incident` and
`mark_incident` use the dictionary of the pod, and the limit, its count and
maintenance are treated as absent. Observation, detection and diagnosis are any
set of anomalies and any confidence (`Detection` and `Remediation` have them in
detail). An incident names its deployment through the constant `Target`; how
names become manifests and locks is `LockOf` and `ManifestsOf` of `ManifestFix`.

`burst` and `handled`, with their countdowns, are history: restarts of a
deployment since it last had a quiet window, and times an incident was handled
since it last was quiet for its TTL. `owed` and `lost` tell which restarts still
have to be verified and which of those died with their pod. The clock stands
still from the check of the limit to the mark (`Acting`): these are calls that
follow each other in milliseconds, while diagnosis, before them, may take as
long as it likes.

### GitOpsFix

`Handoff` is `handoff_to_camael` and `schedule_verification` together, as the
loop calls them after a restart. `LockAndStart` is the `SET NX EX` on
`sre:gitops:<ns>:<deployment>` or, without Redis, the dictionary of the pod.
Camael's thread checks for a pending pull request, creates one and saves it
(`CheckPending`, `CreatePR`, `SavePending`) or fails (`FixError`). The
verification waits (`VerifyWait`), succeeds (`VerifyOk`), or decides that no fix
is on its way and acts (`VerifyFails`, `Act`): two steps, since it asks before it
acts, and a handoff may come in between (`late`). `FixTicks` bounds the life of a thread of Camael and is assumed shorter
than the lock (`FixAssumption`): HTTP and LLM timeouts are minutes, the lock
lasts two hours. `outage` is history, too: Redis has been unreachable.

### GitOpsApproval

Camael's thread again, now with the RFC: `CreatePR` (behind the dedup guard
`NothingWaits`, whose exception is only logged), `CreateRfc` (which reuses the RFC of
`sn:rfc:<incident>` if it is still there), `SavePending`. Operators:
`Approve` reads the entry, `Merge` or `MergeRefused` is Bitbucket's answer,
`Untrack` deletes the entry under the incident, `Advance` moves the RFC on;
`RejectInChat` and `CancelRfc` are RECHAZAR in the chat, which never talks to
Bitbucket; `RejectByCommand`, `Decline`, `ClearDeclined` are `/devops rechazar`,
which never talks to ServiceNow. `Hook` is the webhook of a merge, `Verdict` and
`UpdateRfc` the end of a verification and the thread that closes or fails the RFC.
`rfcOf` is the `rfc_sys_id` in the entry, which does not change once the entry
is written. Of the states of an RFC those that a property tells apart are kept.
ServiceNow may refuse any transition; that it may also accept a transition from
any state is an assumption, because its business rules are not in the
repository. With `RedisFails` any command of Redis may fail: what the chat and
Camael's thread do about it is to log and go on, a command of `/devops` ends. `Forget` deletes
the entry of an incident whatever it names by then. History are `rejected`, and how
an open pull request stopped waiting: `dropped` (for a reason of its own), `swept`
(its entry went for the sake of another one), or `unseen` (it was made although one
waited, because the guard could not read).

### Detection

One run of the observers by a leader is `Observe`: pods and deployments if the
API lists them, and every other observer as a gauge that shows a percentage, a
number of days or a flag. The conditions on a pod are
`ContainerIssues`, `PhaseIssues` and `RestartedAgain`, in the order of the code; `baseline` is `_restart_baseline`,
one number per pod in the memory of each leader, although counts are per
container. `Detect` keeps the worst of each incident key and `Correlate` makes
one anomaly of three pods or more with one owner and issue. Between runs the
cluster changes: restarts, kills by memory, evictions, pods of a StatefulSet
that are replaced under their name, and backends that start with an empty
baseline. `alerted` is history.

### Remediation

Restarts of one deployment for one issue, and what comes back from them: the
ReplicaSets in the order of their revisions, the rows of `sre_incidents`, a
diagnosis whose confidence is blended with the history (`Blend`, whole percents),
`decide_action`, `rollout_restart`, the verdict appended to the row of the key,
and the rollback. A restart is a rollout of the same version with another
annotation (`stamp`), which is why it counts as recent. `basis` is history.

### ManifestFix

From a resource to the file that is patched (`ManifestsOf`, `Fixable`), the lock
it is handed over under (`LockOf`), the line by line patches (`PatchMemory`,
`PatchCpu`, `PatchDelay`, with the multipliers of `BUG_LIBRARY` in tenths), and
the steps of `_gitops_fix` from the read file to the merge. A file is a sequence
of lines, a line its key and its number (in Mi, thousandths of a CPU or seconds), and
whether it is written with decimals (`dot`): of those `_patch_cpu_limit` matches the
digits before the point only (`Matched`), and `_parse_memory_mi` raises, which ends
the fix (`NotAnInteger`). `readAt` and `forkedAt` number the commits of main a fix has
seen.

### PlanExecution and ChatWorkflow

`ChatWorkflow` is the LangGraph pipeline as one pod runs it: `Planner`
(`_validate_plan`, the function `Validated`, and `_apply_fast_paths`), `Grouper`
(`GroupPlan`, from the steps `Collected` one after the other), `Reasoning`,
`SingleTool` and `ParallelBatch` (the three ways of `batch_executor_node`),
`Supervisor` with REPLAN, and the thread pool with its backpressure (`StartStep`,
`AcquireSemaphore`, `FinishStep`, `CollectBatch`). `graph.invoke` blocks the
event loop and uvicorn has one worker, so that a pod runs one pipeline at a time
(`active`). A text is the set of the steps whose results went into it.

`PlanExecution` is what this machinery promises without batches, pool and
limits. `ChatWorkflow` implements it: `stage` is the node (none, planner, any
other), `steps` the plan, `times` the history variable `ran`, `finished` the steps
that ran and are in no worker any more, `attempt` is `retryCount`; between two
plans there is none. Grouping, superstep counting, queueing and acquiring the
semaphore map to stutters.

### ServiceBreaker

`core/circuit_breaker.py`, one action per command of Redis: `is_open`
(`CheckState`, `CheckOpenedAt`, `SetHalfOpen`), `record_success` and
`record_failure`, for threads of several pods whose commands interleave. Every
command may fail, where the code catches, and every caller may die between two.
Keys expire; a plain SET clears the expiry. `older` is history.

### ChatService

A question from its arrival to the saved exchange: rate limit (INCR, then
EXPIRE), role, transcription or image, validation, cache of answers, routing and
the check of roles, the agent, storing and persisting, each step separate
because requests of several pods meet in Redis and PostgreSQL. Meanwhile users
rename and delete conversations and an administrator changes roles. An answer is
known by its request, an intent by the level its agent asks for. `/stream`
persists after its client has been told. `best`, `erased` and `unsaved` are
history.

### Documents

Uploads in the request and as jobs, questions and wipes of one user on a
collection of Qdrant, a table, job keys and a cache of retrievals. Versioning is
`ScrollOld` and `DeleteOld`, with the substring match of `MatchText` as the
constant `Containing`; opening the collection (`Open`, `CheckCollection`,
`DropCollection`, `CreateCollection`) recreates one that could not be opened,
and is shared by uploads and questions. A question is `Ask`, `LookupCache`, the
opening, `Search` in Qdrant and `Store`, the SETEX of its text: a wipe or a newer
version may come between the last two, for which a question takes at most
`SearchTicks` (`since`). `told`, `why`, `goneFor` are history.

### Profiles

`user_profile` and `user_identities` under login, creation, change and deletion
by administrators, identities, `check_access`, and the language of a user with
its cache: `SetLanguage` writes and then invalidates, `ReadProfile` and
`WriteProfile` are the read-modify-write of `update_profile`, `QueryLanguage` and
`StoreLanguage` the executor's. `overtaken` and `reason` are history.

### DayPlanner

The CronJob's POST and its retries, the key of the day (EXISTS, then SETEX), the
users one after the other with credentials, events and mails, the LLM, the
calendar, the brief by WhatsApp; pods that die in the middle. `Answers` is what
the model factory returns, a message whichever provider is configured, and
`Loads` what `json.loads` takes.

### Lifecycle

The `lifespan` of `main.py`: pool (with retries), client, schema, tables of the
SRE agent, index of runbooks (list, create, count, embed, upsert), loop; probes;
then SIGTERM, drain, stop of the loop, closing of the pool. Every step goes on
when its service does not answer, as the code does. Two pods start next to each
other and after each other, one may be killed at any step, and a run of the loop
may outlive the pool. `disturbed` and `partial` are history.

### CodeTasks, ApprovalChoice and TestRuns

`CodeTasks` is Gabriel's pipeline call by call: the LLM chooses file and branch, the
file is read with its `sha`, rewritten, the branch is made or reset by force, the
commit refused when the `sha` is old, the pull request opened. The text of a file
is the set of changes in it. `ApprovalChoice` is which pull request an answer is
about: messages that come late, again or never, what the operator knows (`told`), the
keys as they are listed, their entries as they are matched one by one and read again,
the call to Bitbucket and the deletion of the key. Every repository counts its own
pull requests (`Number`). `waited` (what waited when an answer listed the keys) and
`newer` (what was saved since under the key it chose) are history. `TestRuns` is Phanuel's dispatch, sleep and
polls in time, with runs that others start; `Registering` is how long GitHub takes
at most to make a run of a dispatch, assumed shorter than the sleep.

`MC*.tla` give functions to the constants and the symmetry sets; `*Proofs.tla`
hold the theorems.

## 3. What the runs check

Passing runs:

| Run | Checks | States | Shows |
|---|---|---|---|
| `LeaderLease` | `GrantedLeaderIsUnique`, `TakeoverOnlyAfterExpiry`, `LoopGoesOn` | 453 681 | three pods, a Lease that exists, is another's, or does not exist; API errors and lost answers; runs as long as the lease |
| `SRELoop` | `RestartLimit`, `HandledOncePerTTL` | 204 526 | two pods that both think they lead: limit and deduplication err by at most one per additional leader |
| `SRELoopFaults` | `TypeOK`, `SilencedOnlyIfHandled`, `LivingPodVerifies` | 177 208 | crashes at every step, Redis that comes and goes, failing observation and diagnosis; two incidents of one deployment |
| `GitOpsFix` | `TypeOK`, `OneFixAtATime`, `NoRollbackOverFix`, `VerdictReached` | 44 331 | two incidents of one deployment, crashes, failing fixes, outages of Redis |
| `GitOpsApproval` | `TypeOK`, `ImplementedWasMerged`, `OnePRWaits` | 3.3 million | two pull requests of an incident, lost webhooks, crashes; two operators and merges by other people, or one operator at a time and a Redis any command of which may fail: the dedup guard, the saving and the deletion of an entry |
| `ChatWorkflow` | `NeverCut`, `ExecutesPlan`, `RequestEnds` | 143 736 | two requests, every plan of up to four steps, failing LLM calls, a pod that dies; the refinement of `PlanExecution` |
| `Service` | chat: `AgentNeedsRole`, `AnsweredIsKept`; documents: `IndexedIsSearchable`, `StaleTextExpires`; accounts: `NumbersBelongToAccounts`, `LostOnlyWhenOvertaken`, `StaleHasReason`; planner: `BriefedOncePerWindow` | 1.8 million | two requests, uploads or attempts in each other's way, a failing command or dying pod at any step |
| `Parts` | loop breaker: `CutsOnlyAStreak`, `PauseIsKept`, `CutLoopIsRetried`; chat breaker: `PauseEndsByOlderUse`; history: `UselessRestartsStop`; pods: `UndisturbedStartIndexes`, `ReadyAgain` | 729 257 | the deployed values of the loop breaker with two threads that read its status; two callers command by command; three rollouts; two pods that start three times while services fail |
| `Agents` | detection: `NothingLost`, `AlertMeansRestart`; manifests: `LoweredForAReason`; Gabriel: `NothingReverted`, `ReportedIsThere`; answers: `ActsOnMeant`; Phanuel: `VerdictIsFresh` | 1.1 million | four pods and two leaders; two fixes, tasks, pull requests or test runs next to each other |

Several properties name the ways in which the code lets them fail, so that every
other way is excluded: `LostOnlyWhenOvertaken` (the read-modify-write),
`StaleHasReason` (five reasons), `LoweredForAReason` (read before a merge and
forked after it, or a CPU limit with decimals), `ReportedIsThere` (a branch reset by
another task), `ActsOnMeant` (an entry saved under the same key meanwhile, an equal
number in another repository, a bare answer when another one is the only one that
waits, the first key in the chat), `OnePRWaits` (an entry deleted for the sake of
another pull request, a guard that could not read), `PauseIsKept` (a reading that
began before the opening was complete), `NoRollbackOverFix` (a handoff after the
look), `BriefedOncePerWindow` (two attempts between EXISTS and SETEX),
`IndexedIsSearchable` (wiped, versioned, recreated). What the repository's own
texts claim without these exceptions is in section 7.

Runs that find a violation, each of one statement of the repository:

| Run | Statement | What the code does |
|---|---|---|
| `GitOpsApprovalReject` | `RejectedNotMerged`: "PR #… cancelado. No se realizarán cambios." (`agents/devops/agent.py:816`) | the pull request stays open in Bitbucket, and an APROBAR that read the entry earlier merges it |
| `RemediationRollback` | `RollbackLeavesVersion`: "Hacer rollback automático si un deploy reciente causó problemas" (`docs/MANUAL-ECOSISTEMA.md:140`) | a restart makes a ReplicaSet of the same version and counts as the recent deployment: the rollback returns to the version that is unhealthy |
| `DayPlannerSync` | `PlanReachesCalendar`: "Genera plan con LLM", "Sincroniza al calendario" (`day_planner.py:92-93`) | `json.loads` gets a message and raises `TypeError`: no plan is ever synchronised |

`ImplementedWasMerged` passes in `GitOpsApproval`, where every pull request gets
an RFC (`RfcFails = FALSE`) and there is one incident; with either changed it
fails by a guess of the code (section 7), which is the only thing that breaks
it, as `ImplementMeansMerged` (section 6) shows for any number of incidents.
`LivingPodVerifies` assumes that the handoff does not raise
(`HandoffErrors = FALSE`): all that can raise outside a `try` in
`handoff_to_camael` is the start of a thread.

Every property of a passing run has a *mutant* in `PROJECT.json`: a definition of
the module (marked "Mutant:" in its comment) that changes the code the way a bug
might, with which TLC finds the property violated.

## 4. Bounds

| Bound | Value | Why it is enough |
|---|---|---|
| `LeaderLease`: pods | 3 | two at most in a rolling update of one replica, plus one; the proofs are for any number |
| `LeaseDuration`, `MaxRun` | 2, 2 ticks | a run as long as the lease is the critical case; `age` saturates beyond it |
| `LoopBreaker` | deployed values: 5 failures, 300 s in ticks of 30 s; 2 threads that read the status | counters saturate at the values that are compared; two readings may be under way while the loop opens and stamps |
| `SRELoop`: incidents, limit, window | 1; 2; 3 ticks | with both pods past the limit check the counter passes the limit; the window spans several dedup TTLs |
| `SRELoopFaults` | 1 pod, 2 incidents, limit 1, window 1 | a pod that dies comes back as the same pod with an empty memory; the second incident is below the minimal severity, so that it is marked without a restart |
| `CountCap`, `HandledCap` | one above what the properties allow | counters saturate, so that a violation stays visible |
| `GitOpsFix`: `MaxHandoffs` | 3 | two incidents and a repetition; lock 3, pending 3, thread 1, verification 1 tick: the keys overlap in every order |
| `GitOpsApproval`: `MaxPRs`, handlers | 2, 2; while Redis may fail one operator at a time, and neither verdicts nor merges in Bitbucket | a pull request and its successor under one key; two operators in each other's way |
| `ChatWorkflow`: plans, iterations, limit | 4 raw steps cut to 3; 5; 12 | a plan is cut, a batch waits for a worker (pool 2), an attempt is repeated; see below for the limit of 25 |
| `ChatWorkflow`: `MaxQueueDepth` | 3 | a full batch fits exactly, the tight case; 8 steps fit the deployed depth of 12 |
| `ChatService`: requests, levels, rate, window, TTL | 2; 2; 1; 1; 1 tick | the second request is the one too many, the same question again, or the other's neighbour; the keys expire between any two steps |
| `Documents` | 2 uploads, 1 client that asks and 1 that wipes, again and again; TTL 2, search 1 | a name and one that contains it; the cached text may be one tick old when its document goes, and the document may go before the text is cached |
| `Profiles` | an administrator and a user, 1 number under 2 types, 2 requests at a time of 4 | a read-modify-write and what comes between its halves |
| `DayPlanner` | 2 users, 2 attempts, 3 claims | a retry before, after and during the window |
| `ServiceBreaker` | 2 callers, threshold 2, recovery 1 tick, keys of 4 and 10 ticks | one failure is not enough and the second opens; both orders of every two commands |
| `Remediation` | 2 incidents, 2 versions of which one is sound, 3 rollouts; confidences 0 and 100, fallback 80, threshold 75 | deployment, restart and rollback; the confidence passes the threshold or fails to |
| `Lifecycle` | 2 pods, 2 files, 3 starts, 2 connection attempts, 2 copies counted | a start after one that died, next to another, and after both |
| `Detection` | 3 pods of a deployment and one of a StatefulSet, 2 leaders, 2 changes, counts around the threshold | three pods correlate, two do not; a leader comes back to an old baseline |
| `ManifestFix` | 2 fixes of one file, HIGH_CPU and HIGH_RESTARTS, containers with every order of the sections | limits before and after requests, with and without memory, followed by keys that end the section, with decimals; the CPU patch, and the memory and delay patches one after the other |
| `CodeTasks`, `ApprovalChoice`, `TestRuns` | 2 tasks, 2 files, 2 branches; 2 incidents, 2 repositories, 2 pull requests, 1 answer; 2 requests, 5 runs | the same and different branches; the only one and one of two; runs older, own and younger |
| `MaxFaults` | 1 in every module that has it | one failure anywhere; two in a row are two separate failures for each of these properties |

`MaxHandoffs` matters to `VerdictReached`: a new restart for the same incident
replaces its job and its delay starts again. In the code restarts of one
incident are a dedup TTL apart, and that is not shorter than the delay of the
verification, so that without the bound the property rests on `SRELoop`.

`RecursionLimit` is 25 in LangGraph, with plans of 8, and 12 in the run with plans
of 3: an attempt takes planner, grouper, a superstep for each batch and the
supervisor, and there are two attempts, so that 2 × (8 + 3) = 22 of 25 in the
code are 2 × (3 + 3) = 12 of 12 in the run: the tight case.

## 5. Fairness

- `LeaderLease`: weak fairness of each pod's run, since APScheduler keeps firing
  the job and calls have timeouts; strong fairness of `Tick`, since time goes on
  although a pod that reaches `MaxRun` must first end its run. No fairness of
  errors or terminations: nothing has to fail. `LoopGoesOn` allows for all pods
  having gone.
- `LoopBreaker`: the scheduler fires, a run and the statements that record it end,
  time goes on (in `Parts`, while the breaker is the part). Nobody need read the
  status.
- `SRELoop`: a run that has started goes on (`pc # "idle"`) and jobs of a live
  scheduler are executed. No fairness of `StartRun`, so that `LivingPodVerifies`
  does not depend on later runs, nor of the environment.
- `GitOpsFix`: due jobs and threads run, and time passes. Redis need not come
  back, and operators need not decide.
- `ChatWorkflow`: the event loop takes up every request, the graph goes on (LLM
  calls have timeouts), the workers of the pool go on. A pod need not die.
- `Lifecycle`: a start does not hang and Kubernetes keeps probing. Services need
  not come back: `ReadyAgain` is about those that have.
- `GitOpsApproval`, `Service` and `Agents` are checked for safety only: users,
  operators and other systems need do nothing.

## 6. What is proved

All theorems hold for arbitrary constants within the named assumptions of the
modules (`LeaseAssumption`, `BreakerAssumption`, `LoopAssumption`, `FixAssumption`,
`ApprovalAssumption`, `WorkflowAssumption`, `ChatAssumption`, and those of the MC
modules), which TLC evaluates in the runs. Most say that numbers are numbers, that
sets are finite and that values which stand for "none" are no members; where an
assumption or a hypothesis says more, it is named below. The bounds of the model
(`MaxFaults`, `MaxStarts`, ...) are arbitrary, too: how many faults there are, and
whether their number is bounded, is nowhere used.

Every safety property, action property and refinement that a passing run checks is
stated by a theorem. What stays with TLC is liveness (end of this section).

**LeaderLeaseProofs**
- `TypeCorrect`: `Spec => []TypeOK`.
- `TakeoverWaits`: `Spec => TakeoverOnlyAfterExpiry`, with API errors and runs of
  any length. The decision is taken on a copy, so the invariant
  `FreshCopyExpired` says of each pod about to replace with a fresh copy that
  the Lease is its own or has expired: time only makes the stored Lease older,
  and any write makes the copy stale.
- `LeaderIsUnique`: `ShortRuns /\ Spec => []GrantedLeaderIsUnique`. Invariant
  `LeaderHoldsLease`: the pod in a run that the Lease let through is its holder,
  and `renewTime` is the `now` its run started from. With `ShortRuns`
  (`MaxRun <= LeaseDuration`) that Lease cannot have expired while the run lasts,
  so that no other pod has a fresh copy to replace it with.
  The hypothesis is needed: with runs longer than the lease TLC finds two
  granted leaders (section 7).

**PartsProofs**
- Loop breaker: `TypeCorrect`, and `OnlyAStreakCuts`: `Spec => []CutsOnlyAStreak`, for any
  threshold and reset time. The property speaks of the history, the code of its
  counter; the invariant `CountsTheStreak` relates the two in every state.
  `PauseLasts`: `Spec => PauseIsKept`, statement by statement. Invariant `PauseHolds`:
  whoever is about to move an open breaker to HALF_OPEN has found the reset time over
  since the last failing run, but for the readings that began before the opening had
  its time (`early`); those do shorten the pause, and the property names them.
- Chat breaker: `OnlyOlderUsesEndPauses`: `PauseEndsByOlderUse`, for any callers,
  threshold and recovery time. Invariant `PauseSound`: during a pause every caller
  that did not begin before the opening is at a command that changes nothing
  (`Harmless`), since `is_open` lets nobody further. It holds command by command
  and with failing ones.
- History: `UselessRestartsEnd`: `[]UselessRestartsStop`. What was learned from a history
  without a success is a confidence below the threshold (`Learned`). The proof
  needs that a restart takes more than the LLM alone is worth: the blend gives the LLM
  70 of 100, and the threshold is above it (`Confident \in 71..100`, 75 in the
  code). With a threshold of 70 a sure LLM would go on restarting.
- Pods: `UndisturbedStartsIndex`: `[]UndisturbedStartIndexes`. Invariant `Indexed`: a
  collection with any point at all has points of every file or was filled in part
  (whichever pods died on the way); an undisturbed pod that starts is alone and has
  all services, and what it has found holds when it acts on it (the collection is
  still not there when it creates it, it holds the embeddings of all files when it
  writes them). `MaxCopies >= 1`: a point is counted at least once.

**SRELoopProofs**
- `TypeCorrect`: `Spec => []TypeOK /\ []HandlesIncident`. `HandlesIncident`, that a
  run which handles an anomaly has one, is needed for the types, since
  `Target[cur[p]]` is written.
- `RestartsAreLimited`: with Redis reachable and no crash, `[]RestartLimit` for any
  number of pods, incidents, deployments and any limit. `RestartLimit` says
  nothing of the count in Redis and is not inductive. `LimitInv` adds that the
  restarts of the burst are at most that count plus the pods between restart
  and record, and that the key lives as long as the burst (`RestartsCounted`);
  and that burst and pods between check and restart together stay within the
  limit (`RoomFound`). A pod that finds the count below the limit keeps
  `RoomFound`, since it and the pods in those two places are at most
  `Concurrency` (`LeadersBounded`, from `Excluded` when the election is
  exclusive). The counting rests on `FiniteSetTheorems`.
- `SilenceIsEarned`: `Spec => []SilencedOnlyIfHandled`, with crashes and outages of
  Redis. Invariant `JustHandled`: from handling an incident until it is marked the
  time since it was handled stands still, so that its key cannot outlive it.
- `IncidentsAreHandledOnce`: with Redis reachable and no crash, `[]HandledOncePerTTL`.
  `DedupInv` counts like `LimitInv`: an incident without a key was handled at most by
  the pods about to mark it (`UnmarkedCounted`), a key lives as long as the time since
  the last handling (`KeyOutlives`), and the times it was handled and the pods that
  have taken it together are at most the concurrent leaders (`RoomToHandle`).

**GitOpsFixProofs**
- `TypeCorrect`: `Spec => []TypeOK`.
- `OneFixPerDeployment`: `Spec => []OneFixAtATime`. Invariant `FixInv`: until the
  first outage, a thread's lock outlives it (`LockCovers`: the key has lost no
  more of its life than the thread has lived)
  and no two threads are of one deployment (`Disjoint`). `Disjoint` alone is not
  inductive: a lock that expired would let a second thread in.
- `RollbackWaitsForFix`: `Spec => []NoRollbackOverFix`, from `FixInv` and inductive with
  it. It is about the whole time from the look to the rollback: when the verification
  finds neither key, no thread can be at work, because its lock would be there; and
  from then on only a handoff starts one (`ActingStep`), which is the exception the
  property names (`late`).

**GitOpsApprovalProofs**
- `TypeCorrect`: `Spec => []TypeOK`. `TypeOK` includes that a thread and a request
  have a pull request, since its state and its RFC are written.
- `OnlyOneWaits`: `Spec => []OnePRWaits` for any incidents, operators and number of
  pull requests, with commands of Redis that fail. Invariant `WaitInv`: an open pull
  request that did not stop waiting for a reason of its own and whose entry did not go
  for the sake of another one (`Lost`) is the pending one of its incident or the draft
  of its thread (`Tracked`). So when the dedup guard reads that nothing waits, whatever
  is open of the incident is lost; when it cannot read, the new one is `unseen`. It
  rests on `PRInv`: numbers not given out are unused, and a thread's draft is its own
  incident's (proved first, as `PRInvariant`).
- `ImplementMeansMerged`: `~RfcFails => (Spec => []ImplementedWasMerged)`. Invariant
  `MergeInv`: what is saved and what a request is about has an RFC, a request that
  is past the merge is about a merged pull request, and so is a webhook. No step
  takes back a merge or an RFC of a pull request (lemma `Kept`), so the witness
  stays. The hypothesis is needed: the guess of section 7.

**ChatWorkflowProofs**
- `TypeCorrect`: `Spec => []TypeOK`, from `InOrder`: the batches of a plan partition it,
  in order, and REASONING is alone in its batch (`Shape`); the pool has the steps of
  one batch, each in one place, and nobody else's (`PoolShape`).
- `TheLimitIsNotReached`: `[]NeverCut` if `(MaxRetries + 1) * (MaxPlanSteps + 3)` is at most
  the recursion limit, 22 of 25 in the code. Invariant `WithinBudget`: supersteps
  by node and attempt.
- `ThePlanIsExecuted`: `Spec => ExecutesPlan`, the refinement of `PlanExecution`, if a
  batch of `MaxPlanSteps` fits the queue (8 and 12 in the code; otherwise the
  backpressure drops steps). Invariant `RanOnce`: the steps of the past batches and
  those of the pool that got the semaphore ran once, the others not at all. Each
  action of the graph and the pool is a step of `PlanExecution` or a stutter.
- What validation and grouping compute for *every* plan is an induction over its
  length. The induction theorems of the library take an operator as a parameter,
  which no installed prover can instantiate; the lemma `InductiveSet` states the
  principle for a set of naturals instead and is proved from the well-foundedness
  of <. `Validated` and `Collected` are recursive functions for that reason.

**ServiceProofs**
- Chat: `RolesAreRespected` (`AgentNeedsRole`) and `AnswersStay` (`AnsweredIsKept`) from
  `ChatSound`: the role that was read and the level of the agent are at most the
  highest role of the user since the request came, and whoever was told 200 is
  in the history, deleted it, or was not saved.
- Documents: `IndexedStaysSearchable` and `StaleTextsExpire` from `DocsSound`: an upload
  whose row is due is among the points or has a reason not to be (`Indexed`); a
  document that a search has found has been gone no longer than the search is over
  (`Aging`), and one that is gone while its text is cached no longer than that search
  took and the cache has lived together (`Expiring`).
- Accounts: `IdentitiesBelong`, `StaleLanguagesAreExcused`, `ChoicesAreKept` from
  `ProfileSound`: a number and type is one account's (`Identified`), what a request has
  read is what is there unless it was overtaken (`Fresh`), and a cache that is
  out of date has a reason (`Excused`).
- Planner: `OneBriefPerWindow` from `DaySound`: as long as nobody has overlapped, one
  attempt at a time has the window, and whoever is still to come has no summary
  (`Ahead`).

**AgentsProofs**
- Phanuel: `VerdictsAreFresh`, if `Registering < Sleep` (GitHub makes a run before the first
  poll; the module says so of its constants, and without it the verdict may be an
  older run's). Invariant `Timely`: whoever polls has slept.
- Answers: `AnswersActOnMeant`, invariant `AnswerSound`: once a key is chosen, both what
  was read under it and what is under it now, which the deletion forgets, are pull
  requests the answer may be taken to be about (`Found`). That numbers stay (`NumbersStay`)
  is a lemma of its own: pull requests created meanwhile are counted later.
- Gabriel: `MergesRevertNothing` and `ReportsStayTrue` from `TasksSound`: a branch has what
  it was made from, and so has the base branch (`Grown`); a task that has committed
  finds its change in its branch or in the base, unless the branch was reset (`Kept`).
- Detection: `DetectionLosesNothing` by cases of deduplication and correlation (the chosen
  representative is among the reports and the most severe); `AlertsMeanRestarts` for
  pods with one container: what a leader remembers of a pod it alerted on is no
  lower than its count (`Remembered`). With more containers the code compares counts
  of different ones under one key, and the property does not hold.
- Manifests: `MergesRaise` (`LoweredForAReason`). Lemma `PatchRaises`: every entry of the
  bug library keeps the lines and raises numbers, but CPU limits with decimals
  (`IsRaised`), of which no patch makes a new one. Invariant `FixInv`: what was read is
  what is there as long as nothing was merged (`ReadNow`), so that a fix whose
  read and fork see the same commit has raised the lines of its branch (`Branched`).

Each of `PartsProofs`, `ServiceProofs` and `AgentsProofs` ends in a theorem on the
specification its run explores (`PartsKeepTheirPromises`, `ServiceKeepsItsPromises`,
`AgentsKeepTheirPromises`): `AllSpec` implies the specification of each component,
and so the properties above.

Model-checked only: every liveness property (`LoopGoesOn`, `CutLoopIsRetried`,
`LivingPodVerifies`, `VerdictReached`, `RequestEnds`, `ReadyAgain`). They rest on
fairness and ENABLED, which the prover does not support. The violations of
section 3 are counterexamples and nothing to prove.

## 7. Disagreements between code and documentation

Besides those of section 3, met while modelling. These were confirmed by TLC:
a property that states the claim is in the module, and with it in place of the
checked ones, or with the constants given here, TLC finds it violated.

- *Creation of the Lease.* The 409 of the loser of a creation is raised inside the
  handler of the 404, reaches the outer `except` and is taken for "assume leader"
  (`scheduler.py:165-171`), against "Retorna True si este pod es el líder actual"
  (`scheduler.py:109`).
- *Runs longer than the lease.* Nothing renews the Lease during a run. With
  `MaxRun > LeaseDuration` a second pod is granted it (`scheduler.py:24`, 90 s;
  a run may make several LLM calls), against "single-leader en multi-pod"
  (`scheduler.py:8`).
- *Verification and crash.* "5 minutos después de un restart, Raphael verifica"
  (`docs/speech-direccion-tecnologia.md:387`): the job is in the memory of the pod
  (`healer.py:446`) and lost with it.
- *Restart limit without Redis.* `_check_restart_limit` answers "below" and
  `record_restart` only logs (`healer.py:541`): "Máximo 3 reinicios automáticos
  en 15 minutos" (`runbooks/crash_loop.md:49`) does not hold during an outage,
  nor when a pod dies between restart and record.
- *A loop that goes on failing* (`FailingLoopPauses`). "Corta el loop autónomo tras N
  errores consecutivos" (`scheduler.py:32`), but a failing run in HALF_OPEN opens nothing
  (`scheduler.py:70`): the loop runs at every firing again.
- *A rollback next to a fix* (`NoRollbackWhilePending`, with `RedisFaults = TRUE`). "Si
  Camael tiene un PR pendiente para este incidente, NO se hace rollback"
  (`healer.py:325`), but an error of Redis is taken for "nothing is pending"
  (`healer.py:307`).
- *A second pull request* (`NoDuplicatePR`, with `MaxPRs = 3`, one operator and
  `UiMerges = FALSE`). "Si ya existe un PR pendiente para este incident_key, no crear
  otro" (`agents/devops/agent.py:440`), but an answer about one pull request deletes the
  entry of the next one of its incident (`:946`), and a third is created while the
  second is open.
- *CPU limits with decimals* (`CpuLimitRaised`). "Aumenta resources.limits.cpu en el YAML"
  (`bug_library.py:199`), but only the digits before the point are matched (`:212`): a
  limit of 0.5 is read as 0, doubled and written back as 0.
- *Maintenance that starts during a run.* It is read once (`scheduler.py:300`):
  "Nunca actúa durante ventanas de mantenimiento activas"
  (`docs/speech-direccion-tecnologia.md:220`).
- *Pending fixes.* The lock
  of a handoff and the key of its pull request last 7200 s each from different
  times: between their ends a second pull request for the deployment is
  possible, for another incident (`healer.py:629`, "un solo PR por deployment").
  And as nothing deletes the lock, a verification goes on waiting for a fix that
  failed or was rejected (`healer.py:295`).
- *RFC closed before its merge.* The verification belongs to the restart and closes
  the RFC as successful before any approval (`healer.py:344`, against
  `rfc_templates.py:115-116`).
- *The guessed RFC.* Without an RFC in the entry the first `sn:rfc` key of Redis is
  taken, whosever it is (`routers/devops.py:379`): `ImplementedWasMerged` fails with
  `RfcFails = TRUE` or two incidents.
- *Merges that lower* (`MergeOnlyRaises`). A fix that read the file before another
  one was merged and forked its branch afterwards takes the other one's change
  back (`agents/devops/agent.py:527`).
- *Limits that are no limits.* `_patch_cpu_limit` never leaves `limits:`, so that it
  may change `requests` (`bug_library.py:198-236`); and every `limits:` section of a
  file is patched, "solo el primer memory en limits" (`bug_library.py:183`).
- *REASONING without context* (`SynthesisUsesContext`). Only `final_answer` reaches the
  prompt (`batch_runner.py:231`), against `TECHNICAL_DESIGN_DOCUMENT.md:430`.
- *A repeated question* (`RepeatIsAnswered`). When the database refuses the exchange,
  a question answered from the cache gets a 500 (`chat.py:175-184`), one answered
  afresh does not.
- *A question that deletes documents* (`QuestionKeepsDocuments`). Any failure to open
  the collection, not only a "mismatch", recreates it (`rag_retriever.py:61`,
  `:77-91`).
- *Versioning* (`VersioningKeepsOthers`). The match is by substring: uploading `a.pdf`
  deletes the chunks of `data.pdf` (`ingest.py:135`).
- *More than one probe* (`OneProbe`). Every call that comes in HALF_OPEN goes through,
  against "1 llamada de prueba en HALF_OPEN" (`circuit_breaker.py:9`).
- *A pause cut short.* The state is set before its time (`scheduler.py:71-72`): a status
  that is read in between finds the breaker OPEN with the time of an earlier opening,
  or none, and moves it to HALF_OPEN at once. `PauseIsKept` without its second case
  (`early`) is violated by it.
- *The most recent pull request* (`ChatTakesLatest`). `_get_latest_pending_pr_key`
  returns the first key (`agents/devops/agent.py:929-940`), against "buscando el PR
  pendiente más reciente" (`:173`).

Read in the code, not run. SRE agent:

- Of a resource the longest key its name begins with is taken, without a hyphen: the
  manifest of another application may be patched (`bug_library.py:488-491`). Memory
  without a unit, or below `ephemeral-storage`, is not patched, and a patch that
  changes nothing still opens a pull request; memory with decimals (`1.5Gi`) raises
  (`bug_library.py:129`), so that such a manifest is never fixed. A fix that fails
  leaves its branch behind. An application managed in GitHub gets a Bitbucket fix when
  ArgoCD cannot be reached. The docstring of `get_fix` says ArgoCD first; it is
  asked last. The multiplier of `camael_analyzer` never reaches a patch, and the
  module it imports, `storage.postgres.pool`, does not exist.
- A reading of the breaker that found the reset time over moves it to HALF_OPEN also
  after a good run has closed it (`scheduler.py:53-55`): a failing run then counts
  but opens nothing.
- The rollback sends the keys of `to_dict()` (snake case) back to the API
  (`healer.py:259`). `verify:rollback:ok` counts as a success of the restart
  (`reporter.py:163-166`), one row is "datos suficientes" (`reporter.py:140`), and ON
  CONFLICT DO NOTHING keeps the first row of a key.
- A pod that recovered from OOM is reported as long as `last_state` says so. The
  restart baseline is one per pod, the counts are per container. A leader that
  comes back with an old baseline reports restarts again. Two pods with the same
  issue restart their deployment twice; correlation gives the incident another key
  when a third one joins. The MEDIUM branch of memory cannot be reached, an SLO of
  100 % never alerts, and `load_slo_targets` is never called at the start.
- `_get_pods` refers to a name that is not defined (`_SREAgent`), and several commands
  of `routers/sre.py` call functions with arguments they do not take.
- LLM timeouts of an executor used in a `with` block are illusory: leaving the block
  waits for the call (diagnosis, 30 s; `_route_with_llm`, 10 s; day planner, 60 s).
- The deployed `SRE_VERIFICATION_DELAY` is 600 s
  (`k8s/agents/05-backend-deployment.yaml:128-130`), texts say 5 minutes; "una sola
  vez" (`healer.py:367`) describes a job that schedules itself again as long as it
  waits.
- The key of the restart limit in the ConfigMap is not the one the code reads, and
  the Redis keys of `TECHNICAL_DESIGN_DOCUMENT.md:735-740` are not those of the code.

Camael:

- Rows of `camael_gitops_actions` of a second pull request of an incident are lost
  to `ON CONFLICT DO NOTHING`, "audit trail permanente" (`agent.py:625`).
- The webhook moves the RFC of a merge only while the entry is in Redis, and the
  approval that merged has just deleted it (`routers/devops.py:683`).
- `/devops rechazar` declines the pull request and leaves the RFC open.
- When the dedup guard cannot read, the error is logged and a second pull request created
  (`agent.py:466-467`), which `_save_pending_pr` puts in the place of the first
  (`OnePRWaits` names it: `unseen`, `swept`).
- Answers with a number compare it with the entries of all repositories, each of which
  counts its own (`routers/devops.py:324`).
- `/devops aprobar` takes every 409 for "already merged", a merge conflict too, and
  stops tracking the open pull request (`routers/devops.py:358`); given without a
  number after the announced one has expired, it merges whichever is the only one.
- Texts say that approval expires in 10 minutes (`agent.py:183`, `:372`, `:777`),
  the TTL is two hours.
- An RFC cancelled by a rejection may be reused by the next fix of the incident
  while `sn:rfc:<incident>` lasts.

Chat, documents and accounts:

- A counter of the rate limit whose EXPIRE failed has no TTL and locks its user out
  (`auth.py:215`); an OPEN breaker whose EXPIRE failed stays without one
  (`circuit_breaker.py:102-104`).
- One worker and a blocking `graph.invoke` (`workflow_engine.py:163`): a long request
  keeps the liveness probe waiting. `TECHNICAL_DESIGN_DOCUMENT.md:360` says
  `max_workers=len(batch)`, the code takes at most four. A replanned request keeps
  the rejected answer as its `final_answer`. Two identical requests at a time both
  run. A change of role does not show in cached answers. `get_conversation` returns
  "todos sus mensajes", at most 100 of them (`conversations.py:190`).
- A wipe answers `deleted: True` when Qdrant refused it. The job of a pod that died
  stays "processing" until its key expires. Jobs do no versioning, the scroll stops
  at 1000 points, the notification after a job reads columns that do not exist, and
  the temporary PDF of a failed upload stays.
- JWTs do not expire and outlive the deletion of their user, whose profile an old
  token creates again. `create_user` answers ok although an existing role and number
  stay as they were. `delete_user` leaves tokens and cached language.
  `allow_access_requests` is never read.
- Episodes are never written: `chat.py` makes the `AgentContext` without the
  arguments they need, and the memory router always answers 503.

Planner, pods and other agents:

- Briefs look up the identity type `phone`, administrators insert `whatsapp`: the
  number of the administrator is used. A PostgreSQL error answers 200 and burns the
  window; a pod that dies after SETEX loses the plan of the day, its retries get a
  429. The planner sends `{"phone", "message"}` to the bridge to which Camael sends
  `{"number", "message"}` and the others `{"phoneNumber", "text"}`.
- A pod that could not reach PostgreSQL at its start has no pool for life; `/ready`
  answers 503, `/health` ok, so that nothing restarts it. Redis recovers.
- Any point in `sre_runbooks` keeps the files from ever being indexed; two pods that
  start together index them twice. `shutdown(wait=False)` is followed by the closing
  of the pool under a run that goes on.
- A second task of Gabriel with the same branch name resets the branch by force and
  the first pull request loses its change; a refused commit leaves a branch behind.
  Phanuel's verdict may be that of a younger run, of a push or another request.

## 8. What is not modelled

`PROJECT.json` lists every component with the reason. In short:

- *Unreachable*: the memory agent (no path reaches its episodes), and the analyzer of
  Camael, of which only texts reach the pull request.
- *Only reads, or one request without state of its own*: the SRE command API
  (its maintenance commands are in `SRELoop`), the agent task API, the step handlers
  of the executor, research, productivity, coder, arch and CTO agents, tools.
- *Texts*: runbooks and their search, post-mortems, notices, prompts; they change a
  diagnosis only through what the LLM states, which is any confidence. The
  sanitizer and the patterns of the validator are functions on strings.
- *Nothing reads it back*: observability, object storage, the audit table.
- *Values and registration*: configuration, agent base and registry; speech.

Left out of the modelled parts: texts of notifications, metrics, the contents of
RFCs, the summary and backup of an upload, feedback.

The modules are composed by named interfaces (section 2), not in a product: what one
module assumes of another as "any" is the widest case, but a property that needs two
modules at once is checked by none of the runs.

## 9. Plan

The safety properties of the runs are proved. What would add most:

1. An abstract specification of the healing promise ("each incident is handled at
   most once per TTL and then verified") that `SRELoop` with one leader implements,
   so that `GitOpsFix` can start from it, and a breaker that `LoopBreaker` and, where
   it holds, `ServiceBreaker` implement; both as refinements to be proved.
2. The election and the loop in one module, in which `OneLeader` is no constant but what
   `LeaderIsUnique` proves.
3. Type invariants of the components of the MC modules as theorems of their own; the
   proofs use the parts of them they need.

New modules are written with folds or recursive functions rather than RECURSIVE
operators so that they can be proved about.

## 10. Running the checks

    tlc -workers 2 -config SRELoop.cfg MCSRELoop.tla    # every run of PROJECT.json likewise
    tlapm LeaderLeaseProofs.tla                         # and the other *Proofs modules

The longest runs are `Agents`, `Service` and `GitOpsApproval` (about two minutes each), the
longest proofs `SRELoopProofs`, `ServiceProofs` and `AgentsProofs` (a few minutes
each).
