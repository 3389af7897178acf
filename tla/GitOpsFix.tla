----------------------------- MODULE GitOpsFix -----------------------------
(***************************************************************************)
(* After a restart: the handoff of the incident to Camael and the          *)
(* verification of the deployment (agents/sre/healer.py), which share two  *)
(* Redis keys with the thread in which Camael prepares a pull request      *)
(* (agents/devops/agent.py, _gitops_fix):                                  *)
(*   sre:gitops:<ns>:<deployment>   a handoff for the deployment is active *)
(*   bb:pending_pr:<incident>       its pull request waits for approval    *)
(*                                                                         *)
(* The verification must not roll a deployment back while a fix is on its  *)
(* way.  What the operator does with a pull request is in GitOpsApproval;  *)
(* here it only takes the pending key away (Settle).                       *)
(*                                                                         *)
(* Keys with a TTL are countdowns in ticks: 0 means that the key is absent.*)
(***************************************************************************)
EXTENDS Integers

CONSTANTS
  Incidents,    \* incidents whose restart succeeded
  Deployments,
  Target,       \* the deployment of each incident
  HandoffTTL,   \* TTL of sre:gitops (7200 s)
  PendingTTL,   \* _REDIS_PR_TTL of bb:pending_pr (7200 s)
  FixTicks,     \* longest life of a thread of Camael
  VerifyDelay,  \* SRE_VERIFICATION_DELAY
  MaxHandoffs,  \* bound: restarts that are handed off
  RedisFaults,  \* may Redis become unreachable
  FixFails,     \* may Bitbucket, the LLM or the manifest lookup fail
  Crashes       \* may the leader's pod die

ASSUME FixAssumption ==
  /\ Target \in [Incidents -> Deployments]
  /\ FixTicks \in Nat /\ HandoffTTL \in Nat /\ HandoffTTL > FixTicks
  /\ PendingTTL \in Nat \ {0} /\ VerifyDelay \in Nat /\ MaxHandoffs \in Nat
  /\ RedisFaults \in BOOLEAN /\ FixFails \in BOOLEAN /\ Crashes \in BOOLEAN

VARIABLES
  redisUp,   \* can Redis be reached
  gitops,    \* TTL of sre:gitops of each deployment
  memLock,   \* _IN_MEMORY_GITOPS_LOCK
  pending,   \* TTL of bb:pending_pr of each incident
  fix,       \* where Camael's thread for the incident is
  fixAge,    \* and for how long it has been running
  job,       \* is a verification scheduled
  due,       \* time until it runs
  acting,    \* verifications that found no fix on its way and act
  handoffs,  \* handoffs so far
  \* history
  outage,    \* Redis could not be reached at some time
  late       \* acting verifications whose deployment was handed off since they looked

vars == <<redisUp, gitops, memLock, pending, fix, fixAge, job, due, acting,
                 handoffs, outage, late>>

TypeOK ==
  /\ redisUp \in BOOLEAN
  /\ gitops \in [Deployments -> 0..HandoffTTL]
  /\ memLock \subseteq Deployments
  /\ pending \in [Incidents -> 0..PendingTTL]
  /\ fix \in [Incidents -> {"none", "check", "create", "save"}]
  /\ fixAge \in [Incidents -> 0..FixTicks]
  /\ job \in [Incidents -> BOOLEAN]
  /\ due \in [Incidents -> 0..VerifyDelay]
  /\ acting \subseteq Incidents
  /\ handoffs \in 0..MaxHandoffs
  /\ outage \in BOOLEAN
  /\ late \subseteq acting

Init ==
  /\ redisUp = TRUE
  /\ gitops = [d \in Deployments |-> 0]
  /\ memLock = {}
  /\ pending = [i \in Incidents |-> 0]
  /\ fix = [i \in Incidents |-> "none"]
  /\ fixAge = [i \in Incidents |-> 0]
  /\ job = [i \in Incidents |-> FALSE]
  /\ due = [i \in Incidents |-> 0]
  /\ acting = {}
  /\ handoffs = 0
  /\ outage = FALSE
  /\ late = {}

Working(i) == fix[i] # "none"

-----------------------------------------------------------------------------
\* Mutant: the verification is put off once too often.
ScheduleLate(i) ==
  /\ job' = [job EXCEPT ![i] = TRUE]
  /\ due' = [due EXCEPT ![i] = @ + VerifyDelay + 1]

\* schedule_verification: the job of an incident replaces an earlier one.
Schedule(i) ==
  /\ job' = [job EXCEPT ![i] = TRUE]
  /\ due' = [due EXCEPT ![i] = VerifyDelay]

\* A second thread for an incident takes the first one's place in the model; no
\* lock lets one start before the first is over while Redis answers.
StartThread(i) ==
  /\ fix' = [fix EXCEPT ![i] = "check"]
  /\ fixAge' = [fixAge EXCEPT ![i] = 0]
  /\ late' = late \cup {j \in acting : Target[j] = Target[i]}

SkipHandoff == UNCHANGED <<gitops, memLock, fix, fixAge, late>>

\* Mutant: the lock is set without asking whether it was there.
SetAndStart(i) ==
  /\ gitops' = [gitops EXCEPT ![Target[i]] = HandoffTTL]
  /\ UNCHANGED memLock
  /\ StartThread(i)

\* The lock of a handoff: SET NX EX, or the lock in memory when Redis cannot be
\* reached.  The handoffs of one run are in the same thread, so that the set
\* _gitops_dispatched_this_run skips none that this lock would let through.
LockAndStart(i) ==
  LET d == Target[i] IN
    \/ /\ redisUp /\ gitops[d] = 0
       /\ gitops' = [gitops EXCEPT ![d] = HandoffTTL]
       /\ UNCHANGED memLock
       /\ StartThread(i)
    \/ /\ redisUp /\ gitops[d] > 0
       /\ SkipHandoff
    \/ /\ ~redisUp /\ d \notin memLock
       /\ memLock' = memLock \cup {d}
       /\ UNCHANGED gitops
       /\ StartThread(i)
    \/ /\ ~redisUp /\ d \in memLock
       /\ SkipHandoff

\* handoff_to_camael and schedule_verification, after a successful restart.  An
\* issue type without a fix, or a manifest on GitHub, is not handed off.
Handoff(i) ==
  /\ handoffs < MaxHandoffs
  /\ handoffs' = handoffs + 1
  /\ LockAndStart(i) \/ SkipHandoff
  /\ Schedule(i)
  /\ UNCHANGED <<redisUp, pending, acting, outage>>

-----------------------------------------------------------------------------
(* Camael's thread                                                         *)

EndThread(i) ==
  /\ fix' = [fix EXCEPT ![i] = "none"]
  /\ fixAge' = [fixAge EXCEPT ![i] = 0]

\* The dedup guard on the pending pull request of the incident; an unreachable
\* Redis means that there is none.
CheckPending(i) ==
  /\ fix[i] = "check"
  /\ IF redisUp /\ pending[i] > 0
     THEN EndThread(i)
     ELSE fix' = [fix EXCEPT ![i] = "create"] /\ UNCHANGED fixAge
  /\ UNCHANGED <<redisUp, gitops, memLock, pending, job, due, acting, handoffs, outage, late>>

\* Manifest, analysis, patch, branch, commit, pull request and RFC.
CreatePR(i) ==
  /\ fix[i] = "create"
  /\ fix' = [fix EXCEPT ![i] = "save"]
  /\ UNCHANGED <<redisUp, gitops, memLock, pending, fixAge, job, due, acting,
                 handoffs, outage, late>>

\* _save_pending_pr, whose errors are swallowed.
SavePending(i) ==
  /\ fix[i] = "save"
  /\ EndThread(i)
  /\ pending' = IF redisUp THEN [pending EXCEPT ![i] = PendingTTL] ELSE pending
  /\ UNCHANGED <<redisUp, gitops, memLock, job, due, acting, handoffs, outage, late>>

\* No manifest, or an exception up to the creation of the pull request: the
\* result says so and nothing else does; the lock stays.
FixError(i) ==
  /\ FixFails
  /\ fix[i] \in {"check", "create"}
  /\ EndThread(i)
  /\ UNCHANGED <<redisUp, gitops, memLock, pending, job, due, acting, handoffs, outage, late>>

\* The operator approves or rejects the pull request (GitOpsApproval).
Settle(i) ==
  /\ redisUp /\ pending[i] > 0
  /\ pending' = [pending EXCEPT ![i] = 0]
  /\ UNCHANGED <<redisUp, gitops, memLock, fix, fixAge, job, due, acting,
                 handoffs, outage, late>>

-----------------------------------------------------------------------------
(* The verification job                                                    *)

\* Mutant: only the pull request of the incident counts.
HasOwnPR(i) == redisUp /\ pending[i] > 0

\* _has_pending_gitops_pr: an unreachable Redis means that nothing is pending.
HasPendingPR(i) == redisUp /\ (pending[i] > 0 \/ gitops[Target[i]] > 0)

\* Mutant: waiting extends the lock of the handoff.
WaitAndExtend(i) ==
  /\ job[i] /\ due[i] = 0
  /\ HasPendingPR(i)
  /\ Schedule(i)
  /\ gitops' = [gitops EXCEPT ![Target[i]] = HandoffTTL]
  /\ UNCHANGED <<redisUp, memLock, pending, fix, fixAge, acting, handoffs,
                 outage, late>>

\* Unhealthy, but a fix is on its way: look again later.
VerifyWait(i) ==
  /\ job[i] /\ due[i] = 0
  /\ HasPendingPR(i)
  /\ Schedule(i)
  /\ UNCHANGED <<redisUp, gitops, memLock, pending, fix, fixAge, acting, handoffs,
                 outage, late>>

EndJob(i) == job' = [job EXCEPT ![i] = FALSE] /\ UNCHANGED due

\* Healthy: the incident is closed.
VerifyOk(i) ==
  /\ job[i] /\ due[i] = 0
  /\ EndJob(i)
  /\ UNCHANGED <<redisUp, gitops, memLock, pending, fix, fixAge, acting, handoffs,
                 outage, late>>

\* Unhealthy and no fix on its way: the job goes on to act.
VerifyFails(i) ==
  /\ job[i] /\ due[i] = 0
  /\ ~HasPendingPR(i)
  /\ EndJob(i)
  /\ acting' = acting \cup {i}
  /\ late' = late \ {i}
  /\ UNCHANGED <<redisUp, gitops, memLock, pending, fix, fixAge, handoffs, outage>>

\* rollout_undo_deployment when the deployment is recent, else a call for help;
\* in both cases the fix is recorded as failed.
Act(i) ==
  /\ i \in acting
  /\ acting' = acting \ {i}
  /\ late' = late \ {i}
  /\ UNCHANGED <<redisUp, gitops, memLock, pending, fix, fixAge, job, due, handoffs,
                 outage>>

-----------------------------------------------------------------------------
(* Environment                                                             *)

\* The leader's pod dies: its threads, its jobs and its lock are gone.
Crash ==
  /\ Crashes
  /\ memLock' = {}
  /\ fix' = [i \in Incidents |-> "none"]
  /\ fixAge' = [i \in Incidents |-> 0]
  /\ job' = [i \in Incidents |-> FALSE]
  /\ acting' = {}
  /\ late' = {}
  /\ UNCHANGED <<redisUp, gitops, pending, due, handoffs, outage>>

SetRedis ==
  /\ RedisFaults
  /\ redisUp' = ~redisUp
  /\ outage' = TRUE
  /\ UNCHANGED <<gitops, memLock, pending, fix, fixAge, job, due, acting,
                 handoffs, late>>

Less(n) == IF n > 0 THEN n - 1 ELSE 0

Tick ==
  /\ \A i \in Incidents : Working(i) => fixAge[i] < FixTicks
  /\ gitops' = [d \in Deployments |-> Less(gitops[d])]
  /\ pending' = [i \in Incidents |-> Less(pending[i])]
  /\ fixAge' = [i \in Incidents |-> IF Working(i) THEN fixAge[i] + 1 ELSE 0]
  /\ due' = [i \in Incidents |-> Less(due[i])]
  /\ UNCHANGED <<redisUp, memLock, fix, job, acting, handoffs, outage, late>>

Camael(i) == CheckPending(i) \/ CreatePR(i) \/ SavePending(i)

Verify(i) == VerifyWait(i) \/ VerifyOk(i) \/ VerifyFails(i) \/ Act(i)

Next ==
  \/ \E i \in Incidents :
       Handoff(i) \/ Camael(i) \/ FixError(i) \/ Settle(i) \/ Verify(i)
  \/ Crash \/ SetRedis \/ Tick

Spec == Init /\ [][Next]_vars

\* Threads and due jobs of a live pod run, calls to Camael's services end in
\* time, and time passes.
Fairness ==
  /\ WF_vars(Tick)
  /\ \A i \in Incidents : WF_vars(Camael(i)) /\ WF_vars(Verify(i))

FairSpec == Spec /\ Fairness

-----------------------------------------------------------------------------
\* As long as Redis answers, a verification that has found no fix on its way still
\* finds none when it rolls the deployment back, calls to Kubernetes later: Camael
\* neither prepares a pull request for the deployment nor has one of the incident
\* waiting, although the two keys are written by different threads at different
\* times.  The exception is a handoff that came after the look.
NoRollbackOverFix ==
  ~outage => \A i \in acting \ late :
               /\ pending[i] = 0
               /\ \A j \in Incidents : Target[j] = Target[i] => ~Working(j)

\* "si Camael tiene un PR pendiente para este incidente, NO se hace rollback".
NoRollbackWhilePending == [][\A i \in Incidents : Act(i) => pending[i] = 0]_vars

\* At most one fix is prepared for a deployment at a time, whatever incidents
\* of it are handed off, as long as the lock is in Redis.
OneFixAtATime ==
  ~outage => \A i, j \in Incidents :
               Working(i) /\ Working(j) /\ Target[i] = Target[j] => i = j

\* Waiting for fixes does not go on for ever: a verification comes to a verdict.
VerdictReached == \A i \in Incidents : job[i] ~> ~job[i]
=============================================================================
