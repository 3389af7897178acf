------------------------------ MODULE SRELoop ------------------------------
(***************************************************************************)
(* The autonomous SRE loop of Raphael (agents/sre/scheduler.py,            *)
(* sre_autonomous_loop, with the operations of agents/sre/healer.py it     *)
(* calls): maintenance guard, election, observation, and for each anomaly  *)
(* deduplication, diagnosis, decision, restart under the restart limit,    *)
(* bookkeeping and the scheduling of the verification.                     *)
(*                                                                         *)
(* Who may lead is the business of LeaderLease: OneLeader says whether the *)
(* election is exclusive.  The ticks at which the circuit breaker lets no  *)
(* run start are ticks at which none starts here; LoopBreaker says which.  *)
(* What a verification job does is in GitOpsFix.                           *)
(*                                                                         *)
(* Redis keys with a TTL are countdowns: 0 means that the key is absent.   *)
(***************************************************************************)
EXTENDS Integers, FiniteSets

CONSTANTS
  Pods,
  Incidents,       \* incident keys: namespace, resource and issue type
  NoIncident,      \* no anomaly is being handled
  Deployments,
  Target,          \* the deployment whose restart an incident asks for
  Severity,        \* severity rank of each incident
  MinSeverity,     \* AUTO_HEAL_MIN_SEVERITY
  Protected,       \* incidents of PROTECTED_DEPLOYMENTS
  AutoHealable,    \* incidents whose type is in _AUTO_HEALABLE_ISSUES
  DedupTTL,        \* _dedup_ttl_for each incident
  MaxRestarts,     \* SRE_MAX_RESTARTS_PER_RESOURCE
  RestartWindow,   \* SRE_RESTART_WINDOW_MINUTES
  MaintenanceTTL,  \* minutes an operator asks for
  OneLeader,       \* is the election exclusive
  RedisFaults,     \* may Redis become unreachable
  Crashes,         \* may a pod die in the middle of a run
  LoopErrors,      \* may observation or diagnosis raise
  HandoffErrors    \* may the handoff to Camael raise (no thread to start)

ASSUME LoopAssumption ==
  /\ IsFiniteSet(Pods) /\ Pods # {}
  /\ NoIncident \notin Incidents
  /\ Target \in [Incidents -> Deployments]
  /\ Severity \in [Incidents -> 0..3] /\ MinSeverity \in 0..3
  /\ Protected \subseteq Incidents /\ AutoHealable \subseteq Incidents
  /\ DedupTTL \in [Incidents -> Nat \ {0}]
  /\ MaxRestarts \in Nat \ {0} /\ RestartWindow \in Nat \ {0}
  /\ MaintenanceTTL \in Nat \ {0}
  /\ OneLeader \in BOOLEAN /\ RedisFaults \in BOOLEAN
  /\ Crashes \in BOOLEAN
  /\ LoopErrors \in BOOLEAN /\ HandoffErrors \in BOOLEAN

VARIABLES
  redisUp,      \* can Redis be reached
  maintenance,  \* TTL of sre:maintenance:active
  dedup,        \* TTL of sre:incident:<key>
  memDedup,     \* _dedup_cache of each pod, the fallback
  count,        \* value of sre:restarts:<ns>:<deployment>
  countTTL,     \* and its TTL
  pc,           \* where the loop job of each pod is
  todo,         \* anomalies of the run still to be handled
  cur,          \* the anomaly being handled
  jobs,         \* verification jobs in each pod's scheduler
  \* history
  burst,        \* restarts of a deployment since it last had a quiet window
  burstLeft,    \* time until the window since its last restart is over
  handled,      \* times an incident was handled since it last was quiet for
                \* its dedup TTL
  handledLeft,  \* time until its TTL since it was last handled is over
  owed,         \* incidents each pod restarted for and has not verified since
  lost          \* those whose pod died before it verified them

redis   == <<redisUp, maintenance, dedup, count, countTTL>>
history == <<burst, burstLeft, handled, handledLeft, owed, lost>>
vars == <<redis, memDedup, pc, todo, cur, jobs, history>>

\* Labels between the check of the restart limit and the dedup mark: calls that
\* follow each other at once, during which the clock does not advance.
Acting == {"limit", "patch", "record", "recordOk", "mark", "markOk"}

InRun == {"observe", "next", "diagnose", "dispatch"} \cup Acting

Labels == {"idle", "maintenance", "lease"} \cup InRun

\* How many runs may be past the election at the same time.
Concurrency == IF OneLeader THEN 1 ELSE Cardinality(Pods)

\* The counters saturate one above the values the properties allow.
CountCap   == MaxRestarts + Cardinality(Pods)
HandledCap == Cardinality(Pods) + 1

KeyTypes ==
  /\ redisUp \in BOOLEAN
  /\ maintenance \in 0..MaintenanceTTL
  /\ dedup \in [Incidents -> Nat]
  /\ memDedup \in [Pods -> [Incidents -> Nat]]
  /\ \A i \in Incidents : /\ dedup[i] <= DedupTTL[i]
                           /\ \A p \in Pods : memDedup[p][i] <= DedupTTL[i]
  /\ count \in [Deployments -> 0..CountCap]
  /\ countTTL \in [Deployments -> 0..RestartWindow]

LoopTypes ==
  /\ pc \in [Pods -> Labels]
  /\ todo \in [Pods -> SUBSET Incidents]
  /\ cur \in [Pods -> Incidents \cup {NoIncident}]
  /\ jobs \in [Pods -> SUBSET Incidents]

HistoryTypes ==
  /\ burst \in [Deployments -> 0..CountCap]
  /\ burstLeft \in [Deployments -> 0..RestartWindow]
  /\ handled \in [Incidents -> 0..HandledCap]
  /\ handledLeft \in [Incidents -> Nat]
  /\ \A i \in Incidents : handledLeft[i] <= DedupTTL[i]
  /\ owed \in [Pods -> SUBSET Incidents]
  /\ lost \subseteq Incidents

TypeOK == KeyTypes /\ LoopTypes /\ HistoryTypes

Init ==
  /\ redisUp = TRUE
  /\ maintenance = 0
  /\ dedup = [i \in Incidents |-> 0]
  /\ memDedup = [p \in Pods |-> [i \in Incidents |-> 0]]
  /\ count = [d \in Deployments |-> 0]
  /\ countTTL = [d \in Deployments |-> 0]
  /\ pc = [p \in Pods |-> "idle"]
  /\ todo = [p \in Pods |-> {}]
  /\ cur = [p \in Pods |-> NoIncident]
  /\ jobs = [p \in Pods |-> {}]
  /\ burst = [d \in Deployments |-> 0]
  /\ burstLeft = [d \in Deployments |-> 0]
  /\ handled = [i \in Incidents |-> 0]
  /\ handledLeft = [i \in Incidents |-> 0]
  /\ owed = [p \in Pods |-> {}]
  /\ lost = {}

-----------------------------------------------------------------------------
Goto(p, label) == pc' = [pc EXCEPT ![p] = label]

Bump(n, cap) == IF n < cap THEN n + 1 ELSE n

\* The run leaves the loop over the anomalies.
Leave(p) ==
  /\ Goto(p, "idle")
  /\ todo' = [todo EXCEPT ![p] = {}]
  /\ cur' = [cur EXCEPT ![p] = NoIncident]

-----------------------------------------------------------------------------
(* Guards of a run                                                         *)

\* The interval job fires; it never runs twice at a time in one pod.
StartRun(p) ==
  /\ pc[p] = "idle"
  /\ Goto(p, "maintenance")
  /\ UNCHANGED <<redis, memDedup, todo, cur, jobs, history>>

\* is_maintenance_active: an unreachable Redis means no maintenance.
CheckMaintenance(p) ==
  /\ pc[p] = "maintenance"
  /\ Goto(p, IF redisUp /\ maintenance > 0 THEN "idle" ELSE "lease")
  /\ UNCHANGED <<redis, memDedup, todo, cur, jobs, history>>

\* _try_acquire_lease, as LeaderLease specifies it.
Elect(p) ==
  /\ pc[p] = "lease"
  /\ \/ /\ OneLeader => \A q \in Pods : pc[q] \notin InRun
        /\ Goto(p, "observe")
     \/ Goto(p, "idle")
  /\ UNCHANGED <<redis, memDedup, todo, cur, jobs, history>>

\* The observers, detection and correlation: any set of anomalies.
Observe(p) ==
  /\ pc[p] = "observe"
  /\ \E seen \in SUBSET Incidents :
       /\ todo' = [todo EXCEPT ![p] = seen]
       /\ Goto(p, IF seen = {} THEN "idle" ELSE "next")
  /\ UNCHANGED <<redis, memDedup, cur, jobs, history>>

-----------------------------------------------------------------------------
(* One anomaly                                                             *)

\* is_duplicate_incident, with the in-memory fallback.
IsDuplicate(p, i) == IF redisUp THEN dedup[i] > 0 ELSE memDedup[p][i] > 0

\* Mutant: the anomaly is marked as soon as it is taken.
MarkWhenTaken(p) ==
  /\ pc[p] = "next"
  /\ \E i \in todo[p] :
       /\ todo' = [todo EXCEPT ![p] = @ \ {i}]
       /\ ~IsDuplicate(p, i)
       /\ dedup' = [dedup EXCEPT ![i] = IF redisUp THEN DedupTTL[i] ELSE @]
       /\ cur' = [cur EXCEPT ![p] = i]
       /\ Goto(p, "diagnose")
  /\ UNCHANGED <<redisUp, maintenance, count, countTTL, memDedup, jobs, history>>

\* The loop takes the anomalies by descending severity and skips duplicates.
NextAnomaly(p) ==
  /\ pc[p] = "next"
  /\ \E i \in todo[p] :
       /\ \A j \in todo[p] : Severity[j] <= Severity[i]
       /\ todo' = [todo EXCEPT ![p] = @ \ {i}]
       /\ IF IsDuplicate(p, i)
          THEN UNCHANGED <<pc, cur>>
          ELSE /\ cur' = [cur EXCEPT ![p] = i]
               /\ Goto(p, "diagnose")
  /\ UNCHANGED <<redis, memDedup, jobs, history>>

FinishRun(p) ==
  /\ pc[p] = "next"
  /\ todo[p] = {}
  /\ Leave(p)
  /\ UNCHANGED <<redis, memDedup, jobs, history>>

\* decide_action.
DecideAction(i, confident) ==
  CASE i \in Protected \/ i \notin AutoHealable -> "NOTIFY_HUMAN"
    [] i \in AutoHealable \ Protected /\ Severity[i] < MinSeverity -> "NO_ACTION"
    [] OTHER -> IF confident THEN "ROLLOUT_RESTART" ELSE "NOTIFY_HUMAN"

\* History: the incident is dealt with once more.
Handle(i) ==
  /\ handled' = [handled EXCEPT ![i] = Bump(@, HandledCap)]
  /\ handledLeft' = [handledLeft EXCEPT ![i] = DedupTTL[i]]

\* Diagnosis by the LLM or its fallback, the decision and, when it is not a
\* restart, its execution (a notification or nothing).
Diagnose(p) ==
  /\ pc[p] = "diagnose"
  /\ \E confident \in BOOLEAN :
       IF DecideAction(cur[p], confident) = "ROLLOUT_RESTART"
       THEN Goto(p, "limit") /\ UNCHANGED <<handled, handledLeft>>
       ELSE Goto(p, "mark") /\ Handle(cur[p])
  /\ UNCHANGED <<redis, memDedup, todo, cur, jobs, burst, burstLeft, owed,
                 lost>>

\* Mutant: the restart that reaches the limit is allowed once more.
LimitExceeded(d) == redisUp /\ count[d] > MaxRestarts

\* _check_restart_limit: an unreachable Redis means below the limit.  At the
\* limit a human is notified instead.
LimitReached(d) == redisUp /\ count[d] >= MaxRestarts

CheckLimit(p) ==
  /\ pc[p] = "limit"
  /\ IF LimitReached(Target[cur[p]])
     THEN Goto(p, "record") /\ Handle(cur[p])
     ELSE Goto(p, "patch") /\ UNCHANGED <<handled, handledLeft>>
  /\ UNCHANGED <<redis, memDedup, todo, cur, jobs, burst, burstLeft, owed,
                 lost>>

\* rollout_restart: the patch of the deployment is accepted or refused.
Restart(p) ==
  /\ pc[p] = "patch"
  /\ Handle(cur[p])
  /\ LET d == Target[cur[p]] IN
       \/ /\ Goto(p, "recordOk")
          /\ burst' = [burst EXCEPT ![d] = Bump(@, CountCap)]
          /\ burstLeft' = [burstLeft EXCEPT ![d] = RestartWindow]
          /\ owed' = [owed EXCEPT ![p] = @ \cup {cur[p]}]
       \/ /\ Goto(p, "record")
          /\ UNCHANGED <<burst, burstLeft, owed>>
  /\ UNCHANGED <<redis, memDedup, todo, cur, jobs, lost>>

\* record_restart: INCR and EXPIRE in one pipeline, also after LIMIT_HIT and
\* after a refused patch; an unreachable Redis loses the count.
RecordRestart(p) ==
  /\ pc[p] \in {"record", "recordOk"}
  /\ LET d == Target[cur[p]] IN
       IF redisUp
       THEN /\ count' = [count EXCEPT ![d] = Bump(@, CountCap)]
            /\ countTTL' = [countTTL EXCEPT ![d] = RestartWindow]
       ELSE UNCHANGED <<count, countTTL>>
  /\ Goto(p, IF pc[p] = "record" THEN "mark" ELSE "markOk")
  /\ UNCHANGED <<redisUp, maintenance, dedup, memDedup, todo, cur, jobs, history>>

\* Mutant: the incident is only ever marked in the memory of the pod.
MarkInMemory(p) ==
  /\ pc[p] \in {"mark", "markOk"}
  /\ memDedup' = [memDedup EXCEPT ![p][cur[p]] = DedupTTL[cur[p]]]
  /\ Goto(p, IF pc[p] = "mark" THEN "next" ELSE "dispatch")
  /\ UNCHANGED <<redis, todo, cur, jobs, history>>

\* Mutant: the key outlives its TTL by one tick.
MarkTooLong(p) ==
  /\ pc[p] \in {"mark", "markOk"}
  /\ dedup' = [dedup EXCEPT ![cur[p]] = DedupTTL[cur[p]] + 1]
  /\ Goto(p, IF pc[p] = "mark" THEN "next" ELSE "dispatch")
  /\ UNCHANGED <<redisUp, maintenance, count, countTTL, memDedup, todo, cur, jobs,
                 history>>

\* mark_incident, then store_incident, whose row no later step reads.
MarkIncident(p) ==
  /\ pc[p] \in {"mark", "markOk"}
  /\ LET i == cur[p] IN
       IF redisUp
       THEN dedup' = [dedup EXCEPT ![i] = DedupTTL[i]] /\ UNCHANGED memDedup
       ELSE memDedup' = [memDedup EXCEPT ![p][i] = DedupTTL[i]] /\ UNCHANGED dedup
  /\ Goto(p, IF pc[p] = "mark" THEN "next" ELSE "dispatch")
  /\ UNCHANGED <<redisUp, maintenance, count, countTTL, todo, cur, jobs, history>>

\* Mutant: the verification is not scheduled.
DispatchUnverified(p) ==
  /\ pc[p] = "dispatch"
  /\ Goto(p, "next")
  /\ UNCHANGED <<redis, memDedup, todo, cur, jobs, history>>

\* After a successful restart: the runbook entry, the handoff to Camael (its
\* effects are in GitOpsFix) and schedule_verification, which replaces the job an
\* earlier restart for the same incident left.
Dispatch(p) ==
  /\ pc[p] = "dispatch"
  /\ jobs' = [jobs EXCEPT ![p] = @ \cup {cur[p]}]
  /\ Goto(p, "next")
  /\ UNCHANGED <<redis, memDedup, todo, cur, history>>

\* An exception ends the run: the anomalies left are not handled, nor is the
\* verification scheduled when the handoff raised.
LoopError(p) ==
  /\ \/ LoopErrors /\ pc[p] \in {"observe", "diagnose"}
     \/ HandoffErrors /\ pc[p] = "dispatch"
  /\ Leave(p)
  /\ UNCHANGED <<redis, memDedup, jobs, history>>

\* The verification job runs, minutes later, in the same scheduler.
RunVerification(p, i) ==
  /\ i \in jobs[p]
  /\ jobs' = [jobs EXCEPT ![p] = @ \ {i}]
  /\ owed' = [owed EXCEPT ![p] = @ \ {i}]
  /\ lost' = lost \ {i}
  /\ UNCHANGED <<redis, memDedup, pc, todo, cur, burst, burstLeft, handled,
                 handledLeft>>

-----------------------------------------------------------------------------
(* Environment                                                             *)

\* The pod dies and a new one takes its place: what was in memory is gone.
Crash(p) ==
  /\ Crashes
  /\ Leave(p)
  /\ memDedup' = [memDedup EXCEPT ![p] = [i \in Incidents |-> 0]]
  /\ jobs' = [jobs EXCEPT ![p] = {}]
  /\ owed' = [owed EXCEPT ![p] = {}]
  /\ lost' = lost \cup owed[p]
  /\ UNCHANGED <<redis, burst, burstLeft, handled, handledLeft>>

SetRedis ==
  /\ RedisFaults
  /\ redisUp' = ~redisUp
  /\ UNCHANGED <<maintenance, dedup, count, countTTL, memDedup, pc, todo, cur,
                 jobs, history>>

\* activate_maintenance and deactivate_maintenance.
SetMaintenance ==
  /\ redisUp
  /\ maintenance' \in {0, MaintenanceTTL}
  /\ UNCHANGED <<redisUp, dedup, count, countTTL, memDedup, pc, todo, cur, jobs,
                 history>>

Less(n) == IF n > 0 THEN n - 1 ELSE 0

Tick ==
  /\ \A p \in Pods : pc[p] \notin Acting
  /\ maintenance' = Less(maintenance)
  /\ dedup' = [i \in Incidents |-> Less(dedup[i])]
  /\ memDedup' = [p \in Pods |-> [i \in Incidents |-> Less(memDedup[p][i])]]
  /\ countTTL' = [d \in Deployments |-> Less(countTTL[d])]
  /\ count' = [d \in Deployments |-> IF countTTL[d] <= 1 THEN 0 ELSE count[d]]
  /\ burstLeft' = [d \in Deployments |-> Less(burstLeft[d])]
  /\ burst' = [d \in Deployments |-> IF burstLeft[d] <= 1 THEN 0 ELSE burst[d]]
  /\ handledLeft' = [i \in Incidents |-> Less(handledLeft[i])]
  /\ handled' = [i \in Incidents |-> IF handledLeft[i] <= 1 THEN 0 ELSE handled[i]]
  /\ UNCHANGED <<redisUp, pc, todo, cur, jobs, owed, lost>>

-----------------------------------------------------------------------------
Step(p) ==
  \/ StartRun(p) \/ CheckMaintenance(p) \/ Elect(p) \/ Observe(p)
  \/ NextAnomaly(p) \/ FinishRun(p) \/ Diagnose(p) \/ CheckLimit(p)
  \/ Restart(p) \/ RecordRestart(p) \/ MarkIncident(p) \/ Dispatch(p)

Next ==
  \/ \E p \in Pods :
       \/ Step(p) \/ LoopError(p) \/ Crash(p)
       \/ \E i \in Incidents : RunVerification(p, i)
  \/ SetRedis \/ SetMaintenance \/ Tick

Spec == Init /\ [][Next]_vars

\* A live scheduler goes on with a run it started and executes its jobs; no
\* run need ever start, no fault need ever happen.
Fairness ==
  \A p \in Pods : /\ WF_vars(pc[p] # "idle" /\ Step(p))
                  /\ \A i \in Incidents : WF_vars(RunVerification(p, i))

FairSpec == Spec /\ Fairness

-----------------------------------------------------------------------------
\* "Maximo 3 reinicios automaticos en 15 minutos": with Redis reachable and no
\* pod dying between the restart and its count, the restarts of a deployment
\* that follow each other within the window never exceed the limit by more
\* than the leaders beyond the first, all of which may check before any counts.
RestartLimit ==
  \A d \in Deployments : burst[d] <= MaxRestarts - 1 + Concurrency

\* While its dedup TTL since it was last handled lasts, an incident is handled
\* at most once by each concurrent leader, although diagnosis (an LLM call)
\* separates the check of the key from its setting.
HandledOncePerTTL ==
  \A i \in Incidents : handled[i] <= Concurrency

\* An incident is silenced only once it was handled, and never for longer than
\* its TTL from then on: whatever crashes, no incident is lost unhandled.
SilencedOnlyIfHandled ==
  \A i \in Incidents : dedup[i] > 0 => handled[i] > 0 /\ dedup[i] <= handledLeft[i]

\* A pod that lives verifies every restart it made, whatever later runs raise
\* and however often the incident comes back meanwhile.
LivingPodVerifies ==
  \A p \in Pods : \A i \in Incidents : i \in owed[p] ~> i \notin owed[p]

\* Every successful restart is verified afterwards, by whichever pod.
Unverified == lost \cup UNION {owed[p] : p \in Pods}

RestartIsVerified ==
  \A i \in Incidents : i \in Unverified ~> i \notin Unverified
=============================================================================
