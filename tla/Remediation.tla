----------------------------- MODULE Remediation -----------------------------
(***************************************************************************)
(* What the SRE agent learns from its restarts: for one deployment and one *)
(* type of issue, the ReplicaSets that Kubernetes keeps, the rows of       *)
(* sre_incidents (agents/sre/reporter.py), the confidence they lend to the *)
(* next diagnosis (diagnoser.py) and the verification that adds a verdict  *)
(* to a row and rolls back (healer.py).                                    *)
(***************************************************************************)
EXTENDS Integers, Sequences, FiniteSets

CONSTANTS
  Keys,          \* incident keys whose resource is named after the deployment
  Versions,      \* versions that may be deployed, in order
  Sound,         \* those whose pods become available
  LLM,           \* confidences, in percent, an LLM may state
  Fallback,      \* that of the table of fallbacks for the issue type
  Threshold,     \* SRE_CONFIDENCE_THRESHOLD, in percent
  MaxRollouts,   \* restarts and rollbacks, a bound of the model
  MaxFaults      \* queries that fail, a bound of the model

HistoryLimit == 10

VARIABLES
  sets,     \* ReplicaSets of the deployment in the order of their revisions
  recent,   \* its last rollout was less than 30 minutes ago
  healthy,  \* its replicas are available
  rows,     \* sre_incidents, by key
  order,    \* their order by created_at
  pc,       \* of the run of the loop
  key,      \* the incident that is handled
  conf,     \* its confidence
  jobs,     \* incidents whose verification is scheduled
  rollouts,
  faults,
  \* history
  basis     \* what the history said when it was read

kube == <<sets, recent, healthy>>
table == <<rows, order>>
loop == <<pc, key, conf>>
vars == <<kube, table, loop, jobs, rollouts, faults, basis>>

NoRow == [restarted |-> FALSE, ok |-> FALSE, unresolved |-> FALSE]

Rows == [restarted : BOOLEAN, ok : BOOLEAN, unresolved : BOOLEAN]

TypeOK ==
  /\ sets \in Seq([version : Versions, stamp : 0..MaxRollouts]) /\ sets # << >>
  /\ recent \in BOOLEAN /\ healthy \in BOOLEAN
  /\ rows \in [Keys -> Rows]
  /\ order \in Seq(Keys)
  /\ pc \in {"idle", "diagnose", "history", "decide", "act", "store"}
  /\ key \in Keys
  /\ conf \in 0..100
  /\ jobs \subseteq Keys
  /\ rollouts \in 0..MaxRollouts
  /\ faults \in 0..MaxFaults
  /\ basis \in {"", "unknown", "helped", "useless"}

Current == sets[Len(sets)]

Init ==
  /\ \E v \in Sound : sets = << [version |-> v, stamp |-> 0] >>
  /\ recent = FALSE
  /\ healthy = TRUE
  /\ rows = [k \in Keys |-> NoRow]
  /\ order = << >>
  /\ pc = "idle"
  /\ key \in Keys
  /\ conf = 0
  /\ jobs = {}
  /\ rollouts = 0
  /\ faults = 0
  /\ basis = ""

-----------------------------------------------------------------------------
(* Kubernetes and ArgoCD                                                   *)

\* A template that a ReplicaSet has already moves that one to the end; any
\* change of the template is a rollout, and updates the condition Progressing.
\* The pods of a sound version become available.
Rollout(template) ==
  /\ sets' = Append(SelectSeq(sets, LAMBDA rs : rs # template), template)
  /\ recent' = TRUE
  /\ healthy' = (template.version \in Sound)

\* ArgoCD deploys the next version.
Deploy ==
  /\ \E v \in Versions :
       /\ \A i \in DOMAIN sets : sets[i].version < v
       /\ Rollout([version |-> v, stamp |-> 0])
  /\ UNCHANGED <<table, loop, jobs, rollouts, faults, basis>>

\* The pods of any version may fail for a while.
Disturb ==
  /\ healthy
  /\ healthy' = FALSE
  /\ UNCHANGED <<sets, recent, table, loop, jobs, rollouts, faults, basis>>

\* Half an hour passes, and every job that was scheduled has run.
Age ==
  /\ recent /\ jobs = {}
  /\ recent' = FALSE
  /\ UNCHANGED <<sets, healthy, table, loop, jobs, rollouts, faults, basis>>

-----------------------------------------------------------------------------
(* A run of the loop                                                       *)

\* An anomaly that is no duplicate.
Incident(k) ==
  /\ pc = "idle"
  /\ ~healthy
  /\ key' = k
  /\ pc' = "diagnose"
  /\ UNCHANGED <<kube, table, conf, jobs, rollouts, faults, basis>>

\* diagnose_with_llm: what the LLM states, or the table when it fails.
Diagnose ==
  /\ pc = "diagnose"
  /\ conf' \in LLM \cup {Fallback}
  /\ pc' = "history"
  /\ UNCHANGED <<kube, table, key, jobs, rollouts, faults, basis>>

\* get_historical_success_rate: the last ten rows with a restart.
Tried == {k \in Keys : rows[k].restarted}

Recent ==
  LET tried == {i \in DOMAIN order : order[i] \in Tried}
  IN {order[i] : i \in {j \in tried : Cardinality({n \in tried : n > j}) < HistoryLimit}}

\* A restart that was accepted and did not stay unresolved.
Successes == {k \in Recent : rows[k].ok /\ ~rows[k].unresolved}

\* Mutant: the weights are changed for 90 and 10.
BlendLightly(c, successes, total) == (90 * c + 10 * ((100 * successes) \div total)) \div 100

\* adjust_confidence_with_history, in whole percents.
Blend(c, successes, total) == (70 * c + 30 * ((100 * successes) \div total)) \div 100

AdjustConfidence ==
  /\ pc = "history"
  /\ conf' = IF Recent = {} THEN conf
             ELSE Blend(conf, Cardinality(Successes), Cardinality(Recent))
  /\ basis' = IF Recent = {} THEN "unknown" ELSE IF Successes = {} THEN "useless" ELSE "helped"
  /\ pc' = "decide"
  /\ UNCHANGED <<kube, table, key, jobs, rollouts, faults>>

\* The query fails: there is no history.
HistoryFails ==
  /\ pc = "history"
  /\ faults < MaxFaults
  /\ faults' = faults + 1
  /\ basis' = "unknown"
  /\ pc' = "decide"
  /\ UNCHANGED <<kube, table, key, conf, jobs, rollouts>>

\* INSERT INTO sre_incidents ... ON CONFLICT DO NOTHING: a row stays what it is.
Insert(k, row) ==
  IF \E i \in DOMAIN order : order[i] = k
  THEN UNCHANGED table
  ELSE rows' = [rows EXCEPT ![k] = row] /\ order' = Append(order, k)

\* store_incident; the row is lost when the query fails.
Store(row) ==
  \/ Insert(key, row) /\ UNCHANGED faults
  \/ faults < MaxFaults /\ faults' = faults + 1 /\ UNCHANGED table

\* decide_action and its execution when it is not a restart.
DecideNotify ==
  /\ pc = "decide"
  /\ conf < Threshold
  /\ Store(NoRow)
  /\ pc' = "idle"
  /\ UNCHANGED <<kube, key, conf, jobs, rollouts, basis>>

DecideRestart ==
  /\ pc = "decide"
  /\ conf >= Threshold
  /\ pc' = "act"
  /\ UNCHANGED <<kube, table, key, conf, jobs, rollouts, faults, basis>>

\* rollout_restart: another annotation on the template that is current.
Restart ==
  /\ pc = "act"
  /\ rollouts < MaxRollouts
  /\ rollouts' = rollouts + 1
  /\ Rollout([Current EXCEPT !.stamp = rollouts + 1])
  /\ Store([restarted |-> TRUE, ok |-> TRUE, unresolved |-> FALSE])
  /\ jobs' = jobs \cup {key}
  /\ pc' = "idle"
  /\ UNCHANGED <<key, conf, basis>>

\* The API refuses it, or the limit of restarts is reached.
RestartRefused ==
  /\ pc = "act"
  /\ Store([restarted |-> TRUE, ok |-> FALSE, unresolved |-> FALSE])
  /\ pc' = "idle"
  /\ UNCHANGED <<kube, key, conf, jobs, rollouts, basis>>

-----------------------------------------------------------------------------
(* The verification                                                        *)

\* update_incident_verification: the verdict is appended to the row of the key.
Verdict(k, unresolved) ==
  \/ /\ rows' = [rows EXCEPT ![k].unresolved = @ \/ unresolved]
     /\ UNCHANGED <<order, faults>>
  \/ faults < MaxFaults /\ faults' = faults + 1 /\ UNCHANGED table

Verified(k) ==
  /\ k \in jobs
  /\ jobs' = jobs \ {k}

VerifyHealthy(k) ==
  /\ Verified(k)
  /\ healthy
  /\ Verdict(k, FALSE)
  /\ UNCHANGED <<kube, loop, rollouts, basis>>

\* _has_pending_gitops_pr: the job is scheduled again.
VerifyLater(k) ==
  /\ k \in jobs
  /\ ~healthy
  /\ Verdict(k, FALSE)
  /\ UNCHANGED <<kube, loop, jobs, rollouts, basis>>

\* _was_recently_deployed and rollout_undo_deployment: the template of the last
\* ReplicaSet but one.  The verdict is verify:rollback:ok or :error.
VerifyRollback(k) ==
  /\ Verified(k)
  /\ ~healthy
  /\ recent
  /\ \/ /\ Len(sets) > 1
        /\ rollouts < MaxRollouts
        /\ rollouts' = rollouts + 1
        /\ Rollout(sets[Len(sets) - 1])
     \/ UNCHANGED <<kube, rollouts>>
  /\ Verdict(k, FALSE)
  /\ UNCHANGED <<loop, basis>>

\* The deployment cannot be read, or nothing was rolled out for half an hour.
VerifyUnresolved(k) ==
  /\ Verified(k)
  /\ ~healthy
  /\ Verdict(k, TRUE)
  /\ UNCHANGED <<kube, loop, rollouts, basis>>

Next ==
  \/ Deploy \/ Disturb \/ Age
  \/ \E k \in Keys :
       \/ Incident(k)
       \/ VerifyHealthy(k) \/ VerifyLater(k) \/ VerifyRollback(k) \/ VerifyUnresolved(k)
  \/ Diagnose \/ AdjustConfidence \/ HistoryFails
  \/ DecideNotify \/ DecideRestart \/ Restart \/ RestartRefused

Spec == Init /\ [][Next]_vars

-----------------------------------------------------------------------------
\* A deployment none of whose recorded restarts helped is not restarted for that
\* issue again, however sure the LLM is, unless the history cannot be read.
UselessRestartsStop == pc = "act" => basis # "useless"

\* "Hacer rollback automático si un deploy reciente causó problemas": a rollback
\* leaves the version that was found unhealthy.
RollbackLeavesVersion ==
  [][ rollouts' # rollouts /\ (\E k \in Keys : jobs' = jobs \ {k} /\ k \in jobs)
        => sets'[Len(sets')].version # Current.version ]_vars
=============================================================================
