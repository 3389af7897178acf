------------------------------ MODULE Detection ------------------------------
(***************************************************************************)
(* From the cluster to the anomalies that the SRE loop handles: the        *)
(* observers of agents/sre/observer.py, the deduplication and correlation  *)
(* of agents/sre/detector.py.  Whichever backend leads looks at the pods   *)
(* of a namespace again and again while they change; whatever else it      *)
(* observes is a gauge, which shows a percentage, a number of days, or a   *)
(* flag.                                                                   *)
(***************************************************************************)
EXTENDS Integers, FiniteSets

CONSTANTS
  Leaders,     \* pods of the backend, which lead in turn
  Pods,        \* the pods they observe
  Containers,  \* of a pod: how many containers it has
  Owners,      \* deployments
  Owner,       \* of a pod: its deployment, or NoOwner
  NoOwner,
  Budget,      \* failing requests an SLO allows, per mille
  WarnDays,    \* SRE_CERT_WARN_DAYS
  Readings,    \* what a gauge may show
  MaxChanges   \* changes of the cluster, a bound of the model

LOW == 0
MEDIUM == 1
HIGH == 2
CRITICAL == 3
None == -1       \* no anomaly
Unknown == -1    \* no baseline

Severities == LOW..CRITICAL

VARIABLES
  phase,     \* of a pod; "Pending" once that is longer than 300 seconds
  wait,      \* of a container: why it waits, "" while it runs
  oom,       \* its last termination was an OOMKilled
  restarts,  \* its restart_count
  baseline,  \* _restart_baseline, by pod, in the memory of each leader
  raw,       \* what the observers of the last run returned
  result,    \* what the loop is given
  changes,
  \* history
  alerted    \* pods of whose last HIGH_RESTARTS, by a leader, no restart has followed

cluster == <<phase, wait, oom, restarts>>
vars == <<cluster, baseline, raw, result, changes, alerted>>

-----------------------------------------------------------------------------
(* Gauges                                                                  *)

\* The severity of a reading beyond `warn`, and of one beyond `worse`.
Grade(x, warn, worse, low, high) ==
  IF x > worse THEN high ELSE IF x > warn THEN low ELSE None

\* observe_slo: the burn rate is x / Budget.  A target of 100% divides by zero,
\* which is caught: such an SLO is never alerted on.
Burned(x) ==
  IF Budget = 0 THEN None
  ELSE IF 10 * x > 9 * Budget THEN CRITICAL
  ELSE IF 2 * x > Budget THEN HIGH ELSE None

\* observe_certificates: `x` days are left.
Expiring(x) ==
  IF x >= WarnDays THEN None ELSE IF x < 3 THEN CRITICAL ELSE HIGH

\* Of each gauge the issue type, the kind of its resource and the severity.
Metrics(x) ==
  [cpu        |-> <<"HIGH_CPU", "Pod", Grade(x, 85, 95, MEDIUM, HIGH)>>,
   memory     |-> <<"HIGH_MEMORY", "Pod", Grade(x, 85, 85, MEDIUM, HIGH)>>,
   errors     |-> <<"HIGH_ERROR_RATE", "Endpoint", Grade(x, 5, 10, MEDIUM, HIGH)>>]

Trends(x) ==
  [diskTrend  |-> <<"DISK_EXHAUSTION_PREDICTED", "Node", Grade(x, 0, 0, HIGH, HIGH)>>,
   leak       |-> <<"MEMORY_LEAK_PREDICTED", "Pod", Grade(x, 0, 0, MEDIUM, MEDIUM)>>,
   escalating |-> <<"ERROR_RATE_ESCALATING", "Endpoint", Grade(x, 0, 0, MEDIUM, MEDIUM)>>]

Slo(x) == [slo |-> <<"SLO_BUDGET_BURNING", "Service", Burned(x)>>]

Infrastructure(x) ==
  [lb         |-> <<"LOADBALANCER_NO_IP", "Service", Grade(x, 0, 0, HIGH, HIGH)>>,
   endpoints  |-> <<"SERVICE_NO_ENDPOINTS", "Service", Grade(x, 0, 0, MEDIUM, MEDIUM)>>,
   pvcPending |-> <<"PVC_PENDING", "PersistentVolumeClaim", Grade(x, 0, 0, HIGH, HIGH)>>,
   mount      |-> <<"PVC_MOUNT_ERROR", "Pod", Grade(x, 0, 0, HIGH, HIGH)>>,
   event      |-> <<"K8S_EVENT_WARNING", "Pod", Grade(x, 0, 0, HIGH, HIGH)>>,
   vault      |-> <<"VAULT_SEALED", "StatefulSet", Grade(x, 0, 0, CRITICAL, CRITICAL)>>]

NodeConditions(x) ==
  [ready      |-> <<"NODE_NOT_READY", "Node", Grade(x, 0, 0, CRITICAL, CRITICAL)>>,
   disk       |-> <<"NODE_PRESSURE", "Node", Grade(x, 0, 0, CRITICAL, CRITICAL)>>,
   other      |-> <<"NODE_PRESSURE", "Node", Grade(x, 0, 0, HIGH, HIGH)>>]

Capacity(x) ==
  [nodeDisk   |-> <<"NODE_DISK_HIGH", "Node", Grade(x, 80, 95, HIGH, CRITICAL)>>,
   nodeMemory |-> <<"NODE_MEMORY_HIGH", "Node", Grade(x, 90, 97, HIGH, CRITICAL)>>,
   pvcUsed    |-> <<"PVC_CAPACITY_HIGH", "PersistentVolumeClaim",
                    Grade(x, 80, 95, HIGH, CRITICAL)>>]

Certificates(x) == [certificate |-> <<"CERTIFICATE_EXPIRING", "Certificate", Expiring(x)>>]

Anomaly(type, severity, kind, resource, owner) ==
  [type |-> type, severity |-> severity, kind |-> kind, resource |-> resource, owner |-> owner]

\* The anomalies of the gauges of one observer, all of which show x.
Shown(observer, x) ==
  {Anomaly(observer[g][1], observer[g][3], observer[g][2], observer[g][2], NoOwner) :
     g \in {h \in DOMAIN observer : observer[h][3] # None}}

Gauges ==
  [x \in Readings |->
     UNION {Shown(observer, x) : observer \in
              {Metrics(x), Trends(x), Slo(x), Infrastructure(x), NodeConditions(x), Capacity(x),
               Certificates(x)}}]

-----------------------------------------------------------------------------
(* observe_cluster                                                         *)

\* The restart count is looked at last, and only of a pod that runs.
CountsRestarts(p, i) ==
  /\ wait[p][i] = ""
  /\ ~oom[p][i]
  /\ restarts[p][i] >= 5
  /\ phase[p] = "Running"

Counting(p) == {i \in 1..Containers[p] : CountsRestarts(p, i)}

Last(S) == CHOOSE i \in S : \A j \in S : j <= i

\* The count with which container i is compared: the baseline is one per pod, so
\* the containers before it have replaced it already.
LastCount(l, p, i) ==
  LET before == {j \in Counting(p) : j < i}
  IN IF before = {} THEN baseline[l][p] ELSE restarts[p][Last(before)]

\* Mutant: a baseline is set once.
FirstBaseline(l, p) ==
  IF baseline[l][p] # Unknown \/ Counting(p) = {} THEN baseline[l][p]
  ELSE restarts[p][Last(Counting(p))]

NewBaseline(l, p) ==
  IF Counting(p) = {} THEN baseline[l][p] ELSE restarts[p][Last(Counting(p))]

RestartedAgain(l, p, i) ==
  /\ CountsRestarts(p, i)
  /\ LastCount(l, p, i) # Unknown
  /\ restarts[p][i] > LastCount(l, p, i)

\* Issue type and severity of a container: the first condition that holds.
ContainerIssues(l, p, i) ==
  CASE wait[p][i] = "CrashLoopBackOff" -> {<<"CRASH_LOOP", HIGH>>}
    [] wait[p][i] # "CrashLoopBackOff" /\ oom[p][i] -> {<<"OOM_KILLED", HIGH>>}
    [] wait[p][i] = "ImagePullBackOff" /\ ~oom[p][i] -> {<<"IMAGE_PULL_ERROR", MEDIUM>>}
    [] OTHER -> IF RestartedAgain(l, p, i)
                THEN {<<"HIGH_RESTARTS", IF restarts[p][i] < 10 THEN MEDIUM ELSE HIGH>>}
                ELSE {}

PhaseIssues(p) ==
  CASE phase[p] = "Failed" -> {<<"POD_FAILED", HIGH>>}
    [] phase[p] = "Pending" -> {<<"POD_PENDING_STUCK", MEDIUM>>}
    [] OTHER -> {}

PodAnomalies(l, p) ==
  {Anomaly(issue[1], issue[2], "Pod", p, Owner[p]) :
     issue \in PhaseIssues(p) \cup UNION {ContainerIssues(l, p, i) : i \in 1..Containers[p]}}

\* observe_infrastructure: replicas of a deployment that are not available.
Available(p) == phase[p] = "Running" /\ \A i \in 1..Containers[p] : wait[p][i] = ""

DeploymentAnomalies(o) ==
  LET replicas == {p \in Pods : Owner[p] = o}
      available == {p \in replicas : Available(p)}
  IN IF available = replicas THEN {}
     ELSE {Anomaly("DEPLOYMENT_DEGRADED", IF available = {} THEN CRITICAL ELSE HIGH,
                   "Deployment", o, o)}

-----------------------------------------------------------------------------
(* detector.py                                                             *)

\* incident_key, within the namespace.
IncidentKey(a) == <<a.resource, a.type>>

\* Mutant: of two anomalies with one key the milder one is kept.
KeepMilder(anomalies) ==
  {a \in anomalies :
     \A b \in anomalies : IncidentKey(b) = IncidentKey(a) => a.severity <= b.severity}

\* detect_anomalies: of each key the anomalies of the highest severity.
Detect(anomalies) ==
  {a \in anomalies :
     \A b \in anomalies : IncidentKey(b) = IncidentKey(a) => b.severity <= a.severity}

\* The pods of a deployment with the same issue.
Group(a, anomalies) ==
  {b \in anomalies : b.kind = "Pod" /\ b.owner = a.owner /\ b.type = a.type}

Correlated(a, anomalies) ==
  a.kind = "Pod" /\ a.owner # NoOwner /\ Cardinality(Group(a, anomalies)) >= 3

\* correlate_anomalies: three pods or more become one critical anomaly.
Correlate(anomalies) ==
  {IF Correlated(a, anomalies)
   THEN Anomaly(a.type, CRITICAL, "Deployment", a.owner, a.owner)
   ELSE a : a \in anomalies}

-----------------------------------------------------------------------------
PerContainer(S) == [Pods -> UNION {[1..Containers[p] -> S] : p \in Pods}]

AnomalyType(a) == a.severity \in Severities

TypeOK ==
  /\ baseline \in [Leaders -> [Pods -> Int]]
  /\ \A a \in raw \cup result : AnomalyType(a)
  /\ changes \in 0..MaxChanges
  /\ alerted \in [Leaders -> SUBSET Pods]

Init ==
  /\ phase = [p \in Pods |-> "Running"]
  /\ wait = [p \in Pods |-> [i \in 1..Containers[p] |-> ""]]
  /\ oom = [p \in Pods |-> [i \in 1..Containers[p] |-> FALSE]]
  /\ \E n \in {4, 9} : restarts = [p \in Pods |-> [i \in 1..Containers[p] |-> n]]
  /\ baseline = [l \in Leaders |-> [p \in Pods |-> Unknown]]
  /\ raw = {}
  /\ result = {}
  /\ changes = 0
  /\ alerted = [l \in Leaders |-> {}]

\* One run of the loop: the pods and deployments, when the API lists them, and
\* the gauges; then detection and correlation.
Observe(l) ==
  /\ raw = {}
  /\ \E listed \in BOOLEAN, x \in Readings :
       /\ raw' = Gauges[x] \cup
                 IF listed
                 THEN (UNION {PodAnomalies(l, p) : p \in Pods}) \cup
                      (UNION {DeploymentAnomalies(o) : o \in Owners})
                 ELSE {}
       /\ baseline' = IF listed
                      THEN [baseline EXCEPT ![l] = [p \in Pods |-> NewBaseline(l, p)]]
                      ELSE baseline
  /\ result' = Correlate(Detect(raw'))
  /\ alerted' = [alerted EXCEPT ![l] = @ \cup
                   {p \in Pods : \E a \in raw' : a.type = "HIGH_RESTARTS" /\ a.resource = p}]
  /\ UNCHANGED <<cluster, changes>>

\* The loop has handled the anomalies and the run ends.
EndRun ==
  /\ raw # {}
  /\ raw' = {}
  /\ result' = {}
  /\ UNCHANGED <<cluster, baseline, changes, alerted>>

\* The cluster changes between two runs: during one it makes no difference, as a
\* run looks at it once.
Change == raw = {} /\ changes < MaxChanges /\ changes' = changes + 1

\* A container restarts; it runs again or waits, and may have been killed.
Restart(p, i) ==
  /\ Change
  /\ phase[p] = "Running"
  /\ restarts' = [restarts EXCEPT ![p][i] = @ + 1]
  /\ \E reason \in {"", "CrashLoopBackOff"}, killed \in BOOLEAN :
       /\ wait' = [wait EXCEPT ![p][i] = reason]
       /\ oom' = [oom EXCEPT ![p][i] = killed]
  /\ alerted' = [l \in Leaders |-> alerted[l] \ {p}]
  /\ UNCHANGED <<phase, baseline, raw, result>>

\* A container that waited runs.
Recover(p, i) ==
  /\ Change
  /\ wait[p][i] # ""
  /\ wait' = [wait EXCEPT ![p][i] = ""]
  /\ UNCHANGED <<phase, oom, restarts, baseline, raw, result, alerted>>

\* The pod is replaced by one of the same name (StatefulSet), which may be stuck.
Replace(p) ==
  /\ Change
  /\ \E new \in {"Running", "Pending"}, reason \in {"", "ImagePullBackOff"} :
       /\ phase' = [phase EXCEPT ![p] = new]
       /\ wait' = [wait EXCEPT ![p] = [i \in 1..Containers[p] |-> reason]]
  /\ oom' = [oom EXCEPT ![p] = [i \in 1..Containers[p] |-> FALSE]]
  /\ restarts' = [restarts EXCEPT ![p] = [i \in 1..Containers[p] |-> 0]]
  /\ UNCHANGED <<baseline, raw, result, alerted>>

\* The pods of a node are evicted.
Fail(evicted) ==
  /\ Change
  /\ phase' = [p \in Pods |-> IF p \in evicted THEN "Failed" ELSE phase[p]]
  /\ UNCHANGED <<wait, oom, restarts, baseline, raw, result, alerted>>

\* A pod of the backend is replaced: the memory of the new one is empty.
ReplaceLeader(l) ==
  /\ Change
  /\ baseline' = [baseline EXCEPT ![l] = [p \in Pods |-> Unknown]]
  /\ UNCHANGED <<cluster, raw, result, alerted>>

Next ==
  \/ \E l \in Leaders : Observe(l) \/ ReplaceLeader(l)
  \/ EndRun
  \/ \E evicted \in SUBSET Pods : Fail(evicted)
  \/ \E p \in Pods :
       \/ Replace(p)
       \/ \E i \in 1..Containers[p] : Restart(p, i) \/ Recover(p, i)

Spec == Init /\ [][Next]_vars

-----------------------------------------------------------------------------
\* What an observer has seen reaches the loop with the severity it has or a
\* higher one, under its own name or that of the deployment of its pod.
NothingLost ==
  \A a \in raw : \E b \in result :
    /\ b.type = a.type
    /\ b.severity >= a.severity
    /\ b.resource = a.resource \/ (b.kind = "Deployment" /\ b.resource = a.owner)

\* "solo si el conteo CRECIÓ desde la última observación": between two
\* HIGH_RESTARTS that a leader raises of a pod it restarts, also when the cluster
\* could not be listed in between and other leaders looked at it.
AlertMeansRestart ==
  [][ \A l \in Leaders, p \in Pods : p \in alerted[l] /\ Observe(l) =>
        \A a \in raw' : a.type = "HIGH_RESTARTS" => a.resource # p ]_vars
=============================================================================
