--------------------------- MODULE SRELoopProofs ---------------------------
(***************************************************************************)
(* What the SRE loop guarantees for any sets of pods, incidents and        *)
(* deployments and any values of its parameters: the types of its state;   *)
(* that an incident is silenced only after it was handled, whatever fails; *)
(* and, when Redis answers and no pod dies in a run, the limit of restarts *)
(* and that an incident is handled once within the TTL of its dedup key.   *)
(***************************************************************************)
EXTENDS SRELoop, FiniteSetTheorems, TLAPS

\* The caps of the saturating counters are numbers.
LEMMA Caps ==
  /\ CountCap \in Nat /\ MaxRestarts < CountCap
  /\ HandledCap \in Nat /\ 1 < HandledCap
  /\ Concurrency \in Nat /\ 1 <= Concurrency /\ MaxRestarts - 1 + Concurrency < CountCap
  /\ Cardinality(Pods) \in Nat
<1>1. Cardinality(Pods) \in Nat
  BY FS_CardinalityType, LoopAssumption
<1>2. Cardinality(Pods) # 0
  BY FS_EmptySet, LoopAssumption
<1>3. QED
  BY <1>1, <1>2, LoopAssumption DEF CountCap, HandledCap, Concurrency

\* Saturating counters and countdowns stay within their ranges.
LEMMA Counters ==
  /\ \A cap \in Nat : \A n \in 0..cap : /\ Bump(n, cap) \in 0..cap
                                        /\ n <= Bump(n, cap)
                                        /\ n < cap => Bump(n, cap) = n + 1
                                        /\ n = cap => Bump(n, cap) = n
  /\ \A n \in Nat : /\ Less(n) \in Nat
                    /\ Less(n) <= n
                    /\ n <= 1 => Less(n) = 0
                    /\ \A m \in Nat : n <= m => Less(n) <= Less(m)
BY DEF Bump, Less

\* What handling an incident does to its history is well typed, also for a pod
\* that handles none.
LEMMA HandleTypes ==
  ASSUME HistoryTypes, NEW i, Handle(i)
  PROVE  /\ handled' \in [Incidents -> 0..HandledCap]
         /\ handledLeft' \in [Incidents -> Nat]
         /\ \A j \in Incidents : handledLeft'[j] <= DedupTTL[j]
<1>1. handled' \in [Incidents -> 0..HandledCap]
  <2>1. \A j \in Incidents : Bump(handled[j], HandledCap) \in 0..HandledCap
    BY Caps, Counters DEF HistoryTypes
  <2>2. handled' = [j \in Incidents |-> IF j = i THEN Bump(handled[j], HandledCap)
                                                ELSE handled[j]]
    BY Zenon DEF HistoryTypes, Handle
  <2>3. QED
    BY <2>1, <2>2 DEF HistoryTypes
<1>2. handledLeft' = [j \in Incidents |-> IF j = i THEN DedupTTL[j] ELSE handledLeft[j]]
  BY Zenon DEF HistoryTypes, Handle
<1>3. QED
  BY <1>1, <1>2, LoopAssumption DEF HistoryTypes

-----------------------------------------------------------------------------
\* Between the diagnosis of an anomaly and the end of its handling the pod
\* knows which anomaly it handles: without it no step after the diagnosis is
\* well typed.
Handling == {"diagnose", "dispatch"} \cup Acting

HandlesIncident == \A p \in Pods : pc[p] \in Handling => cur[p] \in Incidents

LEMMA HandlesIncidentStep ==
  TypeOK /\ HandlesIncident /\ [Next]_vars => HandlesIncident'
<1> SUFFICES ASSUME LoopTypes, HandlesIncident, [Next]_vars
             PROVE  HandlesIncident'
  BY DEF TypeOK
<1> USE DEF LoopTypes, HandlesIncident, Handling, Acting, Goto
<1>1. ASSUME NEW p \in Pods, StartRun(p) \/ CheckMaintenance(p) \/ Elect(p)
      PROVE  HandlesIncident'
  BY <1>1 DEF StartRun, CheckMaintenance, Elect
<1>2. ASSUME NEW p \in Pods, Observe(p)
      PROVE  HandlesIncident'
  BY <1>2 DEF Observe
<1>3. ASSUME NEW p \in Pods, NextAnomaly(p)
      PROVE  HandlesIncident'
  <2>1. PICK i \in todo[p] : \/ UNCHANGED <<pc, cur>>
                             \/ cur' = [cur EXCEPT ![p] = i] /\ Goto(p, "diagnose")
    BY <1>3 DEF NextAnomaly
  <2>2. QED
    BY <2>1
<1>4. ASSUME NEW p \in Pods, FinishRun(p) \/ LoopError(p) \/ Crash(p)
      PROVE  HandlesIncident'
  BY <1>4 DEF FinishRun, LoopError, Crash, Leave
<1>5. ASSUME NEW p \in Pods, Diagnose(p) \/ CheckLimit(p) \/ Restart(p)
      PROVE  HandlesIncident'
  BY <1>5 DEF Diagnose, CheckLimit, Restart
<1>6. ASSUME NEW p \in Pods, RecordRestart(p) \/ MarkIncident(p) \/ Dispatch(p)
      PROVE  HandlesIncident'
  BY <1>6 DEF RecordRestart, MarkIncident, Dispatch
<1>7. ASSUME NEW p \in Pods, NEW i \in Incidents, RunVerification(p, i)
      PROVE  HandlesIncident'
  BY <1>7 DEF RunVerification
<1>8. CASE SetRedis \/ SetMaintenance \/ Tick \/ UNCHANGED vars
  BY <1>8 DEF SetRedis, SetMaintenance, Tick, vars
<1>9. QED
  BY <1>1, <1>2, <1>3, <1>4, <1>5, <1>6, <1>7, <1>8 DEF Next, Step

\* Every state of the loop has the types the module declares, whatever fails:
\* sre_autonomous_loop never names an incident that does not exist and no key
\* outlives the TTL it is written with.
THEOREM TypeCorrect == Spec => []TypeOK /\ []HandlesIncident
<1> USE LoopAssumption, Caps, Counters DEF TypeOK
<1>1. Init => TypeOK /\ HandlesIncident
  BY DEF Init, Labels, InRun, Acting, KeyTypes, LoopTypes, HistoryTypes,
         HandlesIncident, Handling
<1>2. TypeOK /\ HandlesIncident /\ [Next]_vars => TypeOK'
  <2> SUFFICES ASSUME TypeOK, HandlesIncident, [Next]_vars
               PROVE  TypeOK'
    OBVIOUS
  <2>1. ASSUME NEW p \in Pods, StartRun(p)
        PROVE  TypeOK'
    <3>1. KeyTypes'
      BY <2>1 DEF StartRun, redis, history, KeyTypes
    <3>2. LoopTypes'
      BY <2>1 DEF StartRun, Goto, redis, LoopTypes, Labels, InRun, Acting
    <3>3. HistoryTypes'
      BY <2>1 DEF StartRun, history, HistoryTypes
    <3>4. QED
      BY <3>1, <3>2, <3>3
  <2>2. ASSUME NEW p \in Pods, CheckMaintenance(p)
        PROVE  TypeOK'
    <3>1. KeyTypes'
      BY <2>2 DEF CheckMaintenance, redis, history, KeyTypes
    <3>2. LoopTypes'
      BY <2>2 DEF CheckMaintenance, Goto, redis, LoopTypes, Labels, InRun, Acting
    <3>3. HistoryTypes'
      BY <2>2 DEF CheckMaintenance, history, HistoryTypes
    <3>4. QED
      BY <3>1, <3>2, <3>3
  <2>3. ASSUME NEW p \in Pods, Elect(p)
        PROVE  TypeOK'
    <3>1. KeyTypes'
      BY <2>3 DEF Elect, redis, history, KeyTypes
    <3>2. LoopTypes'
      BY <2>3 DEF Elect, Goto, redis, LoopTypes, Labels, InRun, Acting
    <3>3. HistoryTypes'
      BY <2>3 DEF Elect, history, HistoryTypes
    <3>4. QED
      BY <3>1, <3>2, <3>3
  <2>4. ASSUME NEW p \in Pods, Observe(p)
        PROVE  TypeOK'
    <3>1. KeyTypes'
      BY <2>4 DEF Observe, redis, history, KeyTypes
    <3>2. LoopTypes'
      BY <2>4 DEF Observe, Goto, redis, LoopTypes, Labels, InRun, Acting
    <3>3. HistoryTypes'
      BY <2>4 DEF Observe, history, HistoryTypes
    <3>4. QED
      BY <3>1, <3>2, <3>3
  <2>5. ASSUME NEW p \in Pods, NextAnomaly(p)
        PROVE  TypeOK'
    <3>1. KeyTypes'
      BY <2>5 DEF NextAnomaly, redis, history, KeyTypes
    <3>2. LoopTypes'
      <4>1. PICK i \in todo[p] :
              /\ todo' = [todo EXCEPT ![p] = @ \ {i}]
              /\ \/ UNCHANGED <<pc, cur>>
                 \/ cur' = [cur EXCEPT ![p] = i] /\ Goto(p, "diagnose")
        BY <2>5 DEF NextAnomaly
      <4>2. i \in Incidents /\ jobs' = jobs
        BY <2>5, <4>1 DEF NextAnomaly, LoopTypes
      <4>3. todo' \in [Pods -> SUBSET Incidents]
        BY <4>1 DEF LoopTypes
      <4>4. CASE UNCHANGED <<pc, cur>>
        BY <4>2, <4>3, <4>4 DEF LoopTypes
      <4>5. CASE cur' = [cur EXCEPT ![p] = i] /\ Goto(p, "diagnose")
        <5>1. pc' \in [Pods -> Labels]
          BY <4>5 DEF LoopTypes, Goto, Labels, InRun
        <5>2. cur' \in [Pods -> Incidents \cup {NoIncident}]
          BY <4>2, <4>5 DEF LoopTypes
        <5>3. QED
          BY <4>2, <4>3, <5>1, <5>2 DEF LoopTypes
      <4>6. QED
        BY <4>1, <4>4, <4>5
    <3>3. HistoryTypes'
      BY <2>5 DEF NextAnomaly, history, HistoryTypes
    <3>4. QED
      BY <3>1, <3>2, <3>3
  <2>6. ASSUME NEW p \in Pods, FinishRun(p)
        PROVE  TypeOK'
    <3>1. KeyTypes'
      BY <2>6 DEF FinishRun, redis, history, KeyTypes
    <3>2. LoopTypes'
      BY <2>6 DEF FinishRun, Leave, Goto, redis, LoopTypes, Labels, InRun, Acting
    <3>3. HistoryTypes'
      BY <2>6 DEF FinishRun, history, HistoryTypes
    <3>4. QED
      BY <3>1, <3>2, <3>3
  <2>7. ASSUME NEW p \in Pods, Diagnose(p)
        PROVE  TypeOK'
    <3>1. KeyTypes'
      BY <2>7 DEF Diagnose, redis, history, KeyTypes
    <3>2. LoopTypes'
      BY <2>7 DEF Diagnose, Goto, Handle, redis, LoopTypes, Labels, InRun, Acting
    <3>3. HistoryTypes'
      <4>1. CASE UNCHANGED <<handled, handledLeft>>
        BY <2>7, <4>1 DEF Diagnose, HistoryTypes
      <4>2. CASE Handle(cur[p])
        BY <2>7, <4>2, HandleTypes DEF Diagnose, HistoryTypes
      <4>3. QED
        BY <2>7, <4>1, <4>2 DEF Diagnose
    <3>4. QED
      BY <3>1, <3>2, <3>3
  <2>8. ASSUME NEW p \in Pods, CheckLimit(p)
        PROVE  TypeOK'
    <3>1. KeyTypes'
      BY <2>8 DEF CheckLimit, redis, history, KeyTypes
    <3>2. LoopTypes'
      BY <2>8 DEF CheckLimit, Goto, Handle, redis, LoopTypes, Labels, InRun, Acting
    <3>3. HistoryTypes'
      <4>1. CASE UNCHANGED <<handled, handledLeft>>
        BY <2>8, <4>1 DEF CheckLimit, HistoryTypes
      <4>2. CASE Handle(cur[p])
        BY <2>8, <4>2, HandleTypes DEF CheckLimit, HistoryTypes
      <4>3. QED
        BY <2>8, <4>1, <4>2 DEF CheckLimit
    <3>4. QED
      BY <3>1, <3>2, <3>3
  <2>9. ASSUME NEW p \in Pods, Restart(p)
        PROVE  TypeOK'
    <3>1. KeyTypes'
      BY <2>9 DEF Restart, redis, history, KeyTypes
    <3>2. LoopTypes'
      BY <2>9 DEF Restart, Goto, Handle, redis, LoopTypes, Labels, InRun, Acting
    <3>3. HistoryTypes'
      <4>1. /\ handled' \in [Incidents -> 0..HandledCap]
            /\ handledLeft' \in [Incidents -> Nat]
            /\ \A j \in Incidents : handledLeft'[j] <= DedupTTL[j]
        BY <2>9, HandleTypes DEF Restart
      <4>2. CASE UNCHANGED <<burst, burstLeft, owed>>
        BY <2>9, <4>1, <4>2 DEF Restart, HistoryTypes
      <4>3. ASSUME NEW d, d = Target[cur[p]],
                   burst' = [burst EXCEPT ![d] = Bump(@, CountCap)],
                   burstLeft' = [burstLeft EXCEPT ![d] = RestartWindow],
                   owed' = [owed EXCEPT ![p] = @ \cup {cur[p]}]
            PROVE  HistoryTypes'
        <5>1. cur[p] \in Incidents /\ d \in Deployments
          BY <2>9, <4>3 DEF Restart, HandlesIncident, Handling, Acting
        <5>2. burst' \in [Deployments -> 0..CountCap]
          BY <5>1, <4>3 DEF HistoryTypes
        <5>3. owed' \in [Pods -> SUBSET Incidents] /\ lost' = lost
          BY <2>9, <4>3, <5>1 DEF Restart, HistoryTypes
        <5>4. QED
          BY <4>1, <4>3, <5>1, <5>2, <5>3 DEF HistoryTypes
      <4>4. QED
        BY <2>9, <4>2, <4>3 DEF Restart
    <3>4. QED
      BY <3>1, <3>2, <3>3
  <2>10. ASSUME NEW p \in Pods, RecordRestart(p)
        PROVE  TypeOK'
    <3>1. KeyTypes'
      <4>1. CASE UNCHANGED <<count, countTTL>>
        BY <2>10, <4>1 DEF RecordRestart, KeyTypes
      <4>2. ASSUME NEW d, d = Target[cur[p]],
                   count' = [count EXCEPT ![d] = Bump(@, CountCap)],
                   countTTL' = [countTTL EXCEPT ![d] = RestartWindow]
            PROVE  KeyTypes'
        <5>1. d \in Deployments
          BY <2>10, <4>2 DEF RecordRestart, HandlesIncident, Handling, Acting
        <5>2. count' \in [Deployments -> 0..CountCap]
          BY <5>1, <4>2 DEF KeyTypes
        <5>3. countTTL' \in [Deployments -> 0..RestartWindow]
          BY <5>1, <4>2 DEF KeyTypes
        <5>4. QED
          BY <2>10, <5>2, <5>3 DEF RecordRestart, KeyTypes
      <4>3. QED
        BY <2>10, <4>1, <4>2 DEF RecordRestart
    <3>2. LoopTypes'
      BY <2>10 DEF RecordRestart, Goto, redis, LoopTypes, Labels, InRun, Acting
    <3>3. HistoryTypes'
      BY <2>10 DEF RecordRestart, history, HistoryTypes
    <3>4. QED
      BY <3>1, <3>2, <3>3
  <2>11. ASSUME NEW p \in Pods, MarkIncident(p)
        PROVE  TypeOK'
    <3>1. KeyTypes'
      <4>1. cur[p] \in Incidents
        BY <2>11 DEF MarkIncident, HandlesIncident, Handling, Acting
      <4>2. CASE dedup' = [dedup EXCEPT ![cur[p]] = DedupTTL[cur[p]]] /\ UNCHANGED memDedup
        <5>1. dedup' \in [Incidents -> Nat]
          BY <4>1, <4>2 DEF KeyTypes
        <5>2. ASSUME NEW i \in Incidents
              PROVE  dedup'[i] <= DedupTTL[i]
          <6>1. dedup'[i] = IF i = cur[p] THEN DedupTTL[i] ELSE dedup[i]
            BY <4>2, Zenon DEF KeyTypes
          <6>2. DedupTTL[i] \in Nat /\ dedup[i] <= DedupTTL[i]
            BY DEF KeyTypes
          <6>3. QED
            BY <6>1, <6>2
        <5>3. QED
          BY <2>11, <4>2, <5>1, <5>2 DEF MarkIncident, KeyTypes
      <4>3. CASE /\ memDedup' = [memDedup EXCEPT ![p][cur[p]] = DedupTTL[cur[p]]]
                 /\ UNCHANGED dedup
        <5> DEFINE mem == [memDedup[p] EXCEPT ![cur[p]] = DedupTTL[cur[p]]]
        <5>1. memDedup' = [memDedup EXCEPT ![p] = mem]
          BY <4>3
        <5>2. mem \in [Incidents -> Nat] /\ \A i \in Incidents : mem[i] <= DedupTTL[i]
          <6>1. /\ memDedup[p] \in [Incidents -> Nat]
                /\ \A i \in Incidents : memDedup[p][i] <= DedupTTL[i]
            BY DEF KeyTypes
          <6>2. QED
            BY <4>1, <6>1
        <5> HIDE DEF mem
        <5>3. memDedup' \in [Pods -> [Incidents -> Nat]]
          BY <5>1, <5>2 DEF KeyTypes
        <5>4. \A i \in Incidents, q \in Pods : memDedup'[q][i] <= DedupTTL[i]
          BY <5>1, <5>2 DEF KeyTypes
        <5>5. QED
          BY <2>11, <4>3, <5>3, <5>4 DEF MarkIncident, KeyTypes
      <4>4. QED
        BY <2>11, <4>2, <4>3 DEF MarkIncident
    <3>2. LoopTypes'
      BY <2>11 DEF MarkIncident, Goto, redis, LoopTypes, Labels, InRun, Acting
    <3>3. HistoryTypes'
      BY <2>11 DEF MarkIncident, history, HistoryTypes
    <3>4. QED
      BY <3>1, <3>2, <3>3
  <2>12. ASSUME NEW p \in Pods, Dispatch(p)
        PROVE  TypeOK'
    <3>1. KeyTypes'
      BY <2>12 DEF Dispatch, redis, history, KeyTypes
    <3>2. LoopTypes'
      <4>1. cur[p] \in Incidents
        BY <2>12 DEF Dispatch, HandlesIncident, Handling
      <4>2. jobs' \in [Pods -> SUBSET Incidents]
        BY <2>12, <4>1 DEF Dispatch, LoopTypes
      <4>3. QED
        BY <2>12, <4>2 DEF Dispatch, Goto, LoopTypes, Labels, InRun
    <3>3. HistoryTypes'
      BY <2>12 DEF Dispatch, history, HistoryTypes
    <3>4. QED
      BY <3>1, <3>2, <3>3
  <2>13. ASSUME NEW p \in Pods, LoopError(p)
        PROVE  TypeOK'
    <3>1. KeyTypes'
      BY <2>13 DEF LoopError, redis, history, KeyTypes
    <3>2. LoopTypes'
      BY <2>13 DEF LoopError, Leave, Goto, redis, LoopTypes, Labels, InRun, Acting
    <3>3. HistoryTypes'
      BY <2>13 DEF LoopError, history, HistoryTypes
    <3>4. QED
      BY <3>1, <3>2, <3>3
  <2>14. ASSUME NEW p \in Pods, Crash(p)
        PROVE  TypeOK'
    <3>1. KeyTypes'
      BY <2>14 DEF Crash, redis, history, KeyTypes
    <3>2. LoopTypes'
      BY <2>14 DEF Crash, Leave, Goto, redis, LoopTypes, Labels, InRun, Acting
    <3>3. HistoryTypes'
      <4>1. owed' \in [Pods -> SUBSET Incidents] /\ lost' \subseteq Incidents
        BY <2>14 DEF Crash, HistoryTypes
      <4>2. QED
        BY <2>14, <4>1 DEF Crash, HistoryTypes
    <3>4. QED
      BY <3>1, <3>2, <3>3
  <2>15. ASSUME NEW p \in Pods, NEW i \in Incidents, RunVerification(p, i)
        PROVE  TypeOK'
    <3>1. KeyTypes'
      BY <2>15 DEF RunVerification, redis, history, KeyTypes
    <3>2. LoopTypes'
      BY <2>15 DEF RunVerification, redis, LoopTypes, Labels, InRun, Acting
    <3>3. HistoryTypes'
      <4>1. owed' \in [Pods -> SUBSET Incidents] /\ lost' \subseteq Incidents
        BY <2>15 DEF RunVerification, HistoryTypes
      <4>2. QED
        BY <2>15, <4>1 DEF RunVerification, HistoryTypes
    <3>4. QED
      BY <3>1, <3>2, <3>3
  <2>16. CASE SetRedis
    <3>1. KeyTypes'
      BY <2>16 DEF SetRedis, redis, history, KeyTypes
    <3>2. LoopTypes'
      BY <2>16 DEF SetRedis, redis, LoopTypes, Labels, InRun, Acting
    <3>3. HistoryTypes'
      BY <2>16 DEF SetRedis, history, HistoryTypes
    <3>4. QED
      BY <3>1, <3>2, <3>3
  <2>17. CASE SetMaintenance
    <3>1. KeyTypes'
      BY <2>17 DEF SetMaintenance, redis, history, KeyTypes
    <3>2. LoopTypes'
      BY <2>17 DEF SetMaintenance, redis, LoopTypes, Labels, InRun, Acting
    <3>3. HistoryTypes'
      BY <2>17 DEF SetMaintenance, history, HistoryTypes
    <3>4. QED
      BY <3>1, <3>2, <3>3
  <2>18. CASE Tick
    <3>1. KeyTypes'
      <4>1. dedup' \in [Incidents -> Nat] /\ \A i \in Incidents : dedup'[i] <= DedupTTL[i]
        <5>1. dedup' = [i \in Incidents |-> Less(dedup[i])]
          BY <2>18 DEF Tick
        <5>2. \A i \in Incidents : Less(dedup[i]) \in Nat /\ Less(dedup[i]) <= DedupTTL[i]
          BY DEF KeyTypes
        <5>3. QED
          BY <5>1, <5>2
      <4>2. /\ memDedup' \in [Pods -> [Incidents -> Nat]]
            /\ \A i \in Incidents, q \in Pods : memDedup'[q][i] <= DedupTTL[i]
        <5>1. memDedup' = [q \in Pods |-> [i \in Incidents |-> Less(memDedup[q][i])]]
          BY <2>18 DEF Tick
        <5>2. \A q \in Pods : memDedup[q] \in [Incidents -> Nat]
          BY DEF KeyTypes
        <5>3. \A q \in Pods, i \in Incidents : /\ Less(memDedup[q][i]) \in Nat
                                               /\ Less(memDedup[q][i]) <= DedupTTL[i]
          BY <5>2 DEF KeyTypes
        <5>4. QED
          BY <5>1, <5>3
      <4>3. count' \in [Deployments -> 0..CountCap]
        BY <2>18 DEF Tick, KeyTypes
      <4>4. countTTL' \in [Deployments -> 0..RestartWindow]
        BY <2>18 DEF Tick, KeyTypes
      <4>5. maintenance' \in 0..MaintenanceTTL /\ redisUp' \in BOOLEAN
        BY <2>18 DEF Tick, KeyTypes
      <4>6. QED
        BY <4>1, <4>2, <4>3, <4>4, <4>5 DEF KeyTypes
    <3>2. LoopTypes'
      BY <2>18 DEF Tick, redis, LoopTypes, Labels, InRun, Acting
    <3>3. HistoryTypes'
      BY <2>18 DEF Tick, history, HistoryTypes
    <3>4. QED
      BY <3>1, <3>2, <3>3
  <2>19. CASE UNCHANGED vars
    <3>1. KeyTypes'
      BY <2>19 DEF vars, redis, history, KeyTypes
    <3>2. LoopTypes'
      BY <2>19 DEF vars, redis, LoopTypes, Labels, InRun, Acting
    <3>3. HistoryTypes'
      BY <2>19 DEF vars, history, HistoryTypes
    <3>4. QED
      BY <3>1, <3>2, <3>3
  <2>20. QED
    BY <2>1, <2>2, <2>3, <2>4, <2>5, <2>6, <2>7, <2>8, <2>9, <2>10, <2>11,
       <2>12, <2>13, <2>14, <2>15, <2>16, <2>17, <2>18, <2>19 DEF Next, Step
<1>3. QED
  BY <1>1, <1>2, HandlesIncidentStep, PTL DEF Spec
-----------------------------------------------------------------------------
(* The restart limit                                                       *)

\* Pods that have passed the check of the limit of a deployment and have not
\* restarted it, and pods that have restarted it and have not counted that.
Patching(d)  == {p \in Pods : pc[p] = "patch" /\ Target[cur[p]] = d}
Recording(d) == {p \in Pods : pc[p] = "recordOk" /\ Target[cur[p]] = d}

Excluded ==
  OneLeader => \A p, q \in Pods : pc[p] \in InRun /\ pc[q] \in InRun => p = q

\* The key in Redis counts every restart but those still to be recorded, it
\* lives as long as they matter, and whoever is about to restart has found
\* room below the limit, as many at a time as there are leaders.
RestartsCounted ==
  \A d \in Deployments :
    /\ burst[d] <= count[d] + Cardinality(Recording(d))
    /\ Recording(d) = {} => burstLeft[d] <= countTTL[d]

RoomFound ==
  \A d \in Deployments :
    burst[d] + Cardinality(Patching(d)) <= MaxRestarts - 1 + Concurrency

LimitInv == redisUp /\ Excluded /\ RestartsCounted /\ RoomFound

\* The sets of pods counted above are finite in every state.
LEMMA FinitelyMany ==
  ASSUME NEW d
  PROVE  /\ IsFiniteSet(Patching(d)) /\ Cardinality(Patching(d)) \in Nat
         /\ IsFiniteSet(Recording(d)) /\ Cardinality(Recording(d)) \in Nat
<1>1. Patching(d) \in SUBSET Pods /\ Recording(d) \in SUBSET Pods
  BY DEF Patching, Recording
<1>2. QED
  BY <1>1, FS_Subset, FS_CardinalityType, LoopAssumption

\* No more runs are past the election than the election allows.
LEMMA LeadersBounded ==
  ASSUME Excluded, NEW S \in SUBSET {p \in Pods : pc[p] \in InRun}
  PROVE  Cardinality(S) <= Concurrency
<1>1. S \in SUBSET Pods
  OBVIOUS
<1>2. IsFiniteSet(S) /\ Cardinality(S) <= Cardinality(Pods)
  BY <1>1, FS_Subset, LoopAssumption
<1>3. CASE ~OneLeader
  BY <1>2, <1>3 DEF Concurrency
<1>4. CASE OneLeader
  <2>1. CASE S = {}
    BY <2>1, FS_EmptySet, Caps
  <2>2. CASE S # {}
    <3>1. PICK p \in S : TRUE
      BY <2>2
    <3>2. S = {p}
      BY <1>4, <3>1 DEF Excluded
    <3>3. Cardinality(S) = 1
      BY <3>2, FS_Singleton
    <3>4. QED
      BY <3>3, Caps
  <2>3. QED
    BY <2>1, <2>2
<1>5. QED
  BY <1>3, <1>4, LoopAssumption

\* A pod passes the election only when no other is past it.
LEMMA ExcludedStep ==
  TypeOK /\ ~Crashes /\ Excluded /\ [Next]_vars => Excluded'
<1> SUFFICES ASSUME LoopTypes, Excluded, ~Crashes, [Next]_vars,
                    OneLeader,
                    NEW a \in Pods, NEW b \in Pods,
                    pc'[a] \in InRun, pc'[b] \in InRun
             PROVE  a = b
  BY DEF TypeOK, Excluded
<1> USE DEF LoopTypes, Excluded, Goto
<1>1. ASSUME NEW p \in Pods, Elect(p)
      PROVE  a = b
  BY <1>1 DEF Elect, InRun, Acting
<1>2. ASSUME NEW p \in Pods, pc[p] \in InRun \/ pc'[p] \notin InRun,
             \A q \in Pods \ {p} : pc'[q] = pc[q]
      PROVE  a = b
  BY <1>2
<1>3. ASSUME NEW p \in Pods, StartRun(p) \/ CheckMaintenance(p)
      PROVE  a = b
  <2>1. pc'[p] \notin InRun /\ \A q \in Pods \ {p} : pc'[q] = pc[q]
    BY <1>3 DEF StartRun, CheckMaintenance, InRun, Acting
  <2>2. QED
    BY <1>2, <2>1
<1>4. ASSUME NEW p \in Pods,
             \/ Observe(p) \/ NextAnomaly(p) \/ FinishRun(p) \/ Diagnose(p)
             \/ CheckLimit(p) \/ Restart(p) \/ RecordRestart(p)
             \/ MarkIncident(p) \/ Dispatch(p) \/ LoopError(p)
      PROVE  a = b
  <2>1. pc[p] \in InRun
    BY <1>4 DEF Observe, NextAnomaly, FinishRun, Diagnose, CheckLimit, Restart,
                RecordRestart, MarkIncident, Dispatch, LoopError, InRun, Acting
  <2>2. \A q \in Pods \ {p} : pc'[q] = pc[q]
    BY <1>4 DEF Observe, NextAnomaly, FinishRun, Diagnose, CheckLimit, Restart,
                RecordRestart, MarkIncident, Dispatch, LoopError, Leave
  <2>3. QED
    BY <1>2, <2>1, <2>2
<1>5. CASE UNCHANGED pc
  BY <1>5
<1>6. ASSUME NEW p \in Pods, NEW i \in Incidents, RunVerification(p, i)
      PROVE  a = b
  BY <1>5, <1>6 DEF RunVerification
<1>7. CASE SetRedis \/ SetMaintenance \/ Tick \/ UNCHANGED vars
  BY <1>5, <1>7 DEF SetRedis, SetMaintenance, Tick, vars
<1>8. QED
  BY <1>1, <1>3, <1>4, <1>6, <1>7 DEF Next, Step, Crash

\* A step that lets no pod in or out of the critical labels and leaves the
\* counters alone disturbs neither the count nor the room below the limit.
Aside ==
  /\ UNCHANGED <<count, countTTL, burst, burstLeft>>
  /\ \A q \in Pods : \/ pc'[q] = pc[q] /\ cur'[q] = cur[q]
                     \/ /\ pc[q] \notin {"patch", "recordOk"}
                        /\ pc'[q] \notin {"patch", "recordOk"}

LEMMA AsideStep ==
  RestartsCounted /\ RoomFound /\ Aside => RestartsCounted' /\ RoomFound'
<1> SUFFICES ASSUME RestartsCounted, RoomFound, Aside
             PROVE  RestartsCounted' /\ RoomFound'
  OBVIOUS
<1>1. ASSUME NEW d
      PROVE  Patching(d)' = Patching(d) /\ Recording(d)' = Recording(d)
  BY DEF Aside, Patching, Recording
<1>2. QED
  BY <1>1 DEF Aside, RestartsCounted, RoomFound

\* Passing the check takes room that the count in Redis has shown.
LEMMA CheckLimitStep ==
  ASSUME TypeOK, LimitInv, NEW p \in Pods, CheckLimit(p)
  PROVE  RestartsCounted' /\ RoomFound'
<1> USE DEF TypeOK, LoopTypes, LimitInv
<1>1. CASE pc' = [pc EXCEPT ![p] = "record"]
  <2>1. Aside
    BY <1>1 DEF Aside, CheckLimit, redis
  <2>2. QED
    BY <2>1, AsideStep
<1>2. CASE pc' = [pc EXCEPT ![p] = "patch"] /\ ~LimitReached(Target[cur[p]])
  <2>1. /\ UNCHANGED <<cur, count, countTTL, burst, burstLeft>>
        /\ pc[p] = "limit"
    BY <1>2 DEF CheckLimit, redis
  <2>2. ASSUME NEW d
        PROVE  Recording(d)' = Recording(d)
    BY <1>2, <2>1 DEF Recording
  <2>3. RestartsCounted'
    BY <2>1, <2>2 DEF RestartsCounted
  <2>4. ASSUME NEW d \in Deployments
        PROVE  burst[d] + Cardinality(Patching(d)') <= MaxRestarts - 1 + Concurrency
    <3>1. CASE d # Target[cur[p]]
      <4>1. Patching(d)' = Patching(d)
        BY <1>2, <2>1, <3>1 DEF Patching
      <4>2. QED
        BY <4>1 DEF RoomFound
    <3>2. CASE d = Target[cur[p]]
      <4>1. count[d] <= MaxRestarts - 1
        BY <1>2, <3>2, LoopAssumption DEF LimitReached, KeyTypes
      <4>2. burst[d] <= count[d] + Cardinality(Recording(d))
        BY DEF RestartsCounted
      <4>3. Patching(d)' = Patching(d) \cup {p} /\ p \notin Patching(d)
        BY <1>2, <2>1, <3>2 DEF Patching
      <4>4. Cardinality(Patching(d)') + Cardinality(Recording(d)) <= Concurrency
        <5> DEFINE S == Patching(d) \cup {p}
        <5>1. IsFiniteSet(S)
          BY FinitelyMany, FS_AddElement
        <5>2. S \cap Recording(d) = {}
          BY <2>1 DEF Patching, Recording
        <5>3. S \cup Recording(d) \in SUBSET {q \in Pods : pc[q] \in InRun}
          BY <2>1 DEF Patching, Recording, InRun, Acting
        <5>4. Cardinality(S \cup Recording(d)) <= Concurrency
          BY <5>3, LeadersBounded
        <5> HIDE DEF S
        <5>5. Cardinality(S \cup Recording(d))
                = Cardinality(S) + Cardinality(Recording(d))
          <6>1. /\ IsFiniteSet(Recording(d))
                /\ Cardinality(S) \in Nat /\ Cardinality(Recording(d)) \in Nat
            BY <5>1, FinitelyMany, FS_CardinalityType
          <6>2. Cardinality(S \cup Recording(d))
                  = Cardinality(S) + Cardinality(Recording(d)) - Cardinality({})
            BY <5>1, <5>2, <6>1, FS_Union
          <6>3. QED
            BY <6>1, <6>2, FS_EmptySet
        <5>6. QED
          BY <4>3, <5>4, <5>5 DEF S
      <4>5. Cardinality(Patching(d)') \in Nat
        BY <4>3, FinitelyMany, FS_AddElement, FS_CardinalityType
      <4>6. burst[d] \in Nat /\ count[d] \in Nat
        BY DEF KeyTypes, HistoryTypes
      <4>7. QED
        BY <4>1, <4>2, <4>4, <4>5, <4>6, FinitelyMany, Caps, LoopAssumption
    <3>3. QED
      BY <3>1, <3>2
  <2>5. QED
    BY <2>1, <2>3, <2>4 DEF RoomFound
<1>3. QED
  BY <1>1, <1>2 DEF CheckLimit, Goto

\* A restart uses up the room its pod had found and is from then on to be
\* recorded.
LEMMA RestartStep ==
  ASSUME TypeOK, LimitInv, NEW p \in Pods, Restart(p),
         NEW d \in Deployments, d = Target[cur[p]]
  PROVE  RestartsCounted' /\ RoomFound'
<1> USE DEF TypeOK, LoopTypes
<1>1. pc[p] = "patch"
  BY DEF Restart
<1>2. /\ UNCHANGED <<cur, count, countTTL>>
      /\ \/ /\ pc' = [pc EXCEPT ![p] = "recordOk"]
            /\ burst' = [burst EXCEPT ![d] = Bump(@, CountCap)]
            /\ burstLeft' = [burstLeft EXCEPT ![d] = RestartWindow]
         \/ /\ pc' = [pc EXCEPT ![p] = "record"]
            /\ UNCHANGED <<burst, burstLeft>>
  BY DEF Restart, Goto, redis
<1>3. Patching(d)' = Patching(d) \ {p} /\ p \in Patching(d)
  BY <1>1, <1>2 DEF Patching
<1>4. Cardinality(Patching(d)') = Cardinality(Patching(d)) - 1
  <2>1. IsFiniteSet(Patching(d))
    BY FinitelyMany
  <2>2. Cardinality(Patching(d) \ {p}) = Cardinality(Patching(d)) - 1
    BY <1>3, <2>1, FS_RemoveElement
  <2>3. QED
    BY <1>3, <2>2
<1>5. ASSUME NEW e \in Deployments, e # d
      PROVE  Patching(e)' = Patching(e) /\ Recording(e)' = Recording(e)
  BY <1>1, <1>2, <1>5 DEF Patching, Recording
<1>6. CASE /\ pc' = [pc EXCEPT ![p] = "recordOk"]
           /\ burst' = [burst EXCEPT ![d] = Bump(@, CountCap)]
           /\ burstLeft' = [burstLeft EXCEPT ![d] = RestartWindow]
  <2>1. Recording(d)' = Recording(d) \cup {p} /\ p \notin Recording(d)
    BY <1>1, <1>2, <1>6 DEF Recording
  <2>2. Cardinality(Recording(d)') = Cardinality(Recording(d)) + 1
    BY <2>1, FinitelyMany, FS_AddElement
  <2>3. \A e \in Deployments : e # d => burst'[e] = burst[e] /\ burstLeft'[e] = burstLeft[e]
    BY <1>6 DEF HistoryTypes
  <2>4. burst'[d] <= burst[d] + 1 /\ burst'[d] \in Nat /\ burst[d] \in Nat
    BY <1>1, <1>6, Caps, Counters DEF HistoryTypes, Bump
  <2>5. RestartsCounted'
    <3>1. burst'[d] <= count[d] + Cardinality(Recording(d)')
      BY <1>1, <2>2, <2>4, FinitelyMany DEF LimitInv, RestartsCounted, KeyTypes
    <3>2. Recording(d)' # {}
      BY <2>1
    <3>3. QED
      BY <1>2, <1>5, <2>3, <3>1, <3>2 DEF LimitInv, RestartsCounted
  <2>6. RoomFound'
    <3>1. burst'[d] + Cardinality(Patching(d)') <= MaxRestarts - 1 + Concurrency
      BY <1>1, <1>4, <2>4, FinitelyMany, Caps, LoopAssumption DEF LimitInv, RoomFound
    <3>2. QED
      BY <1>5, <2>3, <3>1 DEF LimitInv, RoomFound
  <2>7. QED
    BY <2>5, <2>6
<1>7. CASE /\ pc' = [pc EXCEPT ![p] = "record"]
           /\ UNCHANGED <<burst, burstLeft>>
  <2>1. Recording(d)' = Recording(d)
    BY <1>1, <1>2, <1>7 DEF Recording
  <2>2. RestartsCounted'
    BY <1>2, <1>5, <1>7, <2>1 DEF LimitInv, RestartsCounted
  <2>3. burst[d] + Cardinality(Patching(d)') <= MaxRestarts - 1 + Concurrency
    BY <1>1, <1>4, FinitelyMany, Caps, LoopAssumption
       DEF LimitInv, RoomFound, HistoryTypes
  <2>4. RoomFound'
    BY <1>5, <1>7, <2>3 DEF LimitInv, RoomFound
  <2>5. QED
    BY <2>2, <2>4
<1>8. QED
  BY <1>2, <1>6, <1>7

\* Recording moves a restart from the pods that still have to record it into
\* the count, and gives the key the whole window to live.
LEMMA RecordRestartStep ==
  ASSUME TypeOK, LimitInv, NEW p \in Pods, RecordRestart(p),
         NEW d \in Deployments, d = Target[cur[p]]
  PROVE  RestartsCounted' /\ RoomFound'
<1> USE DEF TypeOK, LoopTypes
<1>1. pc[p] \in {"record", "recordOk"}
  BY DEF RecordRestart
<1>2. /\ UNCHANGED <<cur, burst, burstLeft>>
      /\ count' = [count EXCEPT ![d] = Bump(@, CountCap)]
      /\ countTTL' = [countTTL EXCEPT ![d] = RestartWindow]
      /\ pc' = [pc EXCEPT ![p] = IF pc[p] = "record" THEN "mark" ELSE "markOk"]
  BY DEF RecordRestart, Goto, history, LimitInv
<1>3. pc'[p] \notin {"patch", "recordOk"} /\ \A q \in Pods \ {p} : pc'[q] = pc[q]
  BY <1>1, <1>2
<1>4. ASSUME NEW e \in Deployments
      PROVE  Patching(e)' = Patching(e)
  BY <1>1, <1>2, <1>3 DEF Patching
<1>5. ASSUME NEW e \in Deployments
      PROVE  Recording(e)' = Recording(e) \ {p}
  BY <1>1, <1>2, <1>3 DEF Recording
<1>6. ASSUME NEW e \in Deployments, e # d
      PROVE  Recording(e)' = Recording(e) /\ count'[e] = count[e] /\ countTTL'[e] = countTTL[e]
  <2>1. p \notin Recording(e)
    BY <1>6 DEF Recording
  <2>2. QED
    BY <1>2, <1>5, <1>6, <2>1 DEF KeyTypes
<1>7. /\ burst[d] <= count'[d] + Cardinality(Recording(d)')
      /\ burstLeft[d] <= countTTL'[d]
  <2>1. burst[d] \in 0..CountCap /\ count[d] \in 0..CountCap /\ burstLeft[d] <= RestartWindow
    BY <1>1 DEF KeyTypes, HistoryTypes
  <2>2. countTTL'[d] = RestartWindow /\ count'[d] = Bump(count[d], CountCap)
    BY <1>1, <1>2 DEF KeyTypes
  <2>3. /\ Cardinality(Recording(d)') \in Nat
        /\ Cardinality(Recording(d)) <= Cardinality(Recording(d)') + 1
    <3>1. IsFiniteSet(Recording(d)) /\ Cardinality(Recording(d)) \in Nat
      BY FinitelyMany
    <3>2. /\ IsFiniteSet(Recording(d) \ {p})
          /\ Cardinality(Recording(d) \ {p})
               = IF p \in Recording(d) THEN Cardinality(Recording(d)) - 1
                                       ELSE Cardinality(Recording(d))
      BY <3>1, FS_RemoveElement
    <3>3. Cardinality(Recording(d) \ {p}) \in Nat
      BY <3>2, FS_CardinalityType
    <3>4. Cardinality(Recording(d)) <= Cardinality(Recording(d) \ {p}) + 1
      BY <3>1, <3>2, <3>3
    <3>5. Recording(d)' = Recording(d) \ {p}
      BY <1>5
    <3>6. QED
      BY <3>3, <3>4, <3>5
  <2>4. burst[d] <= count[d] + Cardinality(Recording(d))
    BY <1>1 DEF LimitInv, RestartsCounted
  <2>5. QED
    BY <2>1, <2>2, <2>3, <2>4, FinitelyMany, Caps DEF Bump
<1>8. RestartsCounted'
  BY <1>2, <1>6, <1>7 DEF LimitInv, RestartsCounted
<1>9. RoomFound'
  BY <1>2, <1>4 DEF LimitInv, RoomFound
<1>10. QED
  BY <1>8, <1>9

\* While time passes nobody is between the check and the count: the key is
\* gone only when the window of the last restart is over too.
LEMMA TickStep ==
  ASSUME TypeOK, LimitInv, Tick
  PROVE  RestartsCounted' /\ RoomFound'
<1> USE DEF TypeOK
<1>1. ASSUME NEW d
      PROVE  /\ Patching(d) = {} /\ Patching(d)' = {}
             /\ Recording(d) = {} /\ Recording(d)' = {}
  BY DEF Tick, Acting, Patching, Recording
<1>2. Cardinality({}) = 0
  BY FS_EmptySet
<1>3. ASSUME NEW d \in Deployments
      PROVE  /\ burst[d] <= count[d] /\ burstLeft[d] <= countTTL[d]
             /\ burst[d] <= MaxRestarts - 1 + Concurrency
  <2>1. /\ burst[d] <= count[d] + Cardinality({})
        /\ burstLeft[d] <= countTTL[d]
        /\ burst[d] + Cardinality({}) <= MaxRestarts - 1 + Concurrency
    BY <1>1 DEF LimitInv, RestartsCounted, RoomFound
  <2>2. burst[d] \in Nat /\ count[d] \in Nat
    BY DEF KeyTypes, HistoryTypes
  <2>3. QED
    BY <1>2, <2>1, <2>2
<1>4. ASSUME NEW d \in Deployments
      PROVE  /\ burst'[d] <= count'[d]
             /\ burstLeft'[d] <= countTTL'[d]
             /\ burst'[d] <= burst[d] /\ burst'[d] \in Nat
             /\ burst[d] \in Nat /\ count'[d] \in Nat
  BY <1>3, Counters DEF Tick, KeyTypes, HistoryTypes
<1>5. RestartsCounted'
  <2>1. ASSUME NEW d \in Deployments
        PROVE  /\ burst'[d] <= count'[d] + Cardinality(Recording(d)')
               /\ burstLeft'[d] <= countTTL'[d]
    BY <1>1, <1>2, <1>4
  <2>2. QED
    BY <2>1 DEF RestartsCounted
<1>6. RoomFound'
  <2>1. ASSUME NEW d \in Deployments
        PROVE  burst'[d] + Cardinality(Patching(d)') <= MaxRestarts - 1 + Concurrency
    <3>1. Cardinality(Patching(d)') = 0
      BY <1>1, <1>2
    <3>2. /\ burst'[d] <= burst[d] /\ burst[d] <= MaxRestarts - 1 + Concurrency
          /\ burst'[d] \in Nat /\ burst[d] \in Nat
      BY <1>3, <1>4
    <3>3. QED
      BY <3>1, <3>2, Caps, LoopAssumption
  <2>2. QED
    BY <2>1 DEF RoomFound
<1>7. QED
  BY <1>5, <1>6

\* Every other step is aside.
LEMMA LimitInvStep ==
  TypeOK /\ HandlesIncident /\ LimitInv /\ ~Crashes /\ ~RedisFaults /\ [Next]_vars
    => LimitInv'
<1> SUFFICES ASSUME TypeOK, HandlesIncident, LimitInv, ~Crashes, ~RedisFaults,
                    [Next]_vars
             PROVE  LimitInv'
  OBVIOUS
<1>1. redisUp' /\ Excluded'
  <2>1. redisUp'
    BY DEF LimitInv, Next, Step, StartRun, CheckMaintenance, Elect, Observe,
           NextAnomaly, FinishRun, Diagnose, CheckLimit, Restart, RecordRestart,
           MarkIncident, Dispatch, LoopError, Crash, RunVerification, SetRedis,
           SetMaintenance, Tick, redis, vars
  <2>2. QED
    BY <2>1, ExcludedStep DEF LimitInv
<1>2. RestartsCounted' /\ RoomFound'
  <2>1. CASE Aside
    BY <2>1, AsideStep DEF LimitInv
  <2>2. ASSUME NEW p \in Pods, StartRun(p) \/ CheckMaintenance(p) \/ Elect(p) \/ Observe(p)
        PROVE  Aside
    BY <2>2 DEF StartRun, CheckMaintenance, Elect, Observe, Goto, Aside, TypeOK,
                LoopTypes, redis, history
  <2>3. ASSUME NEW p \in Pods, NextAnomaly(p) \/ FinishRun(p)
        PROVE  Aside
    BY <2>3 DEF NextAnomaly, FinishRun, Leave, Goto, Aside, TypeOK, LoopTypes,
                redis, history
  <2>4. ASSUME NEW p \in Pods, Diagnose(p)
        PROVE  Aside
    BY <2>4 DEF Diagnose, Goto, Aside, TypeOK, LoopTypes, redis
  <2>5. ASSUME NEW p \in Pods, MarkIncident(p) \/ Dispatch(p) \/ LoopError(p)
        PROVE  Aside
    BY <2>5 DEF MarkIncident, Dispatch, LoopError, Leave, Goto, Aside, TypeOK,
                LoopTypes, redis, history
  <2>6. ASSUME NEW p \in Pods, NEW i \in Incidents, RunVerification(p, i)
        PROVE  Aside
    BY <2>6 DEF RunVerification, Aside, redis
  <2>7. CASE SetMaintenance \/ UNCHANGED vars
    BY <2>1, <2>7 DEF SetMaintenance, Aside, redis, history, vars
  <2>8. ASSUME NEW p \in Pods, CheckLimit(p)
        PROVE  RestartsCounted' /\ RoomFound'
    BY <2>8, CheckLimitStep
  <2>9. ASSUME NEW p \in Pods, Restart(p) \/ RecordRestart(p)
        PROVE  RestartsCounted' /\ RoomFound'
    <3>1. Target[cur[p]] \in Deployments
      BY <2>9, LoopAssumption
         DEF Restart, RecordRestart, HandlesIncident, Handling, Acting
    <3>2. QED
      BY <2>9, <3>1, RestartStep, RecordRestartStep
  <2>10. CASE Tick
    BY <2>10, TickStep
  <2>11. QED
    BY <2>1, <2>2, <2>3, <2>4, <2>5, <2>6, <2>7, <2>8, <2>9, <2>10
       DEF Next, Step, Crash, SetRedis
<1>3. QED
  BY <1>1, <1>2 DEF LimitInv

\* With Redis reachable and no pod dying in the middle of a run, no deployment
\* is restarted more often within the window than the limit allows, but for
\* one restart more of every leader beyond the first: _check_restart_limit and
\* record_restart are not one step.  For an exclusive election the limit of
\* SRE_MAX_RESTARTS_PER_RESOURCE is exact.
THEOREM RestartsAreLimited ==
  ASSUME ~Crashes, ~RedisFaults
  PROVE  Spec => []RestartLimit
<1>1. Init => LimitInv
  <2> SUFFICES ASSUME Init
               PROVE  LimitInv
    OBVIOUS
  <2>1. \A d : Patching(d) = {} /\ Recording(d) = {}
    BY DEF Init, Patching, Recording
  <2>2. redisUp /\ Excluded
    BY DEF Init, Excluded, InRun, Acting
  <2>3. QED
    <3>1. \A d : Cardinality(Patching(d)) = 0 /\ Cardinality(Recording(d)) = 0
      BY <2>1, FS_EmptySet
    <3>2. \A d \in Deployments : burst[d] = 0 /\ count[d] = 0
                                /\ burstLeft[d] = 0 /\ countTTL[d] = 0
      BY DEF Init
    <3>3. RestartsCounted
      BY <3>1, <3>2 DEF RestartsCounted
    <3>4. RoomFound
      BY <3>1, <3>2, Caps, LoopAssumption DEF RoomFound
    <3>5. QED
      BY <2>2, <3>3, <3>4 DEF LimitInv
<1>2. TypeOK /\ HandlesIncident /\ LimitInv /\ [Next]_vars => LimitInv'
  BY LimitInvStep
<1>3. TypeOK /\ LimitInv => RestartLimit
  <2> SUFFICES ASSUME TypeOK, LimitInv, NEW d \in Deployments
               PROVE  burst[d] <= MaxRestarts - 1 + Concurrency
    BY DEF RestartLimit
  <2>1. burst[d] + Cardinality(Patching(d)) <= MaxRestarts - 1 + Concurrency
    BY DEF LimitInv, RoomFound
  <2>2. burst[d] \in Nat /\ Cardinality(Patching(d)) \in Nat
    BY FinitelyMany DEF TypeOK, HistoryTypes
  <2>3. QED
    BY <2>1, <2>2, Caps, LoopAssumption
<1>4. QED
  BY <1>1, <1>2, <1>3, TypeCorrect, PTL DEF Spec
-----------------------------------------------------------------------------
(* Deduplication                                                           *)

\* Labels of a pod that has taken an anomaly and not handled it yet, and of one
\* that has handled it and not marked it yet.
TakenLabels   == {"diagnose", "limit", "patch"}
HandledLabels == {"record", "recordOk", "mark", "markOk"}

Takers(i)  == {p \in Pods : pc[p] \in TakenLabels /\ cur[p] = i}
Markers(i) == {p \in Pods : pc[p] \in HandledLabels /\ cur[p] = i}

\* The kinds of steps as deduplication sees them.  A quiet step takes, handles
\* and marks no anomaly; a pod may at most give up the one it has taken.
Quiet ==
  /\ UNCHANGED <<dedup, handled, handledLeft>>
  /\ \A q \in Pods :
       /\ pc'[q] \in TakenLabels => pc[q] \in TakenLabels /\ cur'[q] = cur[q]
       /\ pc'[q] \in HandledLabels <=> pc[q] \in HandledLabels
       /\ pc[q] \in HandledLabels => cur'[q] = cur[q]

Takes(p, i) ==
  /\ pc[p] = "next"
  /\ ~IsDuplicate(p, i)
  /\ pc' = [pc EXCEPT ![p] = "diagnose"]
  /\ cur' = [cur EXCEPT ![p] = i]
  /\ UNCHANGED <<dedup, handled, handledLeft>>

Handles(p) ==
  /\ pc[p] \in TakenLabels
  /\ \E label \in HandledLabels : pc' = [pc EXCEPT ![p] = label]
  /\ Handle(cur[p])
  /\ UNCHANGED <<cur, dedup>>

\* Every step of the loop is of one of these kinds.
LEMMA StepKinds ==
  ASSUME TypeOK, [Next]_vars
  PROVE  \/ Quiet \/ Tick
         \/ \E p \in Pods : \/ \E i \in Incidents : Takes(p, i)
                            \/ Handles(p) \/ MarkIncident(p) \/ Crash(p)
<1> USE DEF TypeOK, LoopTypes, Goto, TakenLabels, HandledLabels
<1>1. ASSUME NEW p \in Pods,
             StartRun(p) \/ CheckMaintenance(p) \/ Elect(p) \/ Observe(p)
      PROVE  Quiet
  BY <1>1 DEF StartRun, CheckMaintenance, Elect, Observe, Quiet, redis, history
<1>2. ASSUME NEW p \in Pods, NextAnomaly(p)
      PROVE  Quiet \/ \E i \in Incidents : Takes(p, i)
  <2>1. PICK i \in todo[p] :
          \/ UNCHANGED <<pc, cur>>
          \/ ~IsDuplicate(p, i) /\ cur' = [cur EXCEPT ![p] = i] /\ Goto(p, "diagnose")
    BY <1>2 DEF NextAnomaly
  <2>2. i \in Incidents /\ pc[p] = "next" /\ UNCHANGED <<dedup, handled, handledLeft>>
    BY <1>2 DEF NextAnomaly, redis, history
  <2>3. CASE UNCHANGED <<pc, cur>>
    BY <2>2, <2>3 DEF Quiet
  <2>4. CASE /\ ~IsDuplicate(p, i)
             /\ cur' = [cur EXCEPT ![p] = i] /\ Goto(p, "diagnose")
    <3>1. Takes(p, i)
      BY <2>2, <2>4 DEF Takes
    <3>2. QED
      BY <2>2, <3>1
  <2>5. QED
    BY <2>1, <2>3, <2>4
<1>3. ASSUME NEW p \in Pods, FinishRun(p) \/ LoopError(p) \/ Dispatch(p)
      PROVE  Quiet
  BY <1>3 DEF FinishRun, LoopError, Dispatch, Leave, Quiet, redis, history
<1>4. ASSUME NEW p \in Pods, Diagnose(p)
      PROVE  Quiet \/ Handles(p)
  <2>1. /\ pc[p] = "diagnose" /\ UNCHANGED <<cur, dedup>>
        /\ \/ Goto(p, "limit") /\ UNCHANGED <<handled, handledLeft>>
           \/ Goto(p, "mark") /\ Handle(cur[p])
    BY <1>4 DEF Diagnose, redis
  <2>2. CASE Goto(p, "limit") /\ UNCHANGED <<handled, handledLeft>>
    BY <2>1, <2>2 DEF Quiet
  <2>3. CASE Goto(p, "mark") /\ Handle(cur[p])
    BY <2>1, <2>3 DEF Handles
  <2>4. QED
    BY <2>1, <2>2, <2>3
<1>5. ASSUME NEW p \in Pods, CheckLimit(p)
      PROVE  Quiet \/ Handles(p)
  <2>1. /\ pc[p] = "limit" /\ UNCHANGED <<cur, dedup>>
        /\ \/ Goto(p, "patch") /\ UNCHANGED <<handled, handledLeft>>
           \/ Goto(p, "record") /\ Handle(cur[p])
    BY <1>5 DEF CheckLimit, redis
  <2>2. CASE Goto(p, "patch") /\ UNCHANGED <<handled, handledLeft>>
    BY <2>1, <2>2 DEF Quiet
  <2>3. CASE Goto(p, "record") /\ Handle(cur[p])
    BY <2>1, <2>3 DEF Handles
  <2>4. QED
    BY <2>1, <2>2, <2>3
<1>6. ASSUME NEW p \in Pods, Restart(p)
      PROVE  Handles(p)
  BY <1>6 DEF Restart, Handles, redis
<1>7. ASSUME NEW p \in Pods, RecordRestart(p)
      PROVE  Quiet
  BY <1>7 DEF RecordRestart, Quiet, history
<1>8. ASSUME NEW p \in Pods, NEW i \in Incidents, RunVerification(p, i)
      PROVE  Quiet
  BY <1>8 DEF RunVerification, Quiet, redis
<1>9. CASE SetRedis \/ SetMaintenance \/ UNCHANGED vars
  BY <1>9 DEF SetRedis, SetMaintenance, Quiet, redis, history, vars
<1>10. QED
  BY <1>1, <1>2, <1>3, <1>4, <1>5, <1>6, <1>7, <1>8, <1>9 DEF Next, Step

\* Handling an incident counts it and starts its time anew, and lowers nothing.
LEMMA HandleStep ==
  ASSUME HistoryTypes, NEW i \in Incidents, Handle(i)
  PROVE  /\ handledLeft'[i] = DedupTTL[i] /\ handled'[i] > 0
         /\ handled'[i] <= handled[i] + 1
         /\ \A j \in Incidents : /\ handled[j] <= handled'[j]
                                 /\ handledLeft[j] <= handledLeft'[j]
                                 /\ j # i => /\ handled'[j] = handled[j]
                                             /\ handledLeft'[j] = handledLeft[j]
<1>1. handledLeft' = [handledLeft EXCEPT ![i] = DedupTTL[i]]
  BY DEF Handle
<1>2. handled' = [handled EXCEPT ![i] = Bump(handled[i], HandledCap)]
  BY Zenon DEF Handle
<1>3. /\ \A j \in Incidents : handled[j] \in 0..HandledCap
      /\ handled[i] <= Bump(handled[i], HandledCap)
      /\ Bump(handled[i], HandledCap) <= handled[i] + 1
      /\ Bump(handled[i], HandledCap) > 0
  BY Caps DEF HistoryTypes, Bump
<1>4. \A j \in Incidents : /\ handledLeft[j] \in Nat /\ DedupTTL[j] \in Nat
                           /\ handledLeft[j] <= DedupTTL[j]
  BY LoopAssumption DEF HistoryTypes
<1>5. ASSUME NEW j \in Incidents
      PROVE  /\ handledLeft'[j] = IF j = i THEN DedupTTL[i] ELSE handledLeft[j]
             /\ handled'[j] = IF j = i THEN Bump(handled[i], HandledCap) ELSE handled[j]
  BY <1>1, <1>2, Zenon DEF HistoryTypes
<1>6. QED
  BY <1>3, <1>4, <1>5

\* From handling an incident until it is marked the clock stands still.
JustHandled ==
  \A p \in Pods : pc[p] \in HandledLabels =>
    handled[cur[p]] > 0 /\ handledLeft[cur[p]] = DedupTTL[cur[p]]

LEMMA SilencedStep ==
  TypeOK /\ HandlesIncident /\ JustHandled /\ SilencedOnlyIfHandled /\ [Next]_vars
    => JustHandled' /\ SilencedOnlyIfHandled'
<1> SUFFICES ASSUME TypeOK, HandlesIncident, JustHandled, SilencedOnlyIfHandled,
                    [Next]_vars
             PROVE  JustHandled' /\ SilencedOnlyIfHandled'
  OBVIOUS
<1> USE DEF HandledLabels, TakenLabels
<1>1. CASE Quiet
  BY <1>1 DEF Quiet, JustHandled, SilencedOnlyIfHandled
<1>2. ASSUME NEW p \in Pods, NEW i \in Incidents, Takes(p, i)
      PROVE  JustHandled' /\ SilencedOnlyIfHandled'
  BY <1>2 DEF Takes, JustHandled, SilencedOnlyIfHandled, TypeOK, LoopTypes
<1>3. ASSUME NEW p \in Pods, Handles(p)
      PROVE  JustHandled' /\ SilencedOnlyIfHandled'
  <2>1. cur[p] \in Incidents /\ UNCHANGED <<cur, dedup>>
    BY <1>3 DEF Handles, HandlesIncident, Handling, Acting
  <2>2. /\ handledLeft'[cur[p]] = DedupTTL[cur[p]] /\ handled'[cur[p]] > 0
        /\ \A j \in Incidents : /\ handled[j] <= handled'[j]
                                /\ handledLeft[j] <= handledLeft'[j]
                                /\ j # cur[p] => /\ handled'[j] = handled[j]
                                                 /\ handledLeft'[j] = handledLeft[j]
    BY <1>3, <2>1, HandleStep DEF Handles, TypeOK
  <2>3. \A q \in Pods : pc'[q] \in HandledLabels => q = p \/ pc[q] \in HandledLabels
    BY <1>3 DEF Handles, TypeOK, LoopTypes
  <2>4. \A q \in Pods : pc[q] \in HandledLabels => cur[q] \in Incidents
    BY DEF HandlesIncident, Handling, Acting
  <2>5. JustHandled'
    BY <2>1, <2>2, <2>3, <2>4 DEF JustHandled
  <2>6. \A j \in Incidents : /\ dedup[j] \in Nat /\ handled[j] \in Nat /\ handled'[j] \in Nat
                             /\ handledLeft[j] \in Nat /\ handledLeft'[j] \in Nat
    BY <1>3, HandleTypes, Caps DEF Handles, TypeOK, KeyTypes, HistoryTypes
  <2>7. SilencedOnlyIfHandled'
    BY <2>1, <2>2, <2>6 DEF SilencedOnlyIfHandled
  <2>8. QED
    BY <2>5, <2>7
<1>4. ASSUME NEW p \in Pods, MarkIncident(p)
      PROVE  JustHandled' /\ SilencedOnlyIfHandled'
  <2>1. /\ pc[p] \in HandledLabels /\ pc'[p] \notin HandledLabels
        /\ \A q \in Pods \ {p} : pc'[q] = pc[q]
        /\ UNCHANGED <<cur, handled, handledLeft>>
    BY <1>4 DEF MarkIncident, Goto, history, TypeOK, LoopTypes
  <2>2. JustHandled'
    BY <2>1 DEF JustHandled
  <2>3. CASE dedup' = [dedup EXCEPT ![cur[p]] = DedupTTL[cur[p]]]
    <3>1. handled[cur[p]] > 0 /\ handledLeft[cur[p]] = DedupTTL[cur[p]]
      BY <2>1 DEF JustHandled
    <3>2. ASSUME NEW j \in Incidents
          PROVE  dedup'[j] = IF j = cur[p] THEN DedupTTL[j] ELSE dedup[j]
      BY <2>3, Zenon DEF TypeOK, KeyTypes
    <3>3. ASSUME NEW j \in Incidents
          PROVE  DedupTTL[j] \in Nat
      BY LoopAssumption
    <3>4. QED
      BY <2>1, <2>2, <3>1, <3>2, <3>3 DEF SilencedOnlyIfHandled
  <2>4. CASE UNCHANGED dedup
    BY <2>1, <2>2, <2>4 DEF SilencedOnlyIfHandled
  <2>5. QED
    BY <1>4, <2>3, <2>4 DEF MarkIncident
<1>5. ASSUME NEW p \in Pods, Crash(p)
      PROVE  JustHandled' /\ SilencedOnlyIfHandled'
  <2>1. /\ UNCHANGED <<dedup, handled, handledLeft>>
        /\ pc'[p] = "idle" /\ \A q \in Pods \ {p} : pc'[q] = pc[q] /\ cur'[q] = cur[q]
    BY <1>5 DEF Crash, Leave, Goto, redis, TypeOK, LoopTypes
  <2>2. QED
    BY <2>1 DEF JustHandled, SilencedOnlyIfHandled
<1>6. CASE Tick
  <2>1. JustHandled'
    BY <1>6 DEF Tick, Acting, JustHandled
  <2>2. ASSUME NEW i \in Incidents, dedup'[i] > 0
        PROVE  handled'[i] > 0 /\ dedup'[i] <= handledLeft'[i]
    <3>1. dedup[i] \in Nat /\ handledLeft[i] \in Nat /\ handled[i] \in Nat
      BY Caps DEF TypeOK, KeyTypes, HistoryTypes
    <3>2. /\ dedup'[i] = Less(dedup[i]) /\ handledLeft'[i] = Less(handledLeft[i])
          /\ handled'[i] = IF handledLeft[i] <= 1 THEN 0 ELSE handled[i]
      BY <1>6 DEF Tick
    <3>3. dedup[i] > 1
      BY <2>2, <3>1, <3>2 DEF Less
    <3>4. handled[i] > 0 /\ dedup[i] <= handledLeft[i]
      BY <3>1, <3>3 DEF SilencedOnlyIfHandled
    <3>5. QED
      BY <3>1, <3>2, <3>3, <3>4 DEF Less
  <2>3. QED
    BY <2>1, <2>2 DEF SilencedOnlyIfHandled
<1>7. QED
  BY <1>1, <1>2, <1>3, <1>4, <1>5, <1>6, StepKinds

\* Whatever crashes, fails or is unreachable, an incident is silenced only once it
\* was handled, and never for longer than its TTL from then on: mark_incident
\* follows the action, and no pod that dies in between leaves a key behind.
THEOREM SilenceIsEarned == Spec => []SilencedOnlyIfHandled
<1>1. Init => JustHandled /\ SilencedOnlyIfHandled
  BY DEF Init, JustHandled, HandledLabels, SilencedOnlyIfHandled
<1>2. QED
  BY <1>1, SilencedStep, TypeCorrect, PTL DEF Spec

-----------------------------------------------------------------------------
\* An incident that is not marked was handled at most by the pods that are about
\* to mark it, its key lives until its time is over, and whoever has taken it did
\* so when it was not marked: as many at a time as there are leaders.
UnmarkedCounted ==
  \A i \in Incidents : dedup[i] = 0 => handled[i] <= Cardinality(Markers(i))

KeyOutlives ==
  \A i \in Incidents : Markers(i) = {} => handledLeft[i] <= dedup[i]

RoomToHandle ==
  \A i \in Incidents : handled[i] + Cardinality(Takers(i)) <= Concurrency

DedupInv == UnmarkedCounted /\ KeyOutlives /\ RoomToHandle

\* The sets of pods counted above are finite in every state.
LEMMA FinitelyManyHandle ==
  ASSUME NEW i
  PROVE  /\ IsFiniteSet(Takers(i)) /\ Cardinality(Takers(i)) \in Nat
         /\ IsFiniteSet(Markers(i)) /\ Cardinality(Markers(i)) \in Nat
<1>1. Takers(i) \in SUBSET Pods /\ Markers(i) \in SUBSET Pods
  BY DEF Takers, Markers
<1>2. QED
  BY <1>1, FS_Subset, FS_CardinalityType, LoopAssumption

\* The types of what the invariant compares.
LEMMA DedupNumbers ==
  ASSUME TypeOK, NEW i \in Incidents
  PROVE  /\ dedup[i] \in Nat /\ handled[i] \in Nat /\ handledLeft[i] \in Nat
         /\ DedupTTL[i] \in Nat \ {0} /\ handledLeft[i] <= DedupTTL[i]
BY Caps, LoopAssumption DEF TypeOK, KeyTypes, HistoryTypes

\* A quiet step leaves the markers alone and makes no taker.
LEMMA QuietStep ==
  ASSUME TypeOK, DedupInv, Quiet
  PROVE  DedupInv'
<1>1. ASSUME NEW i
      PROVE  Markers(i)' = Markers(i) /\ Takers(i)' \subseteq Takers(i)
  BY DEF Quiet, Markers, Takers
<1>2. ASSUME NEW i \in Incidents
      PROVE  handled'[i] + Cardinality(Takers(i)') <= Concurrency
  <2>1. handled[i] + Cardinality(Takers(i)) <= Concurrency /\ handled'[i] = handled[i]
    BY DEF Quiet, DedupInv, RoomToHandle
  <2>2. /\ Cardinality(Takers(i)') <= Cardinality(Takers(i))
        /\ Cardinality(Takers(i)') \in Nat
    <3>1. IsFiniteSet(Takers(i)')
      BY <1>1, FinitelyManyHandle, FS_Subset
    <3>2. QED
      BY <1>1, <3>1, FinitelyManyHandle, FS_Subset, FS_CardinalityType
  <2>3. QED
    BY <2>1, <2>2, FinitelyManyHandle, DedupNumbers, Caps
<1>3. QED
  BY <1>1, <1>2 DEF Quiet, DedupInv, UnmarkedCounted, KeyOutlives, RoomToHandle

\* Taking an anomaly needs an incident that is not marked: it was handled by no
\* more pods than are marking it now, and all of them lead, as does the taker.
LEMMA TakesStep ==
  ASSUME TypeOK, DedupInv, redisUp, Excluded,
         NEW p \in Pods, NEW i \in Incidents, Takes(p, i)
  PROVE  DedupInv'
<1> USE DEF TypeOK, LoopTypes, TakenLabels, HandledLabels
<1>1. ASSUME NEW j \in Incidents
      PROVE  /\ Markers(j)' = Markers(j)
             /\ Takers(j)' = IF j = i THEN Takers(j) \cup {p} ELSE Takers(j)
  BY DEF Takes, Markers, Takers
<1>2. dedup[i] = 0
  BY DedupNumbers DEF Takes, IsDuplicate
<1>3. handled[i] <= Cardinality(Markers(i))
  BY <1>2 DEF DedupInv, UnmarkedCounted
<1>4. Cardinality(Markers(i)) + Cardinality(Takers(i) \cup {p}) <= Concurrency
  <2> DEFINE S == Takers(i) \cup {p}
  <2>1. IsFiniteSet(S)
    BY FinitelyManyHandle, FS_AddElement
  <2>2. S \cap Markers(i) = {}
    BY DEF Takes, Markers, Takers
  <2>3. S \cup Markers(i) \in SUBSET {q \in Pods : pc[q] \in InRun}
    BY DEF Takes, Markers, Takers, InRun, Acting
  <2>4. Cardinality(S \cup Markers(i)) <= Concurrency
    BY <2>3, LeadersBounded
  <2> HIDE DEF S
  <2>5. Cardinality(S) \in Nat /\ Cardinality(Markers(i)) \in Nat
    BY <2>1, FinitelyManyHandle, FS_CardinalityType
  <2>6. Cardinality(S \cup Markers(i))
          = Cardinality(S) + Cardinality(Markers(i)) - Cardinality({})
    BY <2>1, <2>2, FinitelyManyHandle, FS_Union
  <2>7. Cardinality(S) + Cardinality(Markers(i)) <= Concurrency
    BY <2>4, <2>5, <2>6, FS_EmptySet
  <2>8. QED
    BY <2>5, <2>7 DEF S
<1>5. Cardinality(Takers(i) \cup {p}) \in Nat
  BY FinitelyManyHandle, FS_AddElement, FS_CardinalityType
<1>6. handled[i] + Cardinality(Takers(i) \cup {p}) <= Concurrency
  BY <1>3, <1>4, <1>5, FinitelyManyHandle, DedupNumbers, Caps
<1>7. UNCHANGED <<dedup, handled, handledLeft>>
  BY DEF Takes
<1>8. RoomToHandle'
  BY <1>1, <1>6, <1>7 DEF DedupInv, RoomToHandle
<1>9. UnmarkedCounted' /\ KeyOutlives'
  BY <1>1, <1>7 DEF DedupInv, UnmarkedCounted, KeyOutlives
<1>10. QED
  BY <1>8, <1>9 DEF DedupInv

\* Handling moves a pod from those that have taken the incident to those that are
\* about to mark it.
LEMMA HandlesStep ==
  ASSUME TypeOK, DedupInv, NEW p \in Pods, Handles(p),
         NEW i \in Incidents, i = cur[p]
  PROVE  DedupInv'
<1> USE DEF TypeOK, LoopTypes, TakenLabels, HandledLabels
<1>1. /\ p \in Takers(i) /\ Takers(i)' = Takers(i) \ {p}
      /\ p \notin Markers(i) /\ Markers(i)' = Markers(i) \cup {p}
  BY DEF Handles, Takers, Markers
<1>2. ASSUME NEW j \in Incidents, j # i
      PROVE  Takers(j)' = Takers(j) /\ Markers(j)' = Markers(j)
  BY <1>2 DEF Handles, Takers, Markers
<1>3. /\ handledLeft'[i] = DedupTTL[i] /\ handled'[i] <= handled[i] + 1
      /\ \A j \in Incidents : j # i => /\ handled'[j] = handled[j]
                                       /\ handledLeft'[j] = handledLeft[j]
  BY HandleStep DEF Handles
<1>4. handled'[i] \in Nat
  <2>1. handled' \in [Incidents -> 0..HandledCap]
    BY HandleTypes DEF Handles
  <2>2. QED
    BY <2>1, Caps
<1>5. dedup' = dedup
  BY DEF Handles
<1>6. Cardinality(Takers(i)') = Cardinality(Takers(i)) - 1
  <2>1. IsFiniteSet(Takers(i))
    BY FinitelyManyHandle
  <2>2. Cardinality(Takers(i) \ {p}) = Cardinality(Takers(i)) - 1
    BY <1>1, <2>1, FS_RemoveElement
  <2>3. QED
    BY <1>1, <2>2
<1>7. Cardinality(Markers(i)') = Cardinality(Markers(i)) + 1
  <2>1. Cardinality(Markers(i) \cup {p}) = Cardinality(Markers(i)) + 1
    BY <1>1, FinitelyManyHandle, FS_AddElement
  <2>2. QED
    BY <1>1, <2>1
<1>8. RoomToHandle'
  <2>1. handled'[i] + Cardinality(Takers(i)') <= Concurrency
    BY <1>3, <1>4, <1>6, FinitelyManyHandle, DedupNumbers, Caps
       DEF DedupInv, RoomToHandle
  <2>2. QED
    BY <1>2, <1>3, <2>1 DEF DedupInv, RoomToHandle
<1>9. UnmarkedCounted'
  <2>1. dedup'[i] = 0 => handled'[i] <= Cardinality(Markers(i)')
    BY <1>3, <1>4, <1>5, <1>7, FinitelyManyHandle, DedupNumbers
       DEF DedupInv, UnmarkedCounted
  <2>2. QED
    BY <1>2, <1>3, <1>5, <2>1 DEF DedupInv, UnmarkedCounted
<1>10. KeyOutlives'
  <2>1. Markers(i)' # {}
    BY <1>1
  <2>2. QED
    BY <1>2, <1>3, <1>5, <2>1 DEF DedupInv, KeyOutlives
<1>11. QED
  BY <1>8, <1>9, <1>10 DEF DedupInv

\* A mark that reaches Redis gives the key the whole TTL to live.
LEMMA MarksStep ==
  ASSUME TypeOK, DedupInv, redisUp, NEW p \in Pods, MarkIncident(p),
         NEW i \in Incidents, i = cur[p]
  PROVE  DedupInv'
<1> USE DEF TypeOK, LoopTypes, TakenLabels, HandledLabels
<1>1. /\ pc[p] \in {"mark", "markOk"}
      /\ pc' = [pc EXCEPT ![p] = IF pc[p] = "mark" THEN "next" ELSE "dispatch"]
      /\ UNCHANGED <<cur, handled, handledLeft>>
      /\ dedup' = [dedup EXCEPT ![i] = DedupTTL[i]]
  BY DEF MarkIncident, Goto, history
<1>2. ASSUME NEW j \in Incidents
      PROVE  Takers(j)' = Takers(j) /\ (j # i => Markers(j)' = Markers(j))
  BY <1>1 DEF Takers, Markers
<1>3. ASSUME NEW j \in Incidents
      PROVE  dedup'[j] = IF j = i THEN DedupTTL[i] ELSE dedup[j]
  BY <1>1, Zenon DEF KeyTypes
<1>4. RoomToHandle'
  BY <1>1, <1>2 DEF DedupInv, RoomToHandle
<1>5. UnmarkedCounted'
  BY <1>1, <1>2, <1>3, DedupNumbers DEF DedupInv, UnmarkedCounted
<1>6. KeyOutlives'
  BY <1>1, <1>2, <1>3, DedupNumbers DEF DedupInv, KeyOutlives
<1>7. QED
  BY <1>4, <1>5, <1>6 DEF DedupInv

\* While time passes nobody is between handling and marking: the key is gone only
\* when the time of the incident is over too, and its count with it.
LEMMA TickDedupStep ==
  ASSUME TypeOK, DedupInv, Tick
  PROVE  DedupInv'
<1>1. ASSUME NEW i
      PROVE  /\ Markers(i) = {} /\ Markers(i)' = {}
             /\ Takers(i)' = Takers(i)
  BY DEF Tick, Acting, Markers, Takers, HandledLabels
<1>2. Cardinality({}) = 0
  BY FS_EmptySet
<1>3. ASSUME NEW i \in Incidents
      PROVE  /\ dedup'[i] = Less(dedup[i]) /\ handledLeft'[i] = Less(handledLeft[i])
             /\ handled'[i] = IF handledLeft[i] <= 1 THEN 0 ELSE handled[i]
  BY DEF Tick
<1>4. ASSUME NEW i \in Incidents
      PROVE  /\ handledLeft[i] <= dedup[i]
             /\ dedup[i] = 0 => handled[i] = 0
  <2>1. handledLeft[i] <= dedup[i]
    BY <1>1 DEF DedupInv, KeyOutlives
  <2>2. dedup[i] = 0 => handled[i] <= Cardinality({})
    BY <1>1 DEF DedupInv, UnmarkedCounted
  <2>3. QED
    BY <1>2, <2>1, <2>2, DedupNumbers
<1>5. RoomToHandle'
  <2>1. ASSUME NEW i \in Incidents
        PROVE  handled'[i] + Cardinality(Takers(i)') <= Concurrency
    <3>1. handled[i] + Cardinality(Takers(i)) <= Concurrency
      BY DEF DedupInv, RoomToHandle
    <3>2. Cardinality(Takers(i)') = Cardinality(Takers(i))
      BY <1>1
    <3>3. handled'[i] <= handled[i] /\ handled'[i] \in Nat
      BY <1>3, DedupNumbers
    <3>4. QED
      BY <3>1, <3>2, <3>3, FinitelyManyHandle, DedupNumbers, Caps
  <2>2. QED
    BY <2>1 DEF RoomToHandle
<1>6. UnmarkedCounted'
  <2>1. ASSUME NEW i \in Incidents, dedup'[i] = 0
        PROVE  handled'[i] <= Cardinality(Markers(i)')
    <3>1. handled'[i] = 0
      BY <1>3, <1>4, <2>1, DedupNumbers DEF Less
    <3>2. Cardinality(Markers(i)') = 0
      BY <1>1, <1>2
    <3>3. QED
      BY <3>1, <3>2
  <2>2. QED
    BY <2>1 DEF UnmarkedCounted
<1>7. KeyOutlives'
  <2>1. ASSUME NEW i \in Incidents
        PROVE  handledLeft'[i] <= dedup'[i]
    BY <1>3, <1>4, DedupNumbers, Counters
  <2>2. QED
    BY <2>1 DEF KeyOutlives
<1>8. QED
  BY <1>5, <1>6, <1>7 DEF DedupInv

\* With Redis reachable and no pod dying between handling an incident and marking
\* it, each concurrent leader handles an incident at most once while the TTL since
\* it was last handled lasts: is_duplicate_incident and mark_incident are minutes
\* apart, and still one leader alone never acts twice.
THEOREM IncidentsAreHandledOnce ==
  ASSUME ~Crashes, ~RedisFaults
  PROVE  Spec => []HandledOncePerTTL
<1> DEFINE Inv == redisUp /\ Excluded /\ DedupInv
<1>1. Init => Inv
  <2> SUFFICES ASSUME Init
               PROVE  Inv
    OBVIOUS
  <2>1. \A i : Takers(i) = {} /\ Markers(i) = {}
    BY DEF Init, Takers, Markers, TakenLabels, HandledLabels
  <2>2. redisUp /\ Excluded
    BY DEF Init, Excluded, InRun, Acting
  <2>3. \A i : Cardinality(Takers(i)) = 0 /\ Cardinality(Markers(i)) = 0
    BY <2>1, FS_EmptySet
  <2>4. \A i \in Incidents : handled[i] = 0 /\ handledLeft[i] = 0 /\ dedup[i] = 0
    BY DEF Init
  <2>5. DedupInv
    BY <2>3, <2>4, Caps DEF DedupInv, UnmarkedCounted, KeyOutlives, RoomToHandle
  <2>6. QED
    BY <2>2, <2>5
<1>2. TypeOK /\ HandlesIncident /\ Inv /\ [Next]_vars => Inv'
  <2> SUFFICES ASSUME TypeOK, HandlesIncident, Inv, [Next]_vars
               PROVE  Inv'
    OBVIOUS
  <2>1. redisUp'
    BY DEF Next, Step, StartRun, CheckMaintenance, Elect, Observe,
           NextAnomaly, FinishRun, Diagnose, CheckLimit, Restart, RecordRestart,
           MarkIncident, Dispatch, LoopError, Crash, RunVerification, SetRedis,
           SetMaintenance, Tick, redis, vars
  <2>2. Excluded'
    BY ExcludedStep
  <2>3. ASSUME NEW p \in Pods
        PROVE  ~Crash(p)
    BY DEF Crash
  <2>4. ASSUME NEW p \in Pods, Handles(p) \/ MarkIncident(p)
        PROVE  DedupInv'
    <3>1. cur[p] \in Incidents
      BY <2>4 DEF Handles, MarkIncident, TakenLabels, HandlesIncident, Handling, Acting
    <3>2. QED
      BY <2>4, <3>1, HandlesStep, MarksStep
  <2>5. DedupInv'
    BY <2>3, <2>4, StepKinds, QuietStep, TickDedupStep, TakesStep
  <2>6. QED
    BY <2>1, <2>2, <2>5
<1>3. TypeOK /\ Inv => HandledOncePerTTL
  <2> SUFFICES ASSUME TypeOK, Inv, NEW i \in Incidents
               PROVE  handled[i] <= Concurrency
    BY DEF HandledOncePerTTL
  <2>1. handled[i] + Cardinality(Takers(i)) <= Concurrency
    BY DEF DedupInv, RoomToHandle
  <2>2. QED
    BY <2>1, FinitelyManyHandle, DedupNumbers, Caps
<1>4. QED
  BY <1>1, <1>2, <1>3, TypeCorrect, PTL DEF Spec
=============================================================================
