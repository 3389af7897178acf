------------------------------- MODULE MCParts -------------------------------
(***************************************************************************)
(* Parts of the system that share no state, each a specification of its    *)
(* own: the breaker of the SRE loop, the breaker of the chat services,     *)
(* what the SRE agent learns from its restarts, and the life of the pods.  *)
(* A behaviour is a behaviour of one of them; the others stay as they      *)
(* start.                                                                  *)
(***************************************************************************)
EXTENDS LoopBreaker, FiniteSets

VARIABLE part

-----------------------------------------------------------------------------
VARIABLES sState, sStateTTL, sFailures, sFailuresTTL, sOpenedAge, sPc, sFaults, older

service == <<sState, sStateTTL, sFailures, sFailuresTTL, sOpenedAge, sPc, sFaults, older>>

CONSTANTS Callers, FailureThreshold, Recovery, MaxCommandFaults

ASSUME ServiceAssumption == Recovery \in Nat

Service ==
  INSTANCE ServiceBreaker WITH
    Threshold <- FailureThreshold, MaxFaults <- MaxCommandFaults,
    state <- sState, stateTTL <- sStateTTL, failures <- sFailures,
    failuresTTL <- sFailuresTTL, openedAge <- sOpenedAge, pc <- sPc, faults <- sFaults

-----------------------------------------------------------------------------
VARIABLES sets, recent, healthy, rows, order, pc, key, conf, jobs, rollouts, faults, basis

remedy == <<sets, recent, healthy, rows, order, pc, key, conf, jobs, rollouts, faults, basis>>

CONSTANTS Keys, Versions, Sound, LLM, Fallback, Confident, MaxRollouts, MaxQueryFaults

\* Confidences in percent; a restart takes more than the LLM alone is worth.
ASSUME RemedyAssumption ==
  LLM \cup {Fallback} \subseteq 0..100 /\ Confident \in 71..100

Remedy ==
  INSTANCE Remediation WITH Threshold <- Confident, MaxFaults <- MaxQueryFaults

-----------------------------------------------------------------------------
VARIABLES up, phase, tries, pool, client, points, loop, run, ready, tables,
          collection, runbooks, auto, starts, lFaults, disturbed, partial

pods == <<up, phase, tries, pool, client, points, loop, run, ready, tables,
          collection, runbooks, auto, starts, lFaults, disturbed, partial>>

CONSTANTS Pods, Files, Retries, MaxStarts, MaxPodFaults, MaxCopies

ASSUME LifeAssumption == MaxCopies \in Nat \ {0}

Life == INSTANCE Lifecycle WITH MaxFaults <- MaxPodFaults, faults <- lFaults

-----------------------------------------------------------------------------
AllInit ==
  /\ part \in {"loop", "service", "remedy", "pods"}
  /\ Init
  /\ Service!Init
  /\ Remedy!Init
  /\ Life!Init
  /\ part # "remedy" => key = CHOOSE k \in Keys : TRUE

LoopNext == part = "loop" /\ Next /\ UNCHANGED <<service, remedy, pods>>

ServiceNext == part = "service" /\ Service!Next /\ UNCHANGED <<vars, remedy, pods>>

RemedyNext == part = "remedy" /\ Remedy!Next /\ UNCHANGED <<vars, service, pods>>

PodsNext == part = "pods" /\ Life!Next /\ UNCHANGED <<vars, service, remedy>>

AllNext ==
  /\ UNCHANGED part
  /\ LoopNext \/ ServiceNext \/ RemedyNext \/ PodsNext

AllSpec ==
  /\ AllInit /\ [][AllNext]_<<part, vars, service, remedy, pods>>
  /\ WF_vars(part = "loop" /\ Fire)
  /\ WF_vars(part = "loop" /\ Finish)
  /\ WF_vars(part = "loop" /\ Tick)
  /\ \A p \in Pods :
       /\ WF_pods(part = "pods" /\ Life!StartupNext(p))
       /\ WF_pods(part = "pods" /\ Life!Probe(p))

-----------------------------------------------------------------------------
\* Only a use that began before an opening cuts its pause short.
PauseEndsByOlderUse == Service!PauseEndsByOlderUse

\* A deployment that restarts never helped is not restarted again.
UselessRestartsStop == Remedy!UselessRestartsStop

\* A pod that starts undisturbed finds or makes the runbooks.
UndisturbedStartIndexes == Life!UndisturbedStartIndexes

\* A pod that serves becomes ready again when the services have come back.
ReadyAgain == Life!ReadyAgain
==============================================================================
