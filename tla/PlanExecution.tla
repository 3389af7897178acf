---------------------------- MODULE PlanExecution ----------------------------
(***************************************************************************)
(* What the pipeline of the chat promises for one plan at a time, without  *)
(* batches, thread pool, backpressure or a limit of supersteps: every step *)
(* is executed once, a REASONING step when all the steps before it have    *)
(* their results and before all that follow it, and an answer is judged    *)
(* when the whole plan is executed, or the request is given up.            *)
(* ChatWorkflow implements it.                                             *)
(***************************************************************************)
EXTENDS Integers, Sequences

CONSTANTS
  Kinds,         \* kinds of steps, "REASONING" among them
  MaxPlanSteps,  \* MAX_PLAN_STEPS
  MaxRetries     \* MAX_RETRIES of the supervisor

VARIABLES
  stage,     \* "idle", "planning" or "executing"
  steps,     \* the plan
  times,     \* of a position: how often the step was started
  finished,  \* positions whose step has its result
  attempt

vars == <<stage, steps, times, finished, attempt>>

Positions == 1..MaxPlanSteps

Nothing == [n \in Positions |-> 0]

Clear ==
  /\ steps' = <<>>
  /\ times' = Nothing
  /\ finished' = {}

Init ==
  /\ stage = "idle"
  /\ steps = <<>>
  /\ times = Nothing
  /\ finished = {}
  /\ attempt = 0

Begin ==
  /\ stage = "idle"
  /\ stage' = "planning"
  /\ UNCHANGED <<steps, times, finished, attempt>>

Adopt ==
  /\ stage = "planning"
  /\ stage' = "executing"
  /\ steps' \in Seq(Kinds)
  /\ Len(steps') \in Positions
  /\ UNCHANGED <<times, finished, attempt>>

\* The steps whose results step n waits for.
Before(n) ==
  {m \in 1..(n - 1) : steps[n] = "REASONING" \/ steps[m] = "REASONING"}

Start(n) ==
  /\ times[n] = 0
  /\ Before(n) \subseteq finished
  /\ times' = [times EXCEPT ![n] = 1]

\* A step starts, with its result at once or later.
Execute(n) ==
  /\ stage = "executing"
  /\ Start(n)
  /\ finished' \in {finished, finished \cup {n}}
  /\ UNCHANGED <<stage, steps, attempt>>

Finish(n) ==
  /\ stage = "executing"
  /\ times[n] = 1
  /\ finished' = finished \cup {n}
  /\ UNCHANGED <<stage, steps, times, attempt>>

\* The whole plan is executed: the answer is accepted or planned anew.
Judge ==
  /\ stage = "executing"
  /\ finished = DOMAIN steps
  /\ \/ stage' = "idle" /\ attempt' = 0
     \/ stage' = "planning" /\ attempt < MaxRetries /\ attempt' = attempt + 1
  /\ Clear

\* An exception, or the end of the pod.
GiveUp ==
  /\ stage # "idle"
  /\ stage' = "idle"
  /\ attempt' = 0
  /\ Clear

Next ==
  \/ Begin \/ Adopt \/ Judge \/ GiveUp
  \/ \E n \in DOMAIN steps : Execute(n) \/ Finish(n)

Spec == Init /\ [][Next]_vars
==============================================================================
