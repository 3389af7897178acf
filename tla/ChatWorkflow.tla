---------------------------- MODULE ChatWorkflow ----------------------------
(***************************************************************************)
(* The LangGraph pipeline that answers a chat request                      *)
(* (orchestration/workflow_engine.py): planner, grouper, batch executor    *)
(* and supervisor, with the thread pool and the backpressure of a parallel *)
(* batch (agents/executor/batch_runner.py).                                *)
(*                                                                         *)
(* graph.invoke is a synchronous call inside a coroutine and uvicorn has   *)
(* one worker, so that a pod runs one pipeline at a time.  What the        *)
(* requests of a pod share is the counter of pending steps.                *)
(*                                                                         *)
(* A step of the plan is its position and its kind.  A text is the set of  *)
(* the steps whose results went into it, each with the attempt it was made *)
(* in; {} is the empty text.                                               *)
(***************************************************************************)
EXTENDS Integers, Sequences, FiniteSets

CONSTANTS
  Requests,
  NoRequest,
  Dashboards,          \* requests that ask for a dashboard: the fast paths
  MaxRawSteps,         \* steps the LLM plans (bound)
  MaxPlanSteps,        \* MAX_PLAN_STEPS, at least the two steps of a fast path
  MaxGraphIterations,  \* MAX_GRAPH_ITERATIONS
  MaxRetries,          \* MAX_RETRIES of the supervisor
  RecursionLimit,      \* recursion_limit of LangGraph, its default
  MaxConcurrentSteps,  \* _MAX_CONCURRENT_STEPS
  MaxQueueDepth,       \* _MAX_QUEUE_DEPTH
  PodDies              \* may the pod be killed in the middle

ASSUME WorkflowAssumption ==
  /\ NoRequest \notin Requests /\ Dashboards \subseteq Requests
  /\ MaxRawSteps \in Nat /\ MaxPlanSteps \in Nat \ {0, 1}
  /\ MaxGraphIterations = MaxPlanSteps + 2
  /\ MaxRetries \in Nat /\ RecursionLimit \in Nat
  /\ MaxConcurrentSteps \in Nat \ {0} /\ MaxQueueDepth \in Nat

VARIABLES
  status,       \* of each request
  active,       \* the request whose pipeline occupies the event loop
  node,         \* the node of the graph that runs next, or what it is doing
  supersteps,   \* supersteps of the graph so far
  plan, batches, currentBatch, retryCount,        \* AgentState
  answer,       \* final_answer
  context,      \* context: results of retrievals
  pendingSteps, \* _pending_steps
  queued, waiting, running, done, \* steps of the parallel batch: in the pool's
                \* queue, at the semaphore, in their tool, with a result
  ran           \* history: how often each step of the plan was executed

pool    == <<pendingSteps, queued, waiting, running, done>>
agState == <<plan, batches, currentBatch, retryCount, answer, context>>
vars == <<status, active, node, supersteps, agState, pool, ran>>

Kinds == {"TOOL", "RAG_RETRIEVAL", "REASONING"}
RawKinds == Kinds \cup {"INVALID"}
Positions == 1..MaxPlanSteps
Sources == (0..MaxRetries) \X Positions

Nodes == {"none", "planner", "grouper", "batch_executor", "pool", "supervisor"}
Ended == {"answered", "failed", "lost"}

TypeOK ==
  /\ status \in [Requests -> {"new", "running"} \cup Ended]
  /\ active \in Requests \cup {NoRequest}
  /\ node \in Nodes
  /\ supersteps \in 0..RecursionLimit
  /\ plan \in Seq(Kinds) /\ Len(plan) <= MaxPlanSteps
  /\ batches \in Seq(SUBSET Positions)
  /\ currentBatch \in 0..MaxGraphIterations
  /\ retryCount \in 0..MaxRetries
  /\ answer \subseteq Sources /\ context \subseteq Sources
  /\ pendingSteps \in 0..MaxQueueDepth
  /\ queued \subseteq Positions /\ waiting \subseteq Positions
  /\ running \subseteq Positions /\ done \subseteq Positions
  /\ ran \in [Positions -> Nat]

Init ==
  /\ status = [r \in Requests |-> "new"]
  /\ active = NoRequest /\ node = "none" /\ supersteps = 0
  /\ plan = <<>> /\ batches = <<>> /\ currentBatch = 0 /\ retryCount = 0
  /\ answer = {} /\ context = {}
  /\ pendingSteps = 0
  /\ queued = {} /\ waiting = {} /\ running = {} /\ done = {}
  /\ ran = [n \in Positions |-> 0]

-----------------------------------------------------------------------------
(* Pure parts                                                              *)

Least(m, n) == IF m < n THEN m ELSE n

\* The steps that are valid, as the loop of _validate_plan collects them.
Validated(raw) ==
  LET valid[n \in 0..Len(raw)] ==
        IF n = 0 THEN <<>>
        ELSE IF raw[n] = "INVALID" THEN valid[n - 1]
        ELSE Append(valid[n - 1], raw[n])
  IN valid[Len(raw)]

\* Mutant: the plan is not cut to the maximal length.
ValidateAll(raw) == Validated(raw)

\* _validate_plan drops the invalid steps, then the steps beyond the maximum.
ValidatePlan(raw) ==
  SubSeq(Validated(raw), 1, Least(Len(Validated(raw)), MaxPlanSteps))

\* _apply_fast_paths: a fixed plan for a question about a dashboard.
FastPath(r, steps) == IF r \in Dashboards THEN <<"TOOL", "REASONING">> ELSE steps

\* group_plan_into_batches: neighbouring tools share a batch, a REASONING step is
\* a batch of its own.  A batch is the set of its positions; before step n + 1 of
\* the plan the loop has the batches `full` and the tools `open`.
Flush(b) == IF b.open = {} THEN b.full ELSE Append(b.full, b.open)

Collected(steps) ==
  LET collected[n \in 0..Len(steps)] ==
        IF n = 0 THEN [full |-> <<>>, open |-> {}]
        ELSE IF steps[n] = "REASONING"
        THEN [full |-> Append(Flush(collected[n - 1]), {n}), open |-> {}]
        ELSE [full |-> collected[n - 1].full, open |-> collected[n - 1].open \cup {n}]
  IN collected

GroupPlan(steps) == Flush(Collected(steps)[Len(steps)])

Source(n) == <<retryCount, n>>

\* The texts of the retrievals among some steps go into the context.
Retrieved(steps) == {Source(n) : n \in {k \in steps : plan[k] = "RAG_RETRIEVAL"}}

Count(steps) == ran' = [n \in Positions |-> ran[n] + (IF n \in steps THEN 1 ELSE 0)]

\* should_continue.
ShouldContinue(current) ==
  IF current < Least(MaxGraphIterations, Len(batches))
  THEN "batch_executor" ELSE "supervisor"

-----------------------------------------------------------------------------
(* The graph                                                               *)

\* run_workflow: the request gets the event loop and an initial state.
RunWorkflow(r) ==
  /\ active = NoRequest
  /\ status[r] = "new"
  /\ status' = [status EXCEPT ![r] = "running"]
  /\ active' = r
  /\ node' = "planner"
  /\ UNCHANGED <<supersteps, agState, pool, ran>>

\* The pipeline of the active request is over; its AgentState is gone.
End(outcome) ==
  /\ status' = [status EXCEPT ![active] = outcome]
  /\ active' = NoRequest /\ node' = "none" /\ supersteps' = 0
  /\ plan' = <<>> /\ batches' = <<>> /\ currentBatch' = 0 /\ retryCount' = 0
  /\ answer' = {} /\ context' = {}
  /\ ran' = [n \in Positions |-> 0]

\* LangGraph runs a node only while the limit of supersteps is not reached.
At(name) == node = name /\ supersteps < RecursionLimit

Counted == supersteps' = supersteps + 1

\* planner_node: whatever the LLM plans; an unusable plan becomes one REASONING.
Planner ==
  /\ At("planner") /\ Counted
  /\ \E len \in 0..MaxRawSteps : \E raw \in [1..len -> RawKinds] :
       LET valid == ValidatePlan(raw)
       IN plan' = FastPath(active, IF valid = <<>> THEN <<"REASONING">> ELSE valid)
  /\ ran' = [n \in Positions |-> 0]
  /\ node' = "grouper"
  /\ UNCHANGED <<status, active, batches, currentBatch, retryCount, answer,
                 context, pool>>

Grouper ==
  /\ At("grouper") /\ Counted
  /\ batches' = GroupPlan(plan)
  /\ currentBatch' = 0
  /\ node' = "batch_executor"
  /\ UNCHANGED <<status, active, plan, retryCount, answer, context, pool, ran>>

Batch == batches[currentBatch + 1]

\* What batch_executor_node returns and where the graph goes on.
BatchDone(text, retrieved) ==
  /\ answer' = text
  /\ context' = context \cup retrieved
  /\ currentBatch' = currentBatch + 1
  /\ node' = ShouldContinue(currentBatch + 1)
  /\ UNCHANGED <<status, active, plan, batches, retryCount>>

\* run_reasoning_step: the LLM sees the current final_answer, and nothing of the
\* context; it may answer with nothing but its thoughts.
Reasoning ==
  /\ At("batch_executor") /\ Counted
  /\ \E n \in Batch :
       /\ Batch = {n} /\ plan[n] = "REASONING"
       /\ Count({n})
       /\ \E text \in {answer \cup {Source(n)}, {}} : BatchDone(text, {})
  /\ UNCHANGED pool

\* run_tool_step alone: no backpressure; errors are texts, a tool may return "".
SingleTool ==
  /\ At("batch_executor") /\ Counted
  /\ \E n \in Batch :
       /\ Batch = {n} /\ plan[n] # "REASONING"
       /\ Count({n})
       /\ \E text \in {{Source(n)}, {}} :
            BatchDone(text, IF text = {} THEN {} ELSE Retrieved({n}))
  /\ UNCHANGED pool

\* run_parallel_batch up to the pool: the batch is turned away if too many steps
\* are pending, with a text that is the result of none of the steps.
ParallelBatch ==
  /\ At("batch_executor") /\ Counted
  /\ Cardinality(Batch) > 1
  /\ IF pendingSteps + Cardinality(Batch) > MaxQueueDepth
     THEN /\ BatchDone({}, {})
          /\ UNCHANGED <<pendingSteps, queued>>
     ELSE /\ pendingSteps' = pendingSteps + Cardinality(Batch)
          /\ queued' = Batch
          /\ node' = "pool"
          /\ UNCHANGED <<status, active, agState>>
  /\ UNCHANGED <<waiting, running, done, ran>>

\* A free worker of the pool takes a step: _run_tool_step_guarded counts it as no
\* longer pending before it asks for the semaphore.
StartStep(n) ==
  /\ n \in queued
  /\ Cardinality(waiting \cup running) < Least(Cardinality(Batch), MaxConcurrentSteps)
  /\ queued' = queued \ {n}
  /\ waiting' = waiting \cup {n}
  /\ pendingSteps' = pendingSteps - 1
  /\ UNCHANGED <<status, active, node, supersteps, agState, running, done, ran>>

AcquireSemaphore(n) ==
  /\ n \in waiting
  /\ Cardinality(running) < MaxConcurrentSteps
  /\ waiting' = waiting \ {n}
  /\ running' = running \cup {n}
  /\ Count({n})
  /\ UNCHANGED <<status, active, node, supersteps, agState, pendingSteps, queued,
                 done>>

\* Mutant: a tool that raises leaves no result behind.
FinishLost(n) ==
  /\ n \in running
  /\ running' = running \ {n}
  /\ done' \in {done, done \cup {n}}
  /\ UNCHANGED <<status, active, node, supersteps, agState, pendingSteps, queued,
                 waiting, ran>>

\* run_tool_step returns a text, of the tool or of its error.
FinishStep(n) ==
  /\ n \in running
  /\ running' = running \ {n}
  /\ done' = done \cup {n}
  /\ UNCHANGED <<status, active, node, supersteps, agState, pendingSteps, queued,
                 waiting, ran>>

\* Mutant: the batch is collected when every step has been taken by a worker.
CollectEarly ==
  /\ node = "pool"
  /\ queued = {} /\ waiting = {}
  /\ done' = {}
  /\ BatchDone({Source(n) : n \in Batch}, Retrieved(Batch))
  /\ UNCHANGED <<supersteps, pendingSteps, queued, waiting, running, ran>>

\* All futures are done; the results are joined in the order of the batch.
CollectBatch ==
  /\ node = "pool"
  /\ done = Batch
  /\ done' = {}
  /\ BatchDone({Source(n) : n \in Batch}, Retrieved(Batch))
  /\ UNCHANGED <<supersteps, pendingSteps, queued, waiting, running, ran>>

\* The decision of evaluate: the wish of the LLM, REPLAN for an empty answer,
\* ACCEPT when the LLM fails and when the retries are used up.
Decision(wish) ==
  IF wish = "REPLAN" /\ retryCount < MaxRetries THEN "REPLAN" ELSE "ACCEPT"

\* supervisor_node and supervisor_routing.
Supervisor ==
  /\ At("supervisor")
  /\ \E wish \in IF answer = {} THEN {"REPLAN"} ELSE {"ACCEPT", "REPLAN"} :
       LET retry == retryCount + IF Decision(wish) = "REPLAN" THEN 1 ELSE 0
       IN IF Decision(wish) = "REPLAN" /\ retry <= MaxRetries
          THEN /\ retryCount' = retry
               /\ node' = "planner"
               /\ Counted
               /\ UNCHANGED <<status, active, plan, batches, currentBatch, answer,
                              context, ran>>
          ELSE End("answered")
  /\ UNCHANGED pool

\* Where an exception leaves the graph: LangGraph raises at its limit, the LLM in
\* the planner and in a REASONING step; tools and supervisor catch theirs.
Raising ==
  IF supersteps = RecursionLimit THEN Nodes \ {"none", "pool"}
  ELSE IF node = "batch_executor" /\ \E n \in Batch : plan[n] = "REASONING"
  THEN {"batch_executor"} ELSE {"planner"}

RequestFails ==
  /\ node \in Raising
  /\ End("failed")
  /\ UNCHANGED pool

\* The pod is killed, by the liveness probe that the blocked event loop does not
\* answer or by a rollout; another starts with nothing in memory.
PodRestarts ==
  /\ PodDies
  /\ active # NoRequest
  /\ End("lost")
  /\ pendingSteps' = 0
  /\ queued' = {} /\ waiting' = {} /\ running' = {} /\ done' = {}

-----------------------------------------------------------------------------
PoolStep ==
  \/ \E n \in Positions : StartStep(n) \/ AcquireSemaphore(n) \/ FinishStep(n)
  \/ CollectBatch

GraphStep ==
  \/ Planner \/ Grouper \/ Reasoning \/ SingleTool \/ ParallelBatch
  \/ Supervisor \/ RequestFails

Next ==
  \/ \E r \in Requests : RunWorkflow(r)
  \/ GraphStep \/ PoolStep \/ PodRestarts

Spec == Init /\ [][Next]_vars

\* The event loop takes up every request; LLM calls have timeouts, tools return.
Fairness ==
  /\ \A r \in Requests : WF_vars(RunWorkflow(r))
  /\ WF_vars(GraphStep) /\ WF_vars(PoolStep)

FairSpec == Spec /\ Fairness

-----------------------------------------------------------------------------
\* However the LLM plans and however often the supervisor sends back, the pipeline
\* stays within the recursion limit of LangGraph, which no line of the code sets
\* and which would turn a finished answer into an error.
NeverCut ==
  node \in {"planner", "grouper", "batch_executor", "supervisor"}
    => supersteps < RecursionLimit

\* The plan as it is visible from outside: between two plans there is none.
Planned == node \notin {"none", "planner"}

Execution ==
  INSTANCE PlanExecution WITH
    stage <- CASE node = "none" -> "idle"
               [] node = "planner" -> "planning"
               [] OTHER -> "executing",
    steps <- IF Planned THEN plan ELSE <<>>,
    times <- IF Planned THEN ran ELSE [n \in Positions |-> 0],
    finished <- IF Planned THEN {n \in Positions : ran[n] > 0} \ running ELSE {},
    attempt <- retryCount

\* Grouper, loop over the batches, thread pool and supervisor together keep the
\* promise of PlanExecution: every step once, REASONING steps in order with all
\* the results before them, and no answer judged before its plan was executed.
ExecutesPlan == Execution!Spec

\* Every request comes to an end, with an answer, an error or the end of its pod.
RequestEnds ==
  \A r \in Requests : status[r] = "new" ~> status[r] \in Ended

\* "Recibe el contexto acumulado (final_answer + context del estado)": what a
\* REASONING step writes rests on all retrievals so far.
SynthesisUsesContext ==
  [][\A n \in DOMAIN plan :
       plan[n] = "REASONING" /\ ran'[n] > ran[n] /\ answer' # {}
         => context \subseteq answer']_vars
=============================================================================
