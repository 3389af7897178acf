------------------------------ MODULE TestRuns ------------------------------
(***************************************************************************)
(* Phanuel runs the tests (agents/qa/agent.py): it asks GitHub to start    *)
(* the workflow on a branch, sleeps until GitHub has surely made a run of  *)
(* it, and then polls the youngest run of the branch until that is over.   *)
(* Pushes to the branch and other requests start runs too, and GitHub does *)
(* not say which run is whose.                                             *)
(***************************************************************************)
EXTENDS Integers, Sequences, FiniteSets

CONSTANTS
  Requests,
  Sleep,        \* 5 seconds, in ticks
  Interval,     \* _POLL_INTERVAL
  Timeout,      \* _POLL_TIMEOUT
  Registering,  \* ticks GitHub takes at most to make a run of a dispatch
  MaxRuns       \* bound: runs ever made

VARIABLES
  runs,      \* status of each run of the branch, the oldest first
  pc,        \* where each request is
  due,       \* ticks until it goes on
  age,       \* ticks since its dispatch
  own,       \* the run made of its dispatch
  reported   \* the run whose conclusion it answered with

vars == <<runs, pc, due, age, own, reported>>

NoRun == 0

TypeOK ==
  /\ runs \in Seq({"in_progress", "completed"}) /\ Len(runs) <= MaxRuns
  /\ pc \in [Requests -> {"new", "poll", "failed", "timeout", "done"}]
  /\ due \in [Requests -> 0..(Sleep + Interval)]
  /\ age \in [Requests -> 0..(Sleep + Timeout + Interval)]
  /\ own \in [Requests -> 0..MaxRuns]
  /\ reported \in [Requests -> 0..MaxRuns]

Init ==
  /\ runs \in {<<>>, <<"completed">>, <<"in_progress">>}
  /\ pc = [r \in Requests |-> "new"]
  /\ due = [r \in Requests |-> 0]
  /\ age = [r \in Requests |-> 0]
  /\ own = [r \in Requests |-> NoRun]
  /\ reported = [r \in Requests |-> NoRun]

\* A poll at its time.
Due(r) == pc[r] = "poll" /\ due[r] = 0

OutOfTime(r) == age[r] >= Sleep + Timeout

\* GitHub owes a run.
Owed(r) == pc[r] \in {"poll", "done", "timeout"} /\ own[r] = NoRun

-----------------------------------------------------------------------------
\* Mutant: the first poll comes at once.
DispatchAndPoll(r) ==
  /\ pc[r] = "new"
  /\ pc' = [pc EXCEPT ![r] = "poll"]
  /\ UNCHANGED <<runs, due, age, own, reported>>

\* _run_tests: the dispatch that GitHub accepts or refuses, and the sleep.
Dispatch(r) ==
  /\ pc[r] = "new"
  /\ \/ /\ pc' = [pc EXCEPT ![r] = "poll"]
        /\ due' = [due EXCEPT ![r] = Sleep]
     \/ /\ pc' = [pc EXCEPT ![r] = "failed"]
        /\ UNCHANGED due
  /\ UNCHANGED <<runs, age, own, reported>>

\* _build_result: the conclusion of a run is the answer.
Conclude(r, run) ==
  /\ reported' = [reported EXCEPT ![r] = run]
  /\ pc' = [pc EXCEPT ![r] = "done"]

\* _poll_latest_run: the youngest run, if any, whoever started it.
Poll(r) ==
  LET youngest == Len(runs) IN
  /\ Due(r)
  /\ ~OutOfTime(r)
  /\ IF runs # <<>> /\ runs[youngest] = "completed"
     THEN Conclude(r, youngest) /\ UNCHANGED due
     ELSE /\ due' = [due EXCEPT ![r] = Interval]
          /\ UNCHANGED <<pc, reported>>
  /\ UNCHANGED <<runs, age, own>>

\* The deadline, or a status other than 200, which is answered the same.
GiveUp(r) ==
  /\ Due(r)
  /\ pc' = [pc EXCEPT ![r] = "timeout"]
  /\ UNCHANGED <<runs, due, age, own, reported>>

\* GitHub makes a run of a dispatch.
Register(r) ==
  /\ Owed(r)
  /\ Len(runs) < MaxRuns
  /\ runs' = Append(runs, "in_progress")
  /\ own' = [own EXCEPT ![r] = Len(runs')]
  /\ UNCHANGED <<pc, due, age, reported>>

\* Somebody pushes.  The bound leaves room for the dispatches.
Push ==
  /\ Len(runs) + Cardinality({r \in Requests : own[r] = NoRun}) < MaxRuns
  /\ runs' = Append(runs, "in_progress")
  /\ UNCHANGED <<pc, due, age, own, reported>>

Complete(run) ==
  /\ runs[run] = "in_progress"
  /\ runs' = [runs EXCEPT ![run] = "completed"]
  /\ UNCHANGED <<pc, due, age, own, reported>>

\* Calls are much shorter than a tick.
Tick ==
  /\ \E r \in Requests : pc[r] = "poll"
  /\ \A r \in Requests : ~Due(r) /\ (Owed(r) => age[r] < Registering)
  /\ age' = [r \in Requests |-> IF pc[r] = "poll" THEN age[r] + 1 ELSE age[r]]
  /\ due' = [r \in Requests |-> IF pc[r] = "poll" THEN due[r] - 1 ELSE due[r]]
  /\ UNCHANGED <<runs, pc, own, reported>>

Next ==
  \/ \E r \in Requests : Dispatch(r) \/ Poll(r) \/ GiveUp(r) \/ Register(r)
  \/ \E run \in DOMAIN runs : Complete(run)
  \/ Push \/ Tick

Spec == Init /\ [][Next]_vars

-----------------------------------------------------------------------------
\* The verdict is never that of a run older than the request, as long as GitHub
\* makes its run within the sleep; it may be that of a younger run.
VerdictIsFresh ==
  \A r \in Requests : reported[r] # NoRun => own[r] # NoRun /\ own[r] <= reported[r]
=============================================================================
