------------------------------ MODULE CodeTasks ------------------------------
(***************************************************************************)
(* The autonomous tasks of Gabriel (agents/dev/agent.py), each a pipeline  *)
(* of calls of the GitHub API (tools/github/tool.py): a file is read from  *)
(* the base branch, an LLM rewrites it, and a branch, a commit and a pull  *)
(* request follow, while people push and merge and other tasks run.  The   *)
(* text of a file is the set of changes it has.                            *)
(***************************************************************************)
EXTENDS Integers, FiniteSets

CONSTANTS
  Tasks,     \* tasks, each served by a request of its own
  People,    \* changes that people push to the base branch
  Files, Branches,
  None,
  MaxFaults  \* calls that fail, with or without effect

VARIABLES
  base,      \* the base branch: the changes in each file
  branches,  \* a branch: the base it was made from and what it has now
  open,      \* branches with an open pull request
  pc,
  plan,      \* what the LLM chose for a task: a file and a branch
  seen,      \* the file as it was read, which its sha stands for
  head,      \* the base branch as create_branch resolved it
  reported,  \* tasks reported with the number of a pull request
  faults,
  \* history
  reset      \* tasks whose branch was reset after they had committed

github == <<base, branches, open>>
vars == <<github, pc, plan, seen, head, reported, faults, reset>>

Changes == Tasks \cup People
Text == SUBSET Changes
Tree == [Files -> Text]

NoBranch == [from |-> None, tree |-> None]
NoPlan == [file |-> None, branch |-> None]

TypeOK ==
  /\ base \in Tree
  /\ branches \in [Branches -> [from : Tree, tree : Tree] \cup {NoBranch}]
  /\ open \subseteq Branches
  /\ pc \in [Tasks -> {"analyze", "read", "generate", "resolve", "branch", "reset",
                       "commit", "pull", "done"}]
  /\ plan \in [Tasks -> [file : Files, branch : Branches] \cup {NoPlan}]
  /\ seen \in [Tasks -> Text]
  /\ head \in [Tasks -> Tree \cup {None}]
  /\ reported \cup reset \subseteq Tasks

Init ==
  /\ base = [f \in Files |-> {}]
  /\ branches = [b \in Branches |-> NoBranch]
  /\ open = {}
  /\ pc = [t \in Tasks |-> "analyze"]
  /\ plan = [t \in Tasks |-> NoPlan]
  /\ seen = [t \in Tasks |-> {}]
  /\ head = [t \in Tasks |-> None]
  /\ reported = {}
  /\ faults = 0
  /\ reset = {}

-----------------------------------------------------------------------------
Go(t, label) == pc' = [pc EXCEPT ![t] = label]

Branch(t) == branches[plan[t].branch]

SetBranch(t, b) == branches' = [branches EXCEPT ![plan[t].branch] = b]

\* A call that writes, and whose answer may be lost: then the task ends.
Answered(t, next) ==
  \/ Go(t, next) /\ UNCHANGED faults
  \/ Go(t, "done") /\ faults < MaxFaults /\ faults' = faults + 1

\* _analyze_task: the LLM names a file and a branch; a branch it has named for
\* another task is not excluded.
Analyze(t) ==
  /\ pc[t] = "analyze"
  /\ \E f \in Files, b \in Branches : plan' = [plan EXCEPT ![t] = [file |-> f, branch |-> b]]
  /\ Go(t, "read")
  /\ UNCHANGED <<github, seen, head, reported, faults, reset>>

\* get_file_contents: the text of the file and its sha.
ReadFile(t) ==
  /\ pc[t] = "read"
  /\ seen' = [seen EXCEPT ![t] = base[plan[t].file]]
  /\ Go(t, "generate")
  /\ UNCHANGED <<github, plan, head, reported, faults, reset>>

\* _generate_fix: a new text of the file; the task ends when nothing changed.
Generate(t) ==
  /\ pc[t] = "generate"
  /\ Go(t, "resolve") \/ Go(t, "done")
  /\ UNCHANGED <<github, plan, seen, head, reported, faults, reset>>

\* create_branch: GET of the head of the base branch.
ResolveBase(t) ==
  /\ pc[t] = "resolve"
  /\ head' = [head EXCEPT ![t] = base]
  /\ Go(t, "branch")
  /\ UNCHANGED <<github, plan, seen, reported, faults, reset>>

\* create_branch: POST of the branch, 422 when there is one.
CreateBranch(t) ==
  /\ pc[t] = "branch"
  /\ IF Branch(t) = NoBranch
     THEN /\ SetBranch(t, [from |-> head[t], tree |-> head[t]])
          /\ Answered(t, "commit")
     ELSE /\ Go(t, "reset")
          /\ UNCHANGED <<branches, faults>>
  /\ UNCHANGED <<base, open, plan, seen, head, reported, reset>>

\* create_branch: PATCH with force.  GitHub closes a pull request that has no
\* commits any more.
ResetBranch(t) ==
  /\ pc[t] = "reset"
  /\ SetBranch(t, [from |-> head[t], tree |-> head[t]])
  /\ open' = open \ {plan[t].branch}
  /\ reset' = reset \cup {u \in Tasks : u \in UNION {Branch(t).tree[f] : f \in Files}}
  /\ Answered(t, "commit")
  /\ UNCHANGED <<base, plan, seen, head, reported>>

\* Mutant: the sha is that of the file on the branch, whatever the task has read.
CommitAnyway(t) ==
  /\ pc[t] = "commit"
  /\ SetBranch(t, [Branch(t) EXCEPT !.tree[plan[t].file] = seen[t] \cup {t}])
  /\ Answered(t, "pull")
  /\ UNCHANGED <<base, open, plan, seen, head, reported, reset>>

\* Mutant: a refused commit is not noticed.
CommitUnnoticed(t) ==
  /\ pc[t] = "commit"
  /\ IF Branch(t).tree[plan[t].file] = seen[t]
     THEN SetBranch(t, [Branch(t) EXCEPT !.tree[plan[t].file] = seen[t] \cup {t}])
     ELSE UNCHANGED branches
  /\ Answered(t, "pull")
  /\ UNCHANGED <<base, open, plan, seen, head, reported, reset>>

\* create_commit: GitHub refuses a sha that is not that of the file on the branch.
Commit(t) ==
  /\ pc[t] = "commit"
  /\ IF Branch(t).tree[plan[t].file] = seen[t]
     THEN /\ SetBranch(t, [Branch(t) EXCEPT !.tree[plan[t].file] = seen[t] \cup {t}])
          /\ Answered(t, "pull")
     ELSE /\ Go(t, "done")
          /\ UNCHANGED <<branches, faults>>
  /\ UNCHANGED <<base, open, plan, seen, head, reported, reset>>

\* create_pull_request: 422 when the branch has one or has no commits.
CreatePullRequest(t) ==
  /\ pc[t] = "pull"
  /\ Go(t, "done")
  /\ IF plan[t].branch \notin open /\ Branch(t).tree # Branch(t).from
     THEN /\ open' = open \cup {plan[t].branch}
          /\ \/ reported' = reported \cup {t} /\ UNCHANGED faults
             \/ faults < MaxFaults /\ faults' = faults + 1 /\ UNCHANGED reported
     ELSE UNCHANGED <<open, reported, faults>>
  /\ UNCHANGED <<base, branches, plan, seen, head, reset>>

\* A call without effect fails, or the pod dies.
Fails(t) ==
  /\ pc[t] # "done"
  /\ faults < MaxFaults
  /\ faults' = faults + 1
  /\ Go(t, "done")
  /\ UNCHANGED <<github, plan, seen, head, reported, reset>>

-----------------------------------------------------------------------------
\* Somebody pushes a change to the base branch.
Push(h, f) ==
  /\ \A g \in Files : h \notin base[g]
  /\ base' = [base EXCEPT ![f] = @ \cup {h}]
  /\ UNCHANGED <<branches, open, pc, plan, seen, head, reported, faults, reset>>

\* What GitHub makes of the base branch: it takes what a branch has added since
\* it was made, and takes back what the branch has taken out.
Merged(b) ==
  [f \in Files |-> (base[f] \ (branches[b].from[f] \ branches[b].tree[f]))
                     \cup (branches[b].tree[f] \ branches[b].from[f])]

Merge(b) ==
  /\ b \in open
  /\ base' = Merged(b)
  /\ branches' = [branches EXCEPT ![b].from = branches[b].tree]
  /\ open' = open \ {b}
  /\ UNCHANGED <<pc, plan, seen, head, reported, faults, reset>>

TaskNext(t) ==
  \/ Analyze(t) \/ ReadFile(t) \/ Generate(t)
  \/ ResolveBase(t) \/ CreateBranch(t) \/ ResetBranch(t)
  \/ Commit(t) \/ CreatePullRequest(t)
  \/ Fails(t)

Next ==
  \/ \E t \in Tasks : TaskNext(t)
  \/ \E h \in People, f \in Files : Push(h, f)
  \/ \E b \in Branches : Merge(b)

Spec == Init /\ [][Next]_vars

-----------------------------------------------------------------------------
\* However long the LLM takes to rewrite a file it has read, and whatever was
\* pushed or merged meanwhile, no merge of a pull request takes a change out of
\* the base branch.
NothingReverted == [][\A f \in Files : base[f] \subseteq base'[f]]_vars

\* What is reported with a pull request is in that pull request until it is
\* merged.  Only a task for which the LLM chose the same branch loses it.
ReportedIsThere ==
  \A t \in reported \ reset :
    \/ t \in base[plan[t].file]
    \/ plan[t].branch \in open /\ t \in Branch(t).tree[plan[t].file]
==============================================================================
