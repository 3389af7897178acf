----------------------------- MODULE ManifestFix -----------------------------
(***************************************************************************)
(* What a fix of Camael does to the manifests in Bitbucket: which file a   *)
(* resource is taken to be defined in (agents/sre/bug_library.py and       *)
(* argocd_discovery.py), how the text is patched, and the steps by which   *)
(* _gitops_fix (agents/devops/agent.py) turns what it read into a branch,  *)
(* a commit and a pull request while others are merged.                    *)
(*                                                                         *)
(* A file is a sequence of lines; a line is its key and its number, in Mi  *)
(* for a memory and in thousandths for a CPU, and whether it is written    *)
(* with decimals: "0.5" and "500m" are the same number of CPUs.            *)
(***************************************************************************)
EXTENDS Integers, Sequences, FiniteSets

CONSTANTS
  Fixes,       \* incidents handed to Camael
  Resources,   \* resource names they may carry
  Apps,        \* keys of APP_MANIFEST_MAP
  Begins,      \* of a resource: the keys its name begins with
  Hyphenated,  \* of a resource: those that are its name, or go on with a hyphen
  Length,      \* of a key
  FileOfApp,   \* APP_MANIFEST_MAP
  Search,      \* of a resource: the file the code search finds, or NoFile
  InGitHub,    \* resources that ArgoCD deploys from GitHub
  NoFile,
  Layouts,     \* of a file: what it may hold at first
  Issues       \* issue types that are handed over

VARIABLES
  main,      \* of a file: its lines on the main branch
  commits,   \* of a file: merges so far
  locks,     \* sre:gitops:{deployment}
  fix,       \* of a fix: resource, issue, file, where it is
  copy,      \* of a fix: the lines it read, then those it committed
  forked,    \* of a fix: the lines of the file when its branch was created
  \* history
  first      \* of a file: its lines at first

vars == <<main, commits, locks, fix, copy, forked, first>>

Manifested == DOMAIN Layouts

Stages == {"new", "started", "read", "branched", "open", "merged", "dropped"}

Init ==
  /\ first \in [Manifested -> UNION {Layouts[file] : file \in Manifested}]
  /\ \A file \in Manifested : first[file] \in Layouts[file]
  /\ main = first
  /\ commits = [file \in Manifested |-> 0]
  /\ locks = {}
  /\ fix = [f \in Fixes |-> [at |-> "new", resource |-> NoFile, issue |-> NoFile,
                             file |-> NoFile, readAt |-> 0, forkedAt |-> 0]]
  /\ copy = [f \in Fixes |-> <<>>]
  /\ forked = [f \in Fixes |-> <<>>]

-----------------------------------------------------------------------------
(* Where a resource is defined                                             *)

\* is_known_resource: "backend2" is known because of "backend".
Known(r) == Begins[r] # {}

Longest(keys) == CHOOSE k \in keys : \A j \in keys : Length[j] <= Length[k]

\* search_file_in_repo: nothing, too, when the search does not answer.
Discovered(r) == {Search[r], NoFile}

\* get_fix, then the discovery of _gitops_fix for what it does not know.
ManifestsOf(r) == IF Known(r) THEN {FileOfApp[Longest(Begins[r])]} ELSE Discovered(r)

\* handoff_to_camael: the name under which the handoff is locked, that of the first
\* key of the map: "llm-adapter-deployment" stands before "llm-adapter".
LockOf(r) == IF Hyphenated[r] = {} THEN r ELSE Longest(Hyphenated[r])

\* get_fix: None without a template, or for a resource that ArgoCD deploys from
\* GitHub; ArgoCD is asked only about what is not known, and may not answer.
Fixable(r, argoAnswers) == Known(r) \/ ~argoAnswers \/ r \notin InGitHub

-----------------------------------------------------------------------------
(* The patches                                                             *)

\* The lines with `key` that follow `opener` with none of `closers` in between:
\* the flag in_limits or in_liveness is up.
Under(lines, opener, key, closers) ==
  {n \in DOMAIN lines :
     /\ lines[n].key = key
     /\ \E m \in 1..(n - 1) :
          /\ lines[m].key = opener
          /\ \A k \in (m + 1)..(n - 1) : lines[k].key \notin closers \cup {key}}

\* new is a function of the number: _parse_memory_mi and _format_memory.
Change(lines, where, new) ==
  [n \in DOMAIN lines |->
     IF n \in where THEN [lines[n] EXCEPT !.number = new[lines[n].number]] ELSE lines[n]]

\* `tenths` is the multiplier.
Times(tenths) == [x \in Nat |-> (x * tenths) \div 10]

Keys(lines) == {lines[n].key : n \in DOMAIN lines}

\* Every key but these two ends the limits.
MemoryLimits(lines) == Under(lines, "limits", "memory", Keys(lines) \ {"memory", "cpu"})

\* Mutant: a value in Gi is multiplied as if it were in Mi.
PatchGiAsMi(lines, tenths) ==
  Change(lines, MemoryLimits(lines),
         [x \in Nat |-> IF x % 1024 = 0 THEN ((x \div 1024) * tenths) \div 10 ELSE Times(tenths)[x]])

\* _patch_memory_limit.
PatchMemory(lines, tenths) == Change(lines, MemoryLimits(lines), Times(tenths))

\* _parse_memory_mi raises: "1.5Gi" is found and is no integer.
NotAnInteger(issue, lines) ==
  issue # "HIGH_CPU" /\ \E n \in MemoryLimits(lines) : lines[n].dot

\* What cpu:\s*(\d+)(m?) matches of the number: of "0.5" and "0.25" it is "0".
Matched(line) == IF line.dot THEN (line.number \div 1000) * 1000 ELSE line.number

\* _patch_cpu_limit: the number matched takes the place of the whole value.
PatchCpu(lines, tenths) ==
  [n \in DOMAIN lines |->
     IF n \in Under(lines, "limits", "cpu", {})
     THEN [lines[n] EXCEPT !.number = Times(tenths)[Matched(lines[n])], !.dot = FALSE]
     ELSE lines[n]]

\* _patch_liveness_delay.
PatchDelay(lines) ==
  Change(lines, Under(lines, "livenessProbe", "initialDelaySeconds",
                      {"readinessProbe", "startupProbe", "resources"}),
         [x \in Nat |-> x + 30])

\* BUG_LIBRARY.
Patch(issue, lines) ==
  CASE issue \in {"OOM_KILLED", "DEPLOYMENT_DEGRADED", "CRASH_LOOP"} -> PatchMemory(lines, 30)
    [] issue \in {"HIGH_MEMORY", "MEMORY_LEAK_PREDICTED"} -> PatchMemory(lines, 20)
    [] issue = "HIGH_RESTARTS" -> PatchDelay(PatchMemory(lines, 15))
    [] issue = "HIGH_CPU" -> PatchCpu(lines, 20)

-----------------------------------------------------------------------------
(* The fix                                                                 *)

Goes(f, stage) == fix' = [fix EXCEPT ![f].at = stage]

\* handoff_to_camael.
Handoff(f) ==
  /\ fix[f].at = "new"
  /\ \E r \in Resources, issue \in Issues, argoAnswers \in BOOLEAN :
       /\ Fixable(r, argoAnswers)
       /\ LockOf(r) \notin locks
       /\ locks' = locks \cup {LockOf(r)}
       /\ fix' = [fix EXCEPT ![f].at = "started", ![f].resource = r, ![f].issue = issue]
  /\ UNCHANGED <<main, commits, copy, forked, first>>

\* The lock ends after two hours, with the thread or without it.
Expire ==
  /\ \E key \in locks : locks' = locks \ {key}
  /\ UNCHANGED <<main, commits, fix, copy, forked, first>>

\* read_file, of the main branch.
OnMain(file) == main[file]

\* create_branch: the head of the main branch is asked for again.
Fork(f) == forked' = [forked EXCEPT ![f] = main[fix[f].file]]

\* The file is read; the LLM is asked next, for as long as two minutes.
Read(f) ==
  /\ fix[f].at = "started"
  /\ \E file \in ManifestsOf(fix[f].resource) \ {NoFile} :
       /\ fix' = [fix EXCEPT ![f].at = "read", ![f].file = file, ![f].readAt = commits[file]]
       /\ copy' = [copy EXCEPT ![f] = OnMain(file)]
  /\ UNCHANGED <<main, commits, locks, forked, first>>

\* _rfc_manual_intervention: no file was found.
AskOperator(f) ==
  /\ fix[f].at = "started"
  /\ NoFile \in ManifestsOf(fix[f].resource)
  /\ Goes(f, "dropped")
  /\ UNCHANGED <<main, commits, locks, copy, forked, first>>

\* The patch is applied to what was read, and create_branch forks the main branch
\* as it is now.
CreateBranch(f) ==
  /\ fix[f].at = "read"
  /\ ~NotAnInteger(fix[f].issue, copy[f])
  /\ fix' = [fix EXCEPT ![f].at = "branched", ![f].forkedAt = commits[fix[f].file]]
  /\ copy' = [copy EXCEPT ![f] = Patch(fix[f].issue, @)]
  /\ Fork(f)
  /\ UNCHANGED <<main, commits, locks, first>>

\* commit_file replaces the whole file; create_pr.
CommitAndCreatePR(f) ==
  /\ fix[f].at = "branched"
  /\ Goes(f, "open")
  /\ UNCHANGED <<main, commits, locks, copy, forked, first>>

\* A call raises: branch and commit stay behind.
FixFails(f) ==
  /\ fix[f].at \in {"started", "read", "branched"}
  /\ Goes(f, "dropped")
  /\ UNCHANGED <<main, commits, locks, copy, forked, first>>

-----------------------------------------------------------------------------
(* Bitbucket                                                               *)

\* Line by line: who changed it since the fork wins.
Merged(base, ours, theirs) ==
  [n \in DOMAIN base |-> IF theirs[n] = base[n] THEN ours[n] ELSE theirs[n]]

Conflict(base, ours, theirs) ==
  \E n \in DOMAIN base : ours[n] # base[n] /\ theirs[n] # base[n] /\ ours[n] # theirs[n]

\* merge_pr, after an operator's approval.
Merge(f) ==
  /\ fix[f].at = "open"
  /\ LET file == fix[f].file IN
       /\ ~Conflict(forked[f], main[file], copy[f])
       /\ main' = [main EXCEPT ![file] = Merged(forked[f], @, copy[f])]
       /\ commits' = [commits EXCEPT ![file] = @ + 1]
  /\ Goes(f, "merged")
  /\ UNCHANGED <<locks, copy, forked, first>>

\* The pull request is rejected, or its merge refused for a conflict, which git
\* also sees in lines next to one another.
Decline(f) ==
  /\ fix[f].at = "open"
  /\ Goes(f, "dropped")
  /\ UNCHANGED <<main, commits, locks, copy, forked, first>>

Next ==
  \/ \E f \in Fixes :
       \/ Handoff(f) \/ Read(f) \/ AskOperator(f) \/ CreateBranch(f)
       \/ CommitAndCreatePR(f) \/ FixFails(f) \/ Merge(f) \/ Decline(f)
  \/ Expire

Spec == Init /\ [][Next]_vars

-----------------------------------------------------------------------------
TypeOK ==
  /\ \A file \in Manifested : DOMAIN main[file] = DOMAIN first[file]
  /\ commits \in [Manifested -> 0..Cardinality(Fixes)]
  /\ locks \subseteq Resources \cup Apps
  /\ \A f \in Fixes :
       /\ fix[f].at \in Stages
       /\ fix[f].at \in {"branched", "open", "merged"} => fix[f].readAt <= fix[f].forkedAt

\* A merge lowers a number only when its fix had read the file before another merge
\* and forked the branch after it, or when it is a CPU limit written with decimals.
LoweredForAReason ==
  [][ \A f \in Fixes : fix[f].at = "open" /\ fix'[f].at = "merged" =>
        \/ fix[f].readAt < fix[f].forkedAt
        \/ \A n \in DOMAIN main[fix[f].file] :
             \/ main'[fix[f].file][n].number >= main[fix[f].file][n].number
             \/ main[fix[f].file][n].key = "cpu" /\ main[fix[f].file][n].dot ]_vars

\* "Aumenta resources.limits.cpu en el YAML": a fix of HIGH_CPU that read what it
\* forked lowers nothing.
CpuLimitRaised ==
  [][ \A f \in Fixes :
        /\ fix[f].at = "open" /\ fix'[f].at = "merged"
        /\ fix[f].issue = "HIGH_CPU" /\ fix[f].readAt = fix[f].forkedAt
        => \A n \in DOMAIN main[fix[f].file] :
             main'[fix[f].file][n].number >= main[fix[f].file][n].number ]_vars

\* "`resources.limits.memory` incrementado": merging the pull request of a fix
\* takes nothing back that another one has raised.
MergeOnlyRaises ==
  [][ \A file \in Manifested : \A n \in DOMAIN main[file] :
        main'[file][n].number >= main[file][n].number ]_vars
=============================================================================
