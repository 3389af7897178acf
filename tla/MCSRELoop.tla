----------------------------- MODULE MCSRELoop -----------------------------
(***************************************************************************)
(* Small instances of SRELoop.  A tick stands for about five minutes: the  *)
(* dedup keys of the fast incidents last 5 to 10 minutes, the restart      *)
(* window 15.                                                              *)
(***************************************************************************)
EXTENDS SRELoop, TLC

CONSTANTS oom, degraded, app

\* One incident: two leaders contend for it.
OneTarget   == oom :> app
OneSeverity == oom :> 2
OneDedupTTL == oom :> 1

\* Two incidents of one application, the second below the minimal severity.
TwoTarget   == (oom :> app) @@ (degraded :> app)
TwoSeverity == (oom :> 2) @@ (degraded :> 1)
TwoDedupTTL == (oom :> 2) @@ (degraded :> 1)

PodSymmetry == Permutations(Pods)
=============================================================================
