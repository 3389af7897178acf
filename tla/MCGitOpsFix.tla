---------------------------- MODULE MCGitOpsFix ----------------------------
(***************************************************************************)
(* Small instances of GitOpsFix.  A tick is some forty minutes of a handoff*)
(* or of a pending pull request, which live for 7200 seconds.              *)
(***************************************************************************)
EXTENDS GitOpsFix, TLC

CONSTANTS oom, degraded, app

\* Two incidents of one deployment.
TwoOfOne == (oom :> app) @@ (degraded :> app)
=============================================================================
