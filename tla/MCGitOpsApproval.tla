------------------------- MODULE MCGitOpsApproval -------------------------
(***************************************************************************)
(* Small instances of GitOpsApproval for TLC, two side by side: either     *)
(* Redis answers, or its commands may fail and the operators come one at a *)
(* time, nobody merges in Bitbucket and no verification ends.              *)
(***************************************************************************)
EXTENDS GitOpsApproval, FiniteSets, TLC

VARIABLE instance   \* which of the two: chosen at first

\* Redis fails now and then, also when the RFCs and the entries are asked for.
Outage == INSTANCE GitOpsApproval WITH RedisFails <- TRUE, UiMerges <- FALSE

OneAtATime == Cardinality({h \in Handlers : req[h].at # "idle"}) <= 1

AllInit == Init /\ instance \in {"operators", "outage"}

AllNext ==
  /\ CASE instance = "operators" -> Next
       [] instance = "outage" -> Outage!Next /\ OneAtATime' /\ closing' = closing
  /\ UNCHANGED instance

AllSpec == AllInit /\ [][AllNext]_<<instance, vars>>

HandlerSymmetry == Permutations(Handlers)
=============================================================================
