--------------------------- MODULE GitOpsApproval ---------------------------
(***************************************************************************)
(* What becomes of a pull request of Camael: the operator approves or      *)
(* rejects it in the chat (agents/devops/agent.py, _gitops_approve) or by  *)
(* /devops (interfaces/api/routers/devops.py), Bitbucket reports merges by *)
(* a webhook, Raphael's verification comes to its verdict on its own time  *)
(* (agents/sre/healer.py), and all of them move the change record (RFC) in *)
(* ServiceNow.  The row of camael_gitops_actions, which nothing here reads, *)
(* is left out.                                                            *)
(*                                                                         *)
(* When a fix is handed off at all is in GitOpsFix; here it may be whenever*)
(* no thread works for the incident.  Pull requests are numbered as they   *)
(* are created, and an RFC has the number of the one it was created for.   *)
(* Of the states of an RFC "Authorize" stands for New as well, "Implement" *)
(* for Scheduled.                                                          *)
(***************************************************************************)
EXTENDS Integers

CONSTANTS
  Incidents,
  NoIncident,  \* of a pull request that is not created yet
  Handlers,    \* requests of operators served at the same time
  MaxPRs,      \* bound: pull requests ever created
  RfcFails,    \* may the creation of an RFC fail
  RedisFails,  \* may a command of Redis fail
  UiMerges     \* may somebody merge in Bitbucket

ASSUME ApprovalAssumption ==
  /\ NoIncident \notin Incidents
  /\ MaxPRs \in Nat \ {0}
  /\ RfcFails \in BOOLEAN /\ RedisFails \in BOOLEAN /\ UiMerges \in BOOLEAN

PRs == 1..MaxPRs

None == 0   \* no pull request, no RFC

VARIABLES
  prs,      \* pull requests created so far
  pr,       \* state of each in Bitbucket
  owner,    \* its incident
  rfcOf,    \* rfc_sys_id of its pending entry
  rfc,      \* state of each RFC in ServiceNow
  pending,  \* bb:pending_pr:<incident>: the pull request that waits
  rfcKey,   \* sn:rfc:<incident>: the RFC the verification will update
  camael,   \* where Camael's thread for the incident is
  draft,    \* the pull request it has created
  req,      \* where each request of an operator is
  hooks,    \* merges whose webhook is on its way
  closing,  \* updates of RFCs that verifications started
  \* history
  rejected, \* pull requests an operator was told are rejected while open
  dropped,  \* those that stopped waiting for a reason of their own while open
  swept,    \* those whose entry went for the sake of another pull request
  unseen    \* those created while Redis did not answer the dedup guard

bitbucket  == <<prs, pr, owner, hooks>>
servicenow == <<rfc, closing>>
keys       == <<pending, rfcKey>>
thread     == <<rfcOf, camael, draft>>
history    == <<rejected, dropped, swept, unseen>>
vars == <<bitbucket, servicenow, keys, thread, req, history>>

BitbucketTypes ==
  /\ prs \in 0..MaxPRs
  /\ pr \in [PRs -> {"none", "open", "merged", "declined"}]
  /\ owner \in [PRs -> Incidents \cup {NoIncident}]
  /\ hooks \subseteq PRs

ServiceNowTypes ==
  /\ rfc \in [PRs -> {"none", "Authorize", "Implement", "Review", "Closed",
                      "Cancelled"}]
  /\ closing \subseteq PRs \X {"Closed", "Review"}

KeyTypes ==
  /\ pending \in [Incidents -> 0..MaxPRs]
  /\ rfcKey \in [Incidents -> 0..MaxPRs]

ThreadTypes ==
  /\ rfcOf \in [PRs -> 0..MaxPRs]
  /\ camael \in [Incidents -> {"idle", "rfc", "save"}]
  /\ draft \in [Incidents -> 0..MaxPRs]
  /\ \A i \in Incidents : camael[i] # "idle" => draft[i] # None

RequestTypes ==
  /\ req \in [Handlers -> [at : {"idle", "merge", "untrack", "advance",
                                 "decline", "clear", "cancel"},
                           via : {"chat", "command"}, pr : 0..MaxPRs]]
  /\ \A h \in Handlers : req[h].at # "idle" => req[h].pr # None

HistoryTypes ==
  /\ rejected \subseteq PRs
  /\ dropped \subseteq PRs
  /\ swept \subseteq PRs
  /\ unseen \subseteq PRs

TypeOK ==
  /\ BitbucketTypes /\ ServiceNowTypes /\ KeyTypes
  /\ ThreadTypes /\ RequestTypes /\ HistoryTypes

NoRequest == [at |-> "idle", via |-> "chat", pr |-> None]

Init ==
  /\ prs = 0
  /\ pr = [n \in PRs |-> "none"]
  /\ owner = [n \in PRs |-> NoIncident]
  /\ rfcOf = [n \in PRs |-> None]
  /\ rfc = [n \in PRs |-> "none"]
  /\ pending = [i \in Incidents |-> None]
  /\ rfcKey = [i \in Incidents |-> None]
  /\ camael = [i \in Incidents |-> "idle"]
  /\ draft = [i \in Incidents |-> None]
  /\ req = [h \in Handlers |-> NoRequest]
  /\ hooks = {}
  /\ closing = {}
  /\ rejected = {}
  /\ dropped = {}
  /\ swept = {}
  /\ unseen = {}

-----------------------------------------------------------------------------
(* Camael's thread                                                         *)

\* Mutant: a pull request that waits for approval is no reason not to create one.
AlwaysNew(i) == TRUE

\* The dedup guard: no pull request of the incident waits for approval.
NothingWaits(i) == pending[i] = None

\* Branch, commit and pull request.  A dedup guard that raises is only logged.
CreatePR(i) ==
  /\ camael[i] = "idle"
  /\ prs < MaxPRs
  /\ \/ NothingWaits(i) /\ UNCHANGED unseen
     \/ RedisFails /\ unseen' = unseen \cup {prs + 1}
  /\ prs' = prs + 1
  /\ pr' = [pr EXCEPT ![prs'] = "open"]
  /\ owner' = [owner EXCEPT ![prs'] = i]
  /\ draft' = [draft EXCEPT ![i] = prs']
  /\ camael' = [camael EXCEPT ![i] = "rfc"]
  /\ UNCHANGED <<hooks, servicenow, keys, rfcOf, req, rejected, dropped, swept>>

\* The RFC of the incident that Redis still has and gives, or else a new one: its
\* creation may fail, its step to Authorize may be refused, and an exception after
\* the creation leaves the key as it is.
CreateRfc(i) ==
  /\ camael[i] = "rfc"
  /\ camael' = [camael EXCEPT ![i] = "save"]
  /\ LET n == draft[i]
         Unread == rfcKey[i] = None \/ RedisFails
     IN
       \/ /\ rfcKey[i] # None
          /\ rfcOf' = [rfcOf EXCEPT ![n] = rfcKey[i]]
          /\ UNCHANGED <<rfc, rfcKey>>
       \/ /\ Unread
          /\ rfcOf' = [rfcOf EXCEPT ![n] = n]
          /\ rfc' = [rfc EXCEPT ![n] = "Authorize"]
          /\ \E key \in {n, rfcKey[i]} : rfcKey' = [rfcKey EXCEPT ![i] = key]
       \/ /\ RfcFails /\ Unread
          /\ UNCHANGED <<rfcOf, rfc, rfcKey>>
  /\ UNCHANGED <<bitbucket, closing, pending, draft, req, history>>

\* The thread of the fix ends.
EndFix(i) ==
  /\ camael' = [camael EXCEPT ![i] = "idle"]
  /\ draft' = [draft EXCEPT ![i] = None]

\* The open pull request that waits under an incident, if any.
Waiting(i) == {n \in {pending[i]} \cap PRs : pr[n] = "open"}

\* _save_pending_pr, over whatever waits by now; a failure is only logged.
SavePending(i) ==
  /\ camael[i] = "save"
  /\ \/ /\ pending' = [pending EXCEPT ![i] = draft[i]]
        /\ swept' = swept \cup Waiting(i)
        /\ UNCHANGED dropped
     \/ /\ RedisFails
        /\ dropped' = dropped \cup {draft[i]}
        /\ UNCHANGED <<pending, swept>>
  /\ EndFix(i)
  /\ UNCHANGED <<bitbucket, servicenow, rfcKey, rfcOf, req, rejected, unseen>>

\* The pod dies with the thread: the pull request stays open, unknown to Redis.
AbandonFix(i) ==
  /\ camael[i] # "idle"
  /\ EndFix(i)
  /\ dropped' = dropped \cup {draft[i]}
  /\ UNCHANGED <<bitbucket, servicenow, keys, rfcOf, req, rejected, swept, unseen>>

-----------------------------------------------------------------------------
(* Requests of operators                                                   *)

Serve(h, label) == req' = [req EXCEPT ![h].at = label]

Answer(h) == req' = [req EXCEPT ![h] = NoRequest]

\* _delete_pending_pr for the sake of n: whatever waits under the incident no
\* longer does.
Forget(i, n) ==
  /\ pending' = [pending EXCEPT ![i] = None]
  /\ dropped' = dropped \cup (Waiting(i) \cap {n})
  /\ swept' = swept \cup (Waiting(i) \ {n})

\* The chat takes no notice of a delete that fails; a command ends with it, which
\* is AbandonRequest.
ChatForget(i, n) ==
  \/ Forget(i, n)
  \/ RedisFails /\ UNCHANGED <<pending, dropped, swept>>

\* Mutant: nobody looks whether the entry has a number.
ApproveUnread(h, i) ==
  /\ req[h].at = "idle"
  /\ \E via \in {"chat", "command"} :
       req' = [req EXCEPT ![h] = [at |-> "merge", via |-> via, pr |-> pending[i]]]
  /\ UNCHANGED <<bitbucket, servicenow, keys, thread, history>>

\* APROBAR in the chat takes the first key of Redis, /devops aprobar the only
\* one or the one of the number it names.
Approve(h, i) ==
  /\ req[h].at = "idle" /\ pending[i] # None
  /\ \E via \in {"chat", "command"} :
       req' = [req EXCEPT ![h] = [at |-> "merge", via |-> via, pr |-> pending[i]]]
  /\ UNCHANGED <<bitbucket, servicenow, keys, thread, history>>

\* RECHAZAR in the chat: the entry is deleted, then the RFC is cancelled.  Nothing is sent to Bitbucket.
RejectInChat(h, i) ==
  /\ req[h].at = "idle" /\ pending[i] # None
  /\ ChatForget(i, pending[i])
  /\ rejected' = rejected \cup {n \in {pending[i]} : pr[n] = "open"}
  /\ req' = [req EXCEPT ![h] = IF rfcOf[pending[i]] = None THEN NoRequest
               ELSE [at |-> "cancel", via |-> "chat", pr |-> pending[i]]]
  /\ UNCHANGED <<bitbucket, servicenow, rfcKey, thread, unseen>>

CancelRfc(h) ==
  /\ req[h].at = "cancel"
  /\ \/ rfc' = [rfc EXCEPT ![rfcOf[req[h].pr]] = "Cancelled"]
     \/ UNCHANGED rfc
  /\ Answer(h)
  /\ UNCHANGED <<bitbucket, closing, keys, thread, history>>

\* Bitbucket merges an open pull request and sends the webhook.
MergeOpen(n) ==
  /\ pr[n] = "open"
  /\ pr' = [pr EXCEPT ![n] = "merged"]
  /\ hooks' = hooks \cup {n}

\* merge_pr.
Merge(h) ==
  /\ req[h].at = "merge"
  /\ MergeOpen(req[h].pr)
  /\ Serve(h, "untrack")
  /\ UNCHANGED <<prs, owner, servicenow, keys, thread, history>>

\* merge_pr refused, because the pull request is not open or for a conflict:
\* the command deletes the entry, the chat reports an error.  Any other error
\* is only reported, which is AbandonRequest.
MergeRefused(h) ==
  /\ req[h].at = "merge"
  /\ IF req[h].via = "command"
     THEN Forget(owner[req[h].pr], req[h].pr)
     ELSE UNCHANGED <<pending, dropped, swept>>
  /\ Answer(h)
  /\ UNCHANGED <<bitbucket, servicenow, rfcKey, thread, rejected, unseen>>

\* After the merge: the entry of the incident goes, whatever it names by now.
Untrack(h) ==
  /\ req[h].at = "untrack"
  /\ IF req[h].via = "chat" THEN ChatForget(owner[req[h].pr], req[h].pr)
                            ELSE Forget(owner[req[h].pr], req[h].pr)
  /\ Serve(h, "advance")
  /\ UNCHANGED <<bitbucket, servicenow, rfcKey, thread, rejected, unseen>>

\* The RFC a request moves on: that of the pull request, and for a command
\* without one the first that Redis has.
RfcsFor(h) ==
  LET own == rfcOf[req[h].pr] IN
    IF own = None /\ req[h].via = "command"
    THEN {rfcKey[i] : i \in Incidents} \ {None}
    ELSE {own} \ {None}

\* advance_rfc_to_implement: Scheduled, then Implement; ServiceNow may refuse
\* both, which leaves a work note.
MoveOn(r) ==
  \/ rfc' = [rfc EXCEPT ![r] = "Implement"]
  \/ UNCHANGED rfc

\* After the merge the RFC moves on.
Advance(h) ==
  /\ req[h].at = "advance"
  /\ \/ RfcsFor(h) = {} /\ UNCHANGED rfc
     \/ \E r \in RfcsFor(h) : MoveOn(r)
  /\ Answer(h)
  /\ UNCHANGED <<bitbucket, closing, keys, thread, history>>

\* /devops rechazar: declined in Bitbucket; the RFC stays.
RejectByCommand(h, i) ==
  /\ req[h].at = "idle" /\ pending[i] # None
  /\ req' = [req EXCEPT ![h] = [at |-> "decline", via |-> "command", pr |-> pending[i]]]
  /\ UNCHANGED <<bitbucket, servicenow, keys, thread, history>>

Decline(h) ==
  /\ req[h].at = "decline"
  /\ LET n == req[h].pr IN
       \/ /\ pr[n] = "open"
          /\ pr' = [pr EXCEPT ![n] = "declined"]
       \/ pr[n] # "open" /\ UNCHANGED pr
  /\ Serve(h, "clear")
  /\ UNCHANGED <<prs, owner, hooks, servicenow, keys, thread, history>>

\* The entry is deleted when the pull request was declined, also by an earlier
\* request, or merged.
ClearDeclined(h) ==
  /\ req[h].at = "clear"
  /\ Forget(owner[req[h].pr], req[h].pr)
  /\ Answer(h)
  /\ UNCHANGED <<bitbucket, servicenow, rfcKey, thread, rejected, unseen>>

\* The pod dies with the request, or Bitbucket fails otherwise (or its answer
\* is lost, after Merge or Decline).
AbandonRequest(h) ==
  /\ req[h].at # "idle"
  /\ Answer(h)
  /\ UNCHANGED <<bitbucket, servicenow, keys, thread, history>>

-----------------------------------------------------------------------------
(* Bitbucket, Raphael and time                                             *)

\* Somebody merges in Bitbucket.
MergeInBitbucket(n) ==
  /\ UiMerges
  /\ MergeOpen(n)
  /\ UNCHANGED <<prs, owner, servicenow, keys, thread, req, history>>

\* Mutant: the webhook moves on the RFC of every pull request that waits.
AnyWaits(n, i) == pending[i] # None

\* The webhook finds its pull request among those that wait.
Waits(n, i) == pending[i] = n

\* pullrequest:fulfilled.  A webhook may be lost.  What it has read of the entry
\* does not change until the RFC moves: one step.
Hook(n) ==
  /\ n \in hooks
  /\ hooks' = hooks \ {n}
  /\ \/ \E i \in Incidents : /\ Waits(n, i)
                             /\ rfcOf[pending[i]] # None
                             /\ MoveOn(rfcOf[pending[i]])
     \/ UNCHANGED rfc
  /\ UNCHANGED <<prs, pr, owner, closing, keys, thread, req, history>>

\* The verification finds the deployment healthy, or unhealthy and sees no pull
\* request that waits, and updates the RFC of the incident.  Verifications are
\* minutes apart: the update an earlier one started is over.
Verdict(i, state) ==
  /\ state = "Closed" \/ pending[i] = None \/ RedisFails
  /\ rfcKey[i] # None
  /\ \A c \in closing : c[1] # rfcKey[i]
  /\ closing' = closing \cup {<<rfcKey[i], state>>}
  /\ UNCHANGED <<bitbucket, rfc, keys, thread, req, history>>

\* close_rfc or fail_rfc in a thread of its own; a refusal leaves a note.
UpdateRfc(r, state) ==
  /\ <<r, state>> \in closing
  /\ closing' = closing \ {<<r, state>>}
  /\ \/ rfc' = [rfc EXCEPT ![r] = state]
     \/ UNCHANGED rfc
  /\ UNCHANGED <<bitbucket, keys, thread, req, history>>

ExpirePending(i) ==
  /\ pending[i] # None
  /\ Forget(i, pending[i])
  /\ UNCHANGED <<bitbucket, servicenow, rfcKey, thread, req, rejected, unseen>>

ExpireRfcKey(i) ==
  /\ rfcKey' = [rfcKey EXCEPT ![i] = None]
  /\ UNCHANGED <<bitbucket, servicenow, pending, thread, req, history>>

-----------------------------------------------------------------------------
Camael(i) == CreatePR(i) \/ CreateRfc(i) \/ SavePending(i) \/ AbandonFix(i)

Begin(h, i) == Approve(h, i) \/ RejectInChat(h, i) \/ RejectByCommand(h, i)

Serving(h) ==
  \/ Merge(h) \/ MergeRefused(h) \/ Untrack(h) \/ Advance(h)
  \/ CancelRfc(h) \/ Decline(h) \/ ClearDeclined(h)

Next ==
  \/ \E i \in Incidents : Camael(i) \/ ExpirePending(i) \/ ExpireRfcKey(i)
  \/ \E h \in Handlers :
       \/ Serving(h) \/ AbandonRequest(h)
       \/ \E i \in Incidents : Begin(h, i)
  \/ \E n \in PRs : MergeInBitbucket(n) \/ Hook(n)
  \/ \E state \in {"Closed", "Review"} :
       \/ \E i \in Incidents : Verdict(i, state)
       \/ \E r \in PRs : UpdateRfc(r, state)

Spec == Init /\ [][Next]_vars

-----------------------------------------------------------------------------
\* An RFC is moved to Scheduled or Implement only for a merge: some pull request
\* that carries it has been merged, whoever moved it on.
ImplementedWasMerged ==
  \A r \in PRs : rfc[r] = "Implement" =>
    \E n \in PRs : rfcOf[n] = r /\ pr[n] = "merged"

\* What the dedup guard gives: two pull requests of an incident are open only when
\* the earlier one stopped waiting for a reason of its own (rejected in the chat,
\* refused by Bitbucket, its TTL, never saved), its entry was deleted or replaced
\* for the sake of another, or Redis did not answer when the later one was created.
OnePRWaits ==
  \A n, m \in PRs :
    n < m /\ owner[n] = owner[m] /\ pr[n] = "open" /\ pr[m] = "open" =>
      n \in dropped \cup swept \/ m \in unseen

\* "Dedup guard: si ya existe un PR pendiente para este incident_key, no crear
\* otro": a pull request that stopped waiting for no reason of its own is not
\* joined by a second one of its incident.
NoDuplicatePR ==
  \A n, m \in PRs :
    n < m /\ owner[n] = owner[m] /\ pr[n] = "open" /\ pr[m] = "open" => n \in dropped

\* "PR cancelado. No se realizaran cambios.": what an operator was told is
\* rejected is not merged afterwards.
RejectedNotMerged ==
  [][\A n \in rejected : pr[n] = "open" => pr'[n] # "merged"]_vars

\* "Merge a main ... Verificacion post-despliegue automatica": an RFC is closed
\* as successful only after the merge it was opened for.
ClosedWasMerged ==
  \A r \in PRs : rfc[r] = "Closed" => \E n \in PRs : rfcOf[n] = r /\ pr[n] = "merged"
=============================================================================
