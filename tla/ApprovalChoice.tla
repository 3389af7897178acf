--------------------------- MODULE ApprovalChoice ---------------------------
(***************************************************************************)
(* Which pull request an answer of the operator is about.  He is told of   *)
(* pull requests by messages that may get lost or overtake one another     *)
(* (agents/devops/agent.py and the webhook of Bitbucket in                 *)
(* interfaces/api/routers/devops.py); he answers in the chat, by a bare    *)
(* /devops command or by one with a number; and the code looks for what he *)
(* means among the keys bb:pending_pr:* of Redis.  What the answer does to *)
(* the RFC is in GitOpsApproval.                                           *)
(*                                                                         *)
(* Every repository numbers its own pull requests, so that two of them may *)
(* have the same number; here each pull request has an identity as well.   *)
(***************************************************************************)
EXTENDS Integers, FiniteSets

CONSTANTS
  Incidents,
  Handlers,   \* answers of operators served at the same time
  Repos,      \* the repositories that fixes go to
  None,       \* no incident, no repository
  MaxPRs      \* bound: pull requests ever created

PRs == 1..MaxPRs

NoPR == 0

VARIABLES
  prs,      \* pull requests created so far
  home,     \* of each, its repository
  state,    \* of each in Bitbucket
  pending,  \* bb:pending_pr:<incident>
  draft,    \* the pull request Camael has created and not saved yet
  told,     \* pull requests that wait, as far as the operator knows
  req,      \* where each answer of an operator is
  \* history
  waited,   \* of an answer: pull requests that waited when the keys were listed
  newer     \* of an answer: those saved under its key since it was chosen

camael == <<prs, home, draft>>
history == <<waited, newer>>
vars == <<camael, state, pending, told, req, history>>

Ways == {"chat", "bare", "numbered"}

TypeOK ==
  /\ prs \in 0..MaxPRs
  /\ home \in [PRs -> Repos \cup {None}]
  /\ state \in [PRs -> {"none", "open", "merged", "declined"}]
  /\ pending \in [Incidents -> 0..MaxPRs]
  /\ draft \in [Incidents -> 0..MaxPRs]
  /\ told \subseteq PRs
  /\ req \in [Handlers -> [at : {"idle", "keys", "match", "get", "act", "untrack"},
                           way : Ways, verb : {"aprobar", "rechazar"}, meant : 0..MaxPRs,
                           keys : SUBSET Incidents, key : Incidents \cup {None},
                           pr : 0..MaxPRs]]
  /\ waited \in [Handlers -> SUBSET PRs] /\ newer \in [Handlers -> SUBSET PRs]

NoRequest == [at |-> "idle", way |-> "chat", verb |-> "aprobar", meant |-> NoPR,
              keys |-> {}, key |-> None, pr |-> NoPR]

Init ==
  /\ prs = 0
  /\ home = [n \in PRs |-> None]
  /\ state = [n \in PRs |-> "none"]
  /\ pending = [i \in Incidents |-> NoPR]
  /\ draft = [i \in Incidents |-> NoPR]
  /\ told = {}
  /\ req = [h \in Handlers |-> NoRequest]
  /\ waited = [h \in Handlers |-> {}]
  /\ newer = [h \in Handlers |-> {}]

Waiting == {i \in Incidents : pending[i] # NoPR}

\* Bitbucket counts the pull requests of each repository.
Number(n) == Cardinality({m \in 1..n : home[m] = home[n]})

Answer(h) ==
  /\ req' = [req EXCEPT ![h] = NoRequest]
  /\ waited' = [waited EXCEPT ![h] = {}]
  /\ newer' = [newer EXCEPT ![h] = {}]

-----------------------------------------------------------------------------
(* Camael and Bitbucket                                                    *)

\* For whether one waits Camael has looked minutes before, or in vain.
CreatePR(i) ==
  /\ draft[i] = NoPR
  /\ prs < MaxPRs
  /\ prs' = prs + 1
  /\ \E repo \in Repos : home' = [home EXCEPT ![prs'] = repo]
  /\ state' = [state EXCEPT ![prs'] = "open"]
  /\ draft' = [draft EXCEPT ![i] = prs']
  /\ UNCHANGED <<pending, told, req, history>>

\* _save_pending_pr and the message that asks for APROBAR or RECHAZAR.
SavePending(i) ==
  /\ draft[i] # NoPR
  /\ pending' = [pending EXCEPT ![i] = draft[i]]
  /\ draft' = [draft EXCEPT ![i] = NoPR]
  /\ newer' = [h \in Handlers |-> IF req[h].key = i THEN newer[h] \cup {draft[i]} ELSE newer[h]]
  /\ UNCHANGED <<prs, home, state, told, req, waited>>

\* The pod dies before.
AbandonFix(i) ==
  /\ draft[i] # NoPR
  /\ draft' = [draft EXCEPT ![i] = NoPR]
  /\ UNCHANGED <<prs, home, state, pending, told, req, history>>

ExpirePending(i) ==
  /\ pending[i] # NoPR
  /\ pending' = [pending EXCEPT ![i] = NoPR]
  /\ UNCHANGED <<camael, state, told, req, history>>

Close(n, final) == state[n] = "open" /\ state' = [state EXCEPT ![n] = final]

\* Somebody merges or declines in Bitbucket.
CloseInBitbucket(n) ==
  /\ \E final \in {"merged", "declined"} : Close(n, final)
  /\ UNCHANGED <<camael, pending, told, req, history>>

\* pullrequest:created, or Camael's message: it comes late, again or never.
Announce(n) ==
  /\ n <= prs
  /\ told' = told \cup {n}

\* pullrequest:fulfilled or rejected: it comes late, again or never.
Report(n) ==
  /\ state[n] \in {"merged", "declined"}
  /\ told' = told \ {n}

\* An event of Bitbucket that reaches the operator.
Webhook(n) ==
  /\ Announce(n) \/ Report(n)
  /\ UNCHANGED <<camael, state, pending, req, history>>

-----------------------------------------------------------------------------
(* Answers                                                                 *)

\* The operator answers about a pull request he was told of: APROBAR or RECHAZAR
\* in the chat, /devops aprobar or rechazar with or without its number.
Ask(h) ==
  /\ req[h].at = "idle"
  /\ \E n \in told, way \in Ways, verb \in {"aprobar", "rechazar"} :
       req' = [req EXCEPT ![h] = [NoRequest EXCEPT !.at = "keys", !.way = way,
                                                   !.verb = verb, !.meant = n]]
  /\ UNCHANGED <<camael, state, pending, told, history>>

\* /devops pr: what waits.
AskWhatWaits ==
  /\ told' = {pending[i] : i \in Waiting}
  /\ told' # told
  /\ UNCHANGED <<camael, state, pending, req, history>>

\* An answer that lists what waits.
AnswerList(h) ==
  /\ told' = told \cup {pending[i] : i \in Waiting}
  /\ Answer(h)

\* Mutant: the first key, as in the chat.
FirstOf(keys) == keys

\* A bare command needs a single key.
OnlyOf(keys) == {i \in keys : keys = {i}}

\* The key a bare answer is about: in the chat the first that Redis lists, which
\* may be any.
Choices(way) == IF way = "chat" THEN Waiting ELSE OnlyOf(Waiting)

\* KEYS bb:pending_pr:*
ReadKeys(h) ==
  /\ req[h].at = "keys"
  /\ CASE Waiting = {} -> Answer(h) /\ UNCHANGED told
       [] Waiting # {} /\ req[h].way = "numbered" ->
            /\ req' = [req EXCEPT ![h].at = "match", ![h].keys = Waiting]
            /\ UNCHANGED <<told, history>>
       [] Waiting # {} /\ req[h].way # "numbered" /\ Choices(req[h].way) = {} -> AnswerList(h)
       [] OTHER ->
            /\ \E i \in Choices(req[h].way) :
                 req' = [req EXCEPT ![h].at = "get", ![h].key = i]
            /\ waited' = [waited EXCEPT ![h] = {pending[i] : i \in Waiting}]
            /\ UNCHANGED <<told, newer>>
  /\ UNCHANGED <<camael, state, pending>>

HasNumber(i, n) == pending[i] # NoPR /\ Number(pending[i]) = Number(n)

\* The entries are read one by one until one has the number, whatever its repository.
Match(h) ==
  /\ req[h].at = "match"
  /\ IF req[h].keys = {} THEN AnswerList(h)
     ELSE /\ \E i \in req[h].keys :
               req' = IF HasNumber(i, req[h].meant)
                      THEN [req EXCEPT ![h].at = "get", ![h].key = i, ![h].keys = {}]
                      ELSE [req EXCEPT ![h].keys = @ \ {i}]
          /\ UNCHANGED <<told, history>>
  /\ UNCHANGED <<camael, state, pending>>

\* The entry, which is read again: it may be gone or another one.  RECHAZAR in
\* the chat does no more than delete it.
GetPending(h) ==
  /\ req[h].at = "get"
  /\ LET n == pending[req[h].key] IN
       IF n = NoPR THEN Answer(h)
       ELSE /\ req' = [req EXCEPT ![h].pr = n,
                         ![h].at = IF req[h].way = "chat" /\ req[h].verb = "rechazar"
                                   THEN "untrack" ELSE "act"]
            /\ UNCHANGED history
  /\ UNCHANGED <<camael, state, pending, told>>

GoesOn(h) == req' = [req EXCEPT ![h].at = "untrack"] /\ UNCHANGED history

\* merge_pr or decline, which may fail, or seem to: then nothing is forgotten.  A
\* command takes 404 and 409 for a pull request that is closed already; the latter
\* also says that the branches moved while they were merged.
Act(h) ==
  /\ req[h].at = "act"
  /\ \/ /\ Close(req[h].pr, IF req[h].verb = "aprobar" THEN "merged" ELSE "declined")
        /\ GoesOn(h) \/ Answer(h)
     \/ /\ Answer(h)
        /\ UNCHANGED state
     \/ /\ req[h].way # "chat"
        /\ state[req[h].pr] # "open" \/ req[h].verb = "aprobar"
        /\ GoesOn(h)
        /\ UNCHANGED state
  /\ UNCHANGED <<camael, pending, told>>

\* _delete_pending_pr: whatever waits under the key by now.
Untrack(h) ==
  /\ req[h].at = "untrack"
  /\ pending' = [pending EXCEPT ![req[h].key] = NoPR]
  /\ Answer(h)
  /\ UNCHANGED <<camael, state, told>>

-----------------------------------------------------------------------------
Serving(h) == ReadKeys(h) \/ Match(h) \/ GetPending(h) \/ Act(h) \/ Untrack(h)

Next ==
  \/ \E i \in Incidents : CreatePR(i) \/ SavePending(i) \/ AbandonFix(i) \/ ExpirePending(i)
  \/ \E n \in PRs : CloseInBitbucket(n) \/ Webhook(n)
  \/ \E h \in Handlers : Ask(h) \/ Serving(h)
  \/ AskWhatWaits

Spec == Init /\ [][Next]_vars

-----------------------------------------------------------------------------
\* The pull requests an answer is about to merge or to decline, and to forget.
Touched(h) ==
  CASE req[h].at = "act" -> {req[h].pr}
    [] req[h].at = "untrack" -> {req[h].pr, pending[req[h].key]}
    [] OTHER -> {}

\* What an answer merges, declines or forgets is what the operator means.  It may be
\* another one only if that was saved under the same key since the key was chosen,
\* has the number he gave in another repository, was all that waited when he gave
\* none, or waited with others when he wrote in the chat.
ActsOnMeant ==
  \A h \in Handlers : \A n \in Touched(h) \ {NoPR} :
    \/ n = req[h].meant
    \/ n \in newer[h]
    \/ CASE req[h].way = "numbered" -> Number(n) = Number(req[h].meant)
         [] req[h].way = "bare" -> waited[h] = {n}
         [] req[h].way = "chat" -> n \in waited[h]

\* "Buscando el PR pendiente mas reciente": an answer in the chat is about the
\* youngest that waits.
ChatTakesLatest ==
  [][\A h \in Handlers : req[h].way = "chat" /\ req[h].at = "keys" /\ req'[h].at = "get" =>
       \A i \in Waiting : pending[i] <= pending[req'[h].key]]_vars
=============================================================================
