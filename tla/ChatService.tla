----------------------------- MODULE ChatService -----------------------------
(***************************************************************************)
(* The chat endpoints and what surrounds them: the rate limit and the      *)
(* cache of answers in Redis, the roles and conversations in PostgreSQL,   *)
(* the routing and dispatch of a question, and the user and administrator  *)
(* who rename, delete and change roles meanwhile.  Every command to Redis  *)
(* and every transaction is one step: requests run in several pods.        *)
(***************************************************************************)
EXTENDS Integers, Sequences

CONSTANTS
  Requests,       \* requests, each made once
  Users,
  Questions,      \* questions as they are after validation
  Conversations,  \* conversation ids the clients use
  MaxLevel,       \* the level of admin
  MaxRate,        \* rate_limit_max
  Window,         \* rate_limit_window, in ticks
  CacheTTL,       \* _CHAT_CACHE_TTL, in ticks
  MaxFaults       \* failing commands and dying pods, a bound of the model

ASSUME ChatAssumption ==
  /\ MaxLevel \in Nat \ {0}
  /\ MaxRate \in Nat \ {0}
  /\ Window \in Nat \ {0}
  /\ CacheTTL \in Nat \ {0}
  /\ MaxFaults \in Nat

\* _ROLE_LEVELS; an intent is known by the level that _AGENT_MIN_ROLE asks of
\* its agent, and an answer, a refusal or an error text by being there.
Levels == 1..MaxLevel

Routes == {"chat", "audio", "image", "stream"}

NoTTL == -1

VARIABLES
  count,    \* rate_limit:<user>, saturating at MaxRate + 1
  window,   \* its time to live
  role,     \* user_profile.role
  cacheTTL, \* time to live of chat_cache:<user, question>, 0 when it is not there
  title,    \* conversations.title: "auto", "renamed", or "gone" without a row
  log,      \* messages of a conversation: the exchanges, by request
  pc,       \* the next command of each request
  req,      \* what is asked, the role read, the level of the agent that was run
  faults,
  \* history
  outcome,  \* what the client was told
  best,     \* the highest role its user has had during a request
  erased,   \* requests whose exchange the user deleted with the conversation
  unsaved   \* requests whose exchange the database refused

redis == <<count, window, cacheTTL>>
postgres == <<role, title, log>>
history == <<outcome, best, erased, unsaved>>
vars == <<redis, postgres, pc, req, faults, history>>

Labels == {"new", "limit", "expire", "role", "audio", "image", "validate", "cache",
           "route", "agent", "store", "emit", "persist", "persistCached", "end"}

Outcomes == {"none", "200", "refused", "429", "500", "left", "lost"}

TypeOK ==
  /\ count \in [Users -> 0..MaxRate + 1]
  /\ window \in [Users -> {NoTTL} \cup 1..Window]
  /\ role \in [Users -> Levels]
  /\ cacheTTL \in [Users -> [Questions -> 0..CacheTTL]]
  /\ title \in [Conversations -> {"auto", "renamed", "gone"}]
  /\ \A c \in Conversations : log[c] \in Seq(Requests)
  /\ pc \in [Requests -> Labels]
  /\ req \in [Requests -> [user : Users, question : Questions, conv : Conversations,
                           route : Routes, role : Levels, need : {0} \cup Levels]]
  /\ faults \in 0..MaxFaults
  /\ outcome \in [Requests -> Outcomes]
  /\ best \in [Requests -> Levels]
  /\ erased \subseteq Requests
  /\ unsaved \subseteq Requests

Init ==
  /\ count = [u \in Users |-> 0]
  /\ window = [u \in Users |-> NoTTL]
  /\ role \in [Users -> Levels]
  /\ cacheTTL = [u \in Users |-> [q \in Questions |-> 0]]
  /\ title = [c \in Conversations |-> "gone"]
  /\ log = [c \in Conversations |-> << >>]
  /\ pc = [r \in Requests |-> "new"]
  /\ \E u \in Users, q \in Questions, c \in Conversations :
       req = [r \in Requests |-> [user |-> u, question |-> q, conv |-> c, route |-> "chat",
                                  role |-> 1, need |-> 0]]
  /\ faults = 0
  /\ outcome = [r \in Requests |-> "none"]
  /\ best = [r \in Requests |-> 1]
  /\ erased = {}
  /\ unsaved = {}

-----------------------------------------------------------------------------
Goto(r, label) == pc' = [pc EXCEPT ![r] = label]

Told(r, what) == outcome' = [outcome EXCEPT ![r] = what]

\* The handler ends with an answer to the client.
Reply(r, what) == Goto(r, "end") /\ Told(r, what)

Highest(a, b) == IF a < b THEN b ELSE a

User(r) == req[r].user

\* POST /api/chat or /api/chat/stream with a valid token.  On the former the bot
\* of WhatsApp speaks for another user and is refused when the database does not
\* know that one.
Arrive(r) ==
  /\ pc[r] = "new"
  /\ \E u \in Users, q \in Questions, c \in Conversations, route \in Routes :
       /\ req' = [req EXCEPT ![r] = [@ EXCEPT !.user = u, !.question = q, !.conv = c,
                                              !.route = route]]
       /\ best' = [best EXCEPT ![r] = role[u]]
       /\ \/ Goto(r, "limit") /\ UNCHANGED outcome
          \/ route # "stream" /\ Reply(r, "refused")
  /\ UNCHANGED <<redis, postgres, faults, erased, unsaved>>

\* check_rate_limit: INCR.  Only the request that reads 1 sets the expiry time.
Limit(r) ==
  /\ pc[r] = "limit"
  /\ LET u == User(r)
         n == IF count[u] <= MaxRate THEN count[u] + 1 ELSE count[u]
     IN /\ count' = [count EXCEPT ![u] = n]
        /\ IF n = 1 THEN Goto(r, "expire") /\ UNCHANGED outcome
           ELSE IF n > MaxRate THEN Reply(r, "429")
           ELSE Goto(r, "role") /\ UNCHANGED outcome
  /\ UNCHANGED <<window, cacheTTL, postgres, req, faults, best, erased,
                 unsaved>>

\* check_rate_limit: EXPIRE.
ExpireLimit(r) ==
  /\ pc[r] = "expire"
  /\ window' = [window EXCEPT ![User(r)] = Window]
  /\ Goto(r, "role")
  /\ UNCHANGED <<count, cacheTTL, postgres, req, faults, history>>

\* get_user_role, once per request: what it reads is what the dispatcher uses.
ReadRole(r) ==
  /\ pc[r] = "role"
  /\ req' = [req EXCEPT ![r].role = role[User(r)]]
  /\ Goto(r, IF req[r].route \in {"audio", "image"} THEN req[r].route ELSE "validate")
  /\ UNCHANGED <<redis, postgres, faults, history>>

\* transcribe_audio_base64: a text, silence (422) or an error (500).
Transcribe(r) ==
  /\ pc[r] = "audio"
  /\ \/ Goto(r, "validate") /\ UNCHANGED outcome
     \/ Reply(r, "refused")
     \/ Reply(r, "500")
  /\ req' = [req EXCEPT ![r].route = "chat"]
  /\ UNCHANGED <<redis, postgres, faults, best, erased, unsaved>>

\* _analyze_image: the vision model, or an apology; no routing and no cache.
AnalyzeImage(r) ==
  /\ pc[r] = "image"
  /\ Goto(r, "persist")
  /\ UNCHANGED <<redis, postgres, req, faults, history>>

\* validate_prompt: too long or a forbidden pattern is refused; an empty
\* question too.  The stream has no cache.
Validate(r) ==
  /\ pc[r] = "validate"
  /\ \/ /\ Goto(r, IF req[r].route = "stream" THEN "route" ELSE "cache")
        /\ UNCHANGED outcome
     \/ Reply(r, "refused")
  /\ UNCHANGED <<redis, postgres, req, faults, best, erased, unsaved>>

\* _get_cached_response.
Lookup(r) ==
  /\ pc[r] = "cache"
  /\ Goto(r, IF cacheTTL[User(r)][req[r].question] > 0 THEN "persistCached" ELSE "route")
  /\ UNCHANGED <<redis, postgres, req, faults, history>>

\* Mutant: the role is not compared with the agent's.
RouteUnchecked(r) ==
  /\ pc[r] = "route"
  /\ \E need \in Levels :
       /\ req' = [req EXCEPT ![r].need = need]
       /\ Goto(r, "agent")
  /\ UNCHANGED <<redis, postgres, faults, outcome, best, erased, unsaved>>

\* The check of dispatch: has_min_role, with the role that was read before.
Permitted(r, need) == req[r].role >= need

\* AgentRouter.route: keywords, the LLM or an agent chosen by the client give any
\* intent.
Route(r) ==
  /\ pc[r] = "route"
  /\ \E need \in Levels :
       IF Permitted(r, need)
       THEN /\ req' = [req EXCEPT ![r].need = need]
            /\ Goto(r, "agent")
       ELSE /\ Goto(r, IF req[r].route = "stream" THEN "emit" ELSE "store")
            /\ UNCHANGED req
  /\ UNCHANGED <<redis, postgres, faults, outcome, best, erased, unsaved>>

\* _dispatch_direct or _dispatch_pipeline ends; dispatch turns an exception into
\* an answer.
AgentAnswers(r) ==
  /\ pc[r] = "agent"
  /\ Goto(r, IF req[r].route = "stream" THEN "emit" ELSE "store")
  /\ UNCHANGED <<redis, postgres, req, faults, history>>

\* _set_cached_response, with refusals and errors alike; an answer that is empty
\* or holds media is not stored.
StoreAnswer(r) ==
  /\ pc[r] = "store"
  /\ \/ cacheTTL' = [cacheTTL EXCEPT ![User(r)][req[r].question] = CacheTTL]
     \/ UNCHANGED cacheTTL
  /\ Goto(r, "persist")
  /\ UNCHANGED <<count, window, postgres, req, faults, history>>

\* The tokens are sent, and "done", before anything is saved; the client may
\* leave at any token, and between "done" and the saving.
Emit(r) ==
  /\ pc[r] = "emit"
  /\ \/ Goto(r, "persist") /\ Told(r, "200")
     \/ Reply(r, "left")
     \/ Reply(r, "200")
  /\ UNCHANGED <<redis, postgres, req, faults, best, erased, unsaved>>

-----------------------------------------------------------------------------
(* History of the conversation                                             *)

\* _persist_message, one transaction: INSERT ... ON CONFLICT keeps a title that
\* is there, a deleted conversation comes back, and the pair is added.
Saved(r) ==
  LET c == req[r].conv IN
    /\ title' = [title EXCEPT ![c] = IF @ = "gone" THEN "auto" ELSE @]
    /\ log' = [log EXCEPT ![c] = Append(@, r)]
    /\ UNCHANGED <<role, unsaved>>

\* Best effort: an exception of the database is logged and forgotten.
NotSaved(r) ==
  /\ faults' = faults + 1
  /\ unsaved' = unsaved \cup {r}
  /\ UNCHANGED postgres

\* Mutant: the answer is sent and the saving left to the next request.
PersistLater(r) ==
  /\ pc[r] = "persist"
  /\ IF req[r].route = "stream" THEN Goto(r, "end") /\ UNCHANGED outcome ELSE Reply(r, "200")
  /\ UNCHANGED <<redis, postgres, req, faults, best, erased, unsaved>>

\* The exchange is saved before /api/chat answers and after the stream has.
Persist(r) ==
  /\ pc[r] = "persist"
  /\ \/ Saved(r) /\ UNCHANGED faults
     \/ faults < MaxFaults /\ NotSaved(r)
  /\ IF req[r].route = "stream" THEN Goto(r, "end") /\ UNCHANGED outcome ELSE Reply(r, "200")
  /\ UNCHANGED <<redis, req, best, erased>>

\* A cached answer is saved like any other; then ChatResponse is built without
\* intent and elapsed_ms, which it requires: the client is told 500.
PersistCached(r) ==
  /\ pc[r] = "persistCached"
  /\ \/ Saved(r) /\ UNCHANGED faults
     \/ faults < MaxFaults /\ NotSaved(r)
  /\ Reply(r, "500")
  /\ UNCHANGED <<redis, req, best, erased>>

\* create_conversation makes up an id; here a free one is taken.
CreateConversation(c) ==
  /\ title[c] = "gone"
  /\ title' = [title EXCEPT ![c] = "renamed"]
  /\ UNCHANGED <<redis, role, log, pc, req, faults, history>>

\* update_conversation: 404 without a row.
UpdateConversation(c) ==
  /\ title[c] # "gone"
  /\ title' = [title EXCEPT ![c] = "renamed"]
  /\ UNCHANGED <<redis, role, log, pc, req, faults, history>>

\* delete_conversation: the messages and the conversation, in one transaction.
DeleteConversation(c) ==
  /\ title[c] # "gone"
  /\ title' = [title EXCEPT ![c] = "gone"]
  /\ log' = [log EXCEPT ![c] = << >>]
  /\ erased' = erased \cup {log[c][i] : i \in DOMAIN log[c]}
  /\ UNCHANGED <<redis, role, pc, req, faults, outcome, best, unsaved>>

\* An administrator changes a role, also while requests of the user run.
SetRole(u) ==
  /\ \E l \in Levels \ {role[u]} :
       /\ role' = [role EXCEPT ![u] = l]
       /\ best' = [r \in Requests |->
                     IF User(r) = u /\ pc[r] \notin {"new", "end"}
                     THEN Highest(best[r], l) ELSE best[r]]
  /\ UNCHANGED <<redis, title, log, pc, req, faults, outcome, erased, unsaved>>

-----------------------------------------------------------------------------
\* Redis or PostgreSQL raises.  Both checks of Redis let the request pass, the
\* role falls back to "user", the cache is as if it were empty.
CommandFails(r) ==
  /\ faults < MaxFaults
  /\ faults' = faults + 1
  /\ \/ pc[r] \in {"limit", "expire"} /\ Goto(r, "role") /\ UNCHANGED req
     \/ /\ pc[r] = "role"
        /\ req' = [req EXCEPT ![r].role = 1]
        /\ Goto(r, IF req[r].route \in {"audio", "image"} THEN req[r].route ELSE "validate")
     \/ pc[r] = "cache" /\ Goto(r, "route") /\ UNCHANGED req
     \/ pc[r] = "store" /\ Goto(r, "persist") /\ UNCHANGED req
  /\ UNCHANGED <<redis, postgres, outcome, best, erased, unsaved>>

\* The pod of the request dies; the client gets no answer, or no more of it.
PodDies(r) ==
  /\ faults < MaxFaults
  /\ faults' = faults + 1
  /\ pc[r] \notin {"new", "end"}
  /\ Goto(r, "end")
  /\ IF outcome[r] = "none" THEN Told(r, "lost") ELSE UNCHANGED outcome
  /\ UNCHANGED <<redis, postgres, req, best, erased, unsaved>>

\* Time passes and keys expire.
Tick ==
  /\ \E u \in Users : window[u] # NoTTL \/ \E q \in Questions : cacheTTL[u][q] > 0
  /\ count' = [u \in Users |-> IF window[u] = 1 THEN 0 ELSE count[u]]
  /\ window' = [u \in Users |-> IF window[u] \in {NoTTL, 1} THEN NoTTL ELSE window[u] - 1]
  /\ cacheTTL' = [u \in Users |-> [q \in Questions |->
                 IF cacheTTL[u][q] = 0 THEN 0 ELSE cacheTTL[u][q] - 1]]
  /\ UNCHANGED <<postgres, pc, req, faults, history>>

Step(r) ==
  \/ Limit(r) \/ ExpireLimit(r) \/ ReadRole(r) \/ Transcribe(r) \/ AnalyzeImage(r)
  \/ Validate(r) \/ Lookup(r) \/ Route(r) \/ AgentAnswers(r) \/ StoreAnswer(r)
  \/ Emit(r) \/ Persist(r) \/ PersistCached(r)

Conversing(c) ==
  CreateConversation(c) \/ UpdateConversation(c) \/ DeleteConversation(c)

Next ==
  \/ \E r \in Requests : Arrive(r) \/ Step(r) \/ CommandFails(r) \/ PodDies(r)
  \/ \E c \in Conversations : Conversing(c)
  \/ \E u \in Users : SetRole(u)
  \/ Tick

Spec == Init /\ [][Next]_vars

-----------------------------------------------------------------------------
\* No agent runs for a user who has not had the role it asks for at some moment
\* of the request, whatever an administrator changes meanwhile: the role a
\* handler acts on is never older than its request, and never made up.
AgentNeedsRole == \A r \in Requests : req[r].need <= best[r]

\* What /api/chat has answered is in the history until the user deletes it,
\* unless the database refused it.
AnsweredIsKept ==
  \A r \in Requests :
    outcome[r] = "200" /\ req[r].route # "stream" /\ r \notin erased \cup unsaved
      => \E i \in DOMAIN log[req[r].conv] : log[req[r].conv][i] = r

\* "Response cache [...] para queries idénticos": a question whose answer is in
\* the cache is answered with it.
RepeatIsAnswered ==
  [][ \A r \in Requests : pc[r] = "persistCached" /\ pc'[r] = "end"
        => outcome'[r] \in {"200", "lost"} ]_vars
=============================================================================
