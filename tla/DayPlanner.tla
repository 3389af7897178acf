----------------------------- MODULE DayPlanner -----------------------------
(***************************************************************************)
(* The plan of the day (interfaces/api/routers/planner.py, and the         *)
(* agents/productivity it calls): a CronJob posts to /daily, again when an *)
(* attempt fails; a key in Redis lets one attempt in every 20 hours do the *)
(* work; each active user gets a summary by WhatsApp and, from the plan of *)
(* an LLM, tasks in the calendar.                                          *)
(***************************************************************************)
EXTENDS Integers, FiniteSets

CONSTANTS
  Users,      \* active users, emails
  Attempts,   \* requests to /daily that may be served at a time, by any pod
  Window,     \* 72000 seconds in ticks, a tick being longer than an attempt
  MaxClaims, MaxFaults   \* bounds of the model

VARIABLES
  window,       \* time to live of rate_limit:planner_daily, 0 without the key
  pc,           \* where each attempt is
  todo,         \* users it has not come to
  user,         \* the user it is at
  summary,      \* what organize_day_for_user returned for that user
  credentials,  \* users whose tokens Vault has
  calendar,     \* users to whose calendar the tasks of a plan were sent
  claims, faults,
  \* history
  briefs,       \* how many summaries each user was sent since the last claim
  overlap,      \* an attempt went on although another had claimed the window
  answered      \* users for whom the LLM has answered with a plan

attempt == <<pc, todo, user, summary>>
vars == <<window, attempt, credentials, calendar, claims, faults, briefs, overlap, answered>>

NoUser == "nobody"

Summaries == {"noCredentials", "freeDay", "timeout", "invalid", "plan"}

\* Every provider of get_chat_llm answers with a message, here of a plan in JSON
\* or of something else; json.loads takes text.
Answers == [type : {"AIMessage"}, content : {"plan", "prose"}]

Loads(raw) == raw.type = "str" /\ raw.content = "plan"

TypeOK ==
  /\ window \in 0..Window
  /\ pc \in [Attempts -> {"idle", "check", "claim", "list", "next", "organize", "brief"}]
  /\ todo \in [Attempts -> SUBSET Users]
  /\ user \in [Attempts -> Users \cup {NoUser}]
  /\ summary \in [Attempts -> Summaries \cup {NoUser}]
  /\ credentials \cup calendar \cup answered \subseteq Users

Init ==
  /\ window = 0
  /\ pc = [r \in Attempts |-> "idle"]
  /\ todo = [r \in Attempts |-> {}]
  /\ user = [r \in Attempts |-> NoUser]
  /\ summary = [r \in Attempts |-> NoUser]
  /\ credentials = {}
  /\ calendar = {}
  /\ claims = 0
  /\ faults = 0
  /\ briefs = [u \in Users |-> 0]
  /\ overlap = FALSE
  /\ answered = {}

-----------------------------------------------------------------------------
Goto(r, label) == pc' = [pc EXCEPT ![r] = label]

Fault == faults < MaxFaults /\ faults' = faults + 1

\* The CronJob, or its retry.
Post(r) ==
  /\ pc[r] = "idle"
  /\ claims < MaxClaims
  /\ Goto(r, "check")
  /\ UNCHANGED <<window, todo, user, summary, credentials, calendar, claims, faults, briefs, overlap, answered>>

\* _check_planner_rate_limit: EXISTS, and 429 when the key is there.
Check(r) ==
  /\ pc[r] = "check"
  /\ Goto(r, IF window > 0 THEN "idle" ELSE "claim")
  /\ UNCHANGED <<window, todo, user, summary, credentials, calendar, claims, faults, briefs, overlap, answered>>

\* Mutant: nobody sets the key.
ClaimLater(r) ==
  /\ pc[r] = "claim"
  /\ claims < MaxClaims
  /\ claims' = claims + 1
  /\ Goto(r, "list")
  /\ UNCHANGED <<window, todo, user, summary, credentials, calendar, faults, briefs, overlap, answered>>

\* _check_planner_rate_limit: SETEX, by all who found no key.
Claim(r) ==
  /\ pc[r] = "claim"
  /\ claims < MaxClaims
  /\ window' = Window
  /\ overlap' = (window > 0 \/ (overlap /\ \E q \in Attempts \ {r} : pc[q] # "idle"))
  /\ claims' = claims + 1
  /\ briefs' = IF window > 0 THEN briefs ELSE [u \in Users |-> 0]
  /\ Goto(r, "list")
  /\ UNCHANGED <<todo, user, summary, credentials, calendar, faults, answered>>

\* _check_planner_rate_limit: Redis does not answer, and the attempt goes on.
CheckFails(r) ==
  /\ pc[r] \in {"check", "claim"}
  /\ Fault
  /\ overlap' = TRUE
  /\ Goto(r, "list")
  /\ UNCHANGED <<window, todo, user, summary, credentials, calendar, claims, briefs, answered>>

\* run_daily_planner: the active users.  When PostgreSQL does not answer the
\* attempt ends, with status 200 and the window claimed.
ListUsers(r) ==
  /\ pc[r] = "list"
  /\ \/ /\ todo' = [todo EXCEPT ![r] = Users]
        /\ Goto(r, "next")
        /\ UNCHANGED faults
     \/ /\ Fault
        /\ Goto(r, "idle")
        /\ UNCHANGED todo
  /\ UNCHANGED <<window, user, summary, credentials, calendar, claims, briefs, overlap, answered>>

NextUser(r) ==
  /\ pc[r] = "next"
  /\ \/ \E u \in todo[r] :
          /\ todo' = [todo EXCEPT ![r] = @ \ {u}]
          /\ user' = [user EXCEPT ![r] = u]
          /\ Goto(r, "organize")
     \/ /\ todo[r] = {}
        /\ user' = [user EXCEPT ![r] = NoUser]
        /\ Goto(r, "idle")
        /\ UNCHANGED todo
  /\ UNCHANGED <<window, summary, credentials, calendar, claims, faults, briefs, overlap, answered>>

\* get_user_credentials: none, too, when Vault does not give them.
CredentialsOf(u) == IF u \in credentials THEN BOOLEAN ELSE {FALSE}

\* get_todays_events, get_unread_emails: whether there are any.  What cannot be
\* read counts as none.
Events == BOOLEAN
Emails == BOOLEAN

\* sync_plan_to_calendar: every task is sent; one that is refused is left out.
SyncPlan(u) == calendar' = calendar \cup {u}

\* The plan of the LLM, which may not come or not be read.
PlanOf(r, u) ==
  \/ /\ summary' = [summary EXCEPT ![r] = "timeout"]
     /\ UNCHANGED <<calendar, answered>>
  \/ \E raw \in Answers :
       /\ answered' = IF raw.content = "plan" THEN answered \cup {u} ELSE answered
       /\ IF Loads(raw)
          THEN SyncPlan(u) /\ summary' = [summary EXCEPT ![r] = "plan"]
          ELSE UNCHANGED calendar /\ summary' = [summary EXCEPT ![r] = "invalid"]

\* organize_day_for_user: a summary, whatever happens.
OrganizeDay(r) ==
  LET u == user[r] IN
  /\ pc[r] = "organize"
  /\ Goto(r, "brief")
  /\ \E given \in CredentialsOf(u), events \in Events, emails \in Emails :
       IF given /\ (events \/ emails) THEN PlanOf(r, u)
       ELSE /\ summary' = [summary EXCEPT ![r] = IF given THEN "freeDay" ELSE "noCredentials"]
            /\ UNCHANGED <<calendar, answered>>
  /\ UNCHANGED <<window, todo, user, credentials, claims, faults, briefs, overlap>>

\* _send_brief_whatsapp: sent or not, the attempt goes on.
SendBrief(r) ==
  /\ pc[r] = "brief"
  /\ Goto(r, "next")
  /\ summary' = [summary EXCEPT ![r] = NoUser]
  /\ \/ briefs' = [briefs EXCEPT ![user[r]] = @ + 1]
     \/ briefs' = briefs
  /\ UNCHANGED <<window, todo, user, credentials, calendar, claims, faults, overlap, answered>>

\* The pod dies; the CronJob will be told and post again.
PodDies(r) ==
  /\ pc[r] # "idle"
  /\ Fault
  /\ Goto(r, "idle")
  /\ todo' = [todo EXCEPT ![r] = {}]
  /\ user' = [user EXCEPT ![r] = NoUser]
  /\ summary' = [summary EXCEPT ![r] = NoUser]
  /\ UNCHANGED <<window, credentials, calendar, claims, briefs, overlap, answered>>

\* calendar_callback: a user connects the calendar.
Connect(u) ==
  /\ u \notin credentials
  /\ credentials' = credentials \cup {u}
  /\ UNCHANGED <<window, attempt, calendar, claims, faults, briefs, overlap, answered>>

\* An attempt is much shorter than the window.
Tick ==
  /\ window > 0
  /\ \A r \in Attempts : pc[r] = "idle"
  /\ window' = window - 1
  /\ UNCHANGED <<attempt, credentials, calendar, claims, faults, briefs, overlap, answered>>

AttemptNext(r) ==
  \/ Post(r) \/ Check(r) \/ Claim(r) \/ CheckFails(r) \/ ListUsers(r)
  \/ NextUser(r) \/ OrganizeDay(r) \/ SendBrief(r) \/ PodDies(r)

Next ==
  \/ \E r \in Attempts : AttemptNext(r)
  \/ \E u \in Users : Connect(u)
  \/ Tick

Spec == Init /\ [][Next]_vars

-----------------------------------------------------------------------------
\* Whatever dies and is posted again, nobody gets a second summary in a window,
\* unless two attempts asked for the key before either had set it or Redis did
\* not answer.
BriefedOncePerWindow == overlap \/ \A u \in Users : briefs[u] <= 1

\* organize_day_for_user says it generates the plan with an LLM and syncs it to
\* the calendar: the calendars of the users for whom the LLM has answered with a
\* plan have its tasks.
PlanReachesCalendar == answered \subseteq calendar
==============================================================================
