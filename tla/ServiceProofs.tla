---------------------------- MODULE ServiceProofs ----------------------------
(***************************************************************************)
(* What the service keeps for any numbers of users, requests, documents    *)
(* and accounts, however their steps interleave: of the chat and its       *)
(* history, of documents and retrieval, of accounts and profiles, and of   *)
(* the plan of the day.                                                    *)
(***************************************************************************)
EXTENDS MCService, TLAPS

-----------------------------------------------------------------------------
(* Chat                                                                    *)

\* The levels of roles are numbers from 1 on.
LEMMA LevelsAreNumbers ==
  /\ Levels \subseteq Nat /\ 1 \in Levels
  /\ \A a \in Levels : a <= a
  /\ \A a, b \in Levels : Highest(a, b) \in Levels /\ a <= Highest(a, b) /\ b <= Highest(a, b)
BY ChatAssumption DEF Levels, Highest

Request ==
  [user : Users, question : Questions, conv : Conversations,
   route : Routes, role : Levels, need : {0} \cup Levels]

\* What the properties of the chat need of its types.
ChatTypes ==
  /\ role \in [Users -> Levels]
  /\ pc \in [Requests -> Labels]
  /\ req \in [Requests -> Request]
  /\ best \in [Requests -> Levels]
  /\ outcome \in [Requests -> Outcomes]
  /\ log \in [Conversations -> Seq(Requests)]
  /\ erased \subseteq Requests /\ unsaved \subseteq Requests

Running(r) == pc[r] \notin {"new", "end"}

InHistory(r, c) == \E i \in DOMAIN log[c] : log[c][i] = r

\* What holds of a request: neither the role that was read nor the agent's exceeds
\* the highest that its user has had since it came, and while it runs the user's role
\* does not either; 200 is told when the exchange is saved, by the stream before.
Sound(r) ==
  /\ req[r].need <= best[r] /\ req[r].role <= best[r]
  /\ pc[r] = "new" => req[r].need = 0 /\ req[r].role = 1
  /\ Running(r) => role[User(r)] <= best[r]
  /\ outcome[r] = "200" => pc[r] = "end" \/ (pc[r] = "persist" /\ req[r].route = "stream")
  /\ pc[r] = "emit" => req[r].route = "stream"
  /\ outcome[r] = "200" /\ req[r].route # "stream" /\ r \notin erased \cup unsaved
       => InHistory(r, req[r].conv)

ChatSound == ChatTypes /\ \A r \in Requests : Sound(r)

\* What a handler does to the others: nothing, but that the history grows.
LEMMA HandlerStep ==
  ASSUME ChatSound, NEW r \in Requests, NEW p \in Labels, NEW x \in Request,
         NEW o \in Outcomes, NEW b \in Levels,
         pc' = [pc EXCEPT ![r] = p], req' = [req EXCEPT ![r] = x],
         outcome' = [outcome EXCEPT ![r] = o], best' = [best EXCEPT ![r] = b],
         role' = role, erased' = erased, unsaved' \in {unsaved, unsaved \cup {r}},
         log' \in [Conversations -> Seq(Requests)],
         \A q \in Requests, c \in Conversations : InHistory(q, c) => InHistory(q, c)',
         x.need <= b /\ x.role <= b,
         p # "new",
         p # "end" => role[x.user] <= b,
         o = "200" => p = "end" \/ (p = "persist" /\ x.route = "stream"),
         p = "emit" => x.route = "stream",
         o = "200" /\ x.route # "stream" /\ r \notin erased' \cup unsaved'
           => InHistory(r, x.conv)'
  PROVE  ChatSound'
<1>1. ChatTypes'
  BY DEF ChatSound, ChatTypes
<1>2. ASSUME NEW q \in Requests
      PROVE  Sound(q)'
  <2>1. CASE q = r
    <3>1. pc'[r] = p /\ req'[r] = x /\ outcome'[r] = o /\ best'[r] = b
      BY DEF ChatSound, ChatTypes
    <3>2. QED
      BY <2>1, <3>1 DEF Sound, Running, User, InHistory
  <2>2. CASE q # r
    <3>1. pc'[q] = pc[q] /\ req'[q] = req[q] /\ outcome'[q] = outcome[q] /\ best'[q] = best[q]
      BY <2>2 DEF ChatSound, ChatTypes
    <3>2. Sound(q) /\ req[q].conv \in Conversations
      BY DEF ChatSound, ChatTypes, Request
    <3>3. q \notin (erased \cup unsaved)' => q \notin erased \cup unsaved
      BY <2>2
    <3>4. InHistory(q, req[q].conv) => \E i \in DOMAIN log'[req[q].conv] : log'[req[q].conv][i] = q
      BY <3>2 DEF InHistory
    <3>5. QED
      BY <3>1, <3>2, <3>3, <3>4 DEF Sound, Running, User, InHistory
  <2>3. QED
    BY <2>1, <2>2
<1>3. QED
  BY <1>1, <1>2 DEF ChatSound

\* A handler that goes on without touching its request, the roles or the history.
LEMMA MoveStep ==
  ASSUME ChatSound, NEW r \in Requests, NEW p \in Labels, NEW o \in Outcomes,
         Running(r), p # "new",
         pc' = [pc EXCEPT ![r] = p], outcome' = [outcome EXCEPT ![r] = o],
         UNCHANGED <<req, best, role, log, erased, unsaved>>,
         o = "200" => p \in {"persist", "end"} /\ req[r].route = "stream",
         p = "emit" => req[r].route = "stream"
  PROVE  ChatSound'
<1>1. req[r] \in Request /\ best[r] \in Levels /\ Sound(r)
  BY DEF ChatSound, ChatTypes
<1>2. req' = [req EXCEPT ![r] = req[r]] /\ best' = [best EXCEPT ![r] = best[r]]
  BY DEF ChatSound, ChatTypes
<1>3. log' \in [Conversations -> Seq(Requests)]
  BY DEF ChatSound, ChatTypes
<1>4. \A q \in Requests, c \in Conversations : InHistory(q, c) => InHistory(q, c)'
  BY DEF InHistory
<1>5. PICK x \in Request, b \in Levels : x = req[r] /\ b = best[r]
  BY <1>1
<1>6. x.need <= b /\ x.role <= b /\ role[x.user] <= b
  BY <1>1, <1>5 DEF Sound, User
<1>7. QED
  BY <1>2, <1>3, <1>4, <1>5, <1>6, HandlerStep

\* Nothing was told yet, or the tokens are sent and the exchange is not saved.
LEMMA NotTold ==
  ASSUME ChatSound, NEW r \in Requests
  PROVE  /\ outcome[r] \in Outcomes
         /\ pc[r] \notin {"persist", "end"} => outcome[r] # "200"
         /\ pc[r] = "persist" /\ outcome[r] = "200" => req[r].route = "stream"
         /\ pc[r] = "emit" => req[r].route = "stream"
BY DEF ChatSound, ChatTypes, Sound

\* Where the pure moves of the handlers lead.
LEMMA GoStep ==
  ASSUME ChatSound, NEW r \in Requests,
         \/ Limit(r) \/ ExpireLimit(r) \/ AnalyzeImage(r) \/ Validate(r) \/ Lookup(r)
         \/ AgentAnswers(r) \/ StoreAnswer(r) \/ Emit(r) \/ PodDies(r)
  PROVE  ChatSound'
<1>1. outcome = [outcome EXCEPT ![r] = outcome[r]]
  BY DEF ChatSound, ChatTypes
<1>2. UNCHANGED <<req, best, role, log, erased, unsaved>> /\ Running(r)
  BY DEF Limit, ExpireLimit, AnalyzeImage, Validate, Lookup, AgentAnswers, StoreAnswer,
     Emit, PodDies, redis, postgres, history, Running, Told, Reply
<1>3. /\ pc' = [pc EXCEPT ![r] = pc'[r]] /\ pc'[r] \in Labels \ {"new"}
      /\ outcome' = [outcome EXCEPT ![r] = outcome'[r]] /\ outcome'[r] \in Outcomes
      /\ outcome'[r] = "200" => pc'[r] \in {"persist", "end"} /\ req[r].route = "stream"
      /\ pc'[r] = "emit" => req[r].route = "stream"
  <2> pc \in [Requests -> Labels] /\ outcome \in [Requests -> Outcomes]
    BY DEF ChatSound, ChatTypes
  <2>1. CASE Limit(r)
    BY <1>1, <2>1, NotTold DEF Limit, Goto, Reply, Told, Labels, Outcomes
  <2>2. CASE ExpireLimit(r)
    BY <1>1, <2>2, NotTold DEF ExpireLimit, Goto, Labels, history
  <2>3. CASE AnalyzeImage(r)
    BY <1>1, <2>3, NotTold DEF AnalyzeImage, Goto, Labels, history
  <2>4. CASE Validate(r)
    BY <1>1, <2>4, NotTold DEF Validate, Goto, Reply, Told, Labels, Outcomes
  <2>5. CASE Lookup(r)
    BY <1>1, <2>5, NotTold DEF Lookup, Goto, Labels, history
  <2>6. CASE AgentAnswers(r)
    BY <1>1, <2>6, NotTold DEF AgentAnswers, Goto, Labels, history
  <2>7. CASE StoreAnswer(r)
    BY <1>1, <2>7, NotTold DEF StoreAnswer, Goto, Labels, history
  <2>8. CASE Emit(r)
    BY <1>1, <2>8, NotTold DEF Emit, Goto, Reply, Told, Labels, Outcomes
  <2>9. CASE PodDies(r)
    BY <1>1, <2>9, NotTold DEF PodDies, Goto, Told, Labels, Outcomes
  <2>10. QED
    BY <2>1, <2>2, <2>3, <2>4, <2>5, <2>6, <2>7, <2>8, <2>9
<1>4. PICK p \in Labels \ {"new"}, o \in Outcomes : p = pc'[r] /\ o = outcome'[r]
  BY <1>3
<1>5. QED
  BY <1>2, <1>3, <1>4, MoveStep

\* A handler that changes what it knows of its request: the role that it read, the
\* agent that it runs or the kind of the question.
LEMMA LearnStep ==
  ASSUME ChatSound, NEW r \in Requests, NEW p \in Labels, NEW x \in Request,
         NEW o \in Outcomes, Running(r), p \notin {"new", "emit"}, o # "200",
         pc' = [pc EXCEPT ![r] = p], req' = [req EXCEPT ![r] = x],
         outcome' = [outcome EXCEPT ![r] = o],
         UNCHANGED <<best, role, log, erased, unsaved>>,
         x.user = req[r].user, x.need <= best[r], x.role <= best[r]
  PROVE  ChatSound'
<1>1. best[r] \in Levels /\ Sound(r)
  BY DEF ChatSound, ChatTypes
<1>2. best' = [best EXCEPT ![r] = best[r]]
  BY DEF ChatSound, ChatTypes
<1>3. log' \in [Conversations -> Seq(Requests)]
  BY DEF ChatSound, ChatTypes
<1>4. \A q \in Requests, c \in Conversations : InHistory(q, c) => InHistory(q, c)'
  BY DEF InHistory
<1>5. PICK b \in Levels : b = best[r]
  BY <1>1
<1>6. role[x.user] <= b
  BY <1>1, <1>5 DEF Sound, User
<1>7. QED
  BY <1>2, <1>3, <1>4, <1>5, <1>6, HandlerStep

\* The steps that read the role, choose the agent or classify the question.
LEMMA LearningStep ==
  ASSUME ChatSound, NEW r \in Requests,
         ReadRole(r) \/ Transcribe(r) \/ Route(r) \/ CommandFails(r)
  PROVE  ChatSound'
<1>1. outcome = [outcome EXCEPT ![r] = outcome[r]] /\ req = [req EXCEPT ![r] = req[r]]
  BY DEF ChatSound, ChatTypes
<1>2. UNCHANGED <<best, role, log, erased, unsaved>>
  BY DEF ReadRole, Transcribe, Route, CommandFails, redis, postgres, history
<1>3. Running(r) /\ pc[r] \notin {"persist", "end", "new"}
  BY DEF ReadRole, Transcribe, Route, CommandFails, Running
<1>4. /\ req[r] \in Request /\ best[r] \in Levels /\ Sound(r) /\ outcome[r] # "200"
      /\ outcome[r] \in Outcomes /\ role[req[r].user] \in Levels
  BY <1>3, NotTold DEF ChatSound, ChatTypes, Request
<1>5. /\ req[r].need <= best[r] /\ req[r].role <= best[r] /\ role[req[r].user] <= best[r]
      /\ 1 <= best[r]
  BY <1>3, <1>4, ChatAssumption DEF Sound, User, Levels
<1>6. CASE ReadRole(r)
  <2> DEFINE x == [req[r] EXCEPT !.role = role[req[r].user]]
  <2>1. x \in Request /\ x.user = req[r].user /\ x.need = req[r].need
        /\ x.role = role[req[r].user]
    BY <1>4 DEF Request
  <2>2. req' = [req EXCEPT ![r] = x] /\ outcome' = [outcome EXCEPT ![r] = outcome[r]]
    BY <1>1, <1>6 DEF ReadRole, User, history
  <2>3. PICK p \in Labels \ {"new", "emit"} : pc' = [pc EXCEPT ![r] = p]
    BY <1>6 DEF ReadRole, Goto, Labels
  <2>4. PICK y \in Request, o \in Outcomes : y = x /\ o = outcome[r]
    BY <1>4, <2>1
  <2> HIDE DEF x
  <2>5. QED
    BY <1>2, <1>3, <1>4, <1>5, <2>1, <2>2, <2>3, <2>4, LearnStep
<1>7. CASE Transcribe(r)
  <2> DEFINE x == [req[r] EXCEPT !.route = "chat"]
  <2>1. x \in Request /\ x.user = req[r].user /\ x.need = req[r].need
        /\ x.role = req[r].role
    BY <1>4 DEF Request, Routes
  <2>2. req' = [req EXCEPT ![r] = x]
    BY <1>7 DEF Transcribe
  <2>3. PICK p \in Labels \ {"new", "emit"}, o \in Outcomes \ {"200"} :
          pc' = [pc EXCEPT ![r] = p] /\ outcome' = [outcome EXCEPT ![r] = o]
    BY <1>1, <1>4, <1>7 DEF Transcribe, Goto, Reply, Told, Labels, Outcomes
  <2>4. PICK y \in Request : y = x
    BY <2>1
  <2> HIDE DEF x
  <2>5. QED
    BY <1>2, <1>3, <1>5, <2>1, <2>2, <2>3, <2>4, LearnStep
<1>8. CASE Route(r)
  <2>1. PICK need \in Levels :
          IF Permitted(r, need)
          THEN req' = [req EXCEPT ![r].need = need] /\ Goto(r, "agent")
          ELSE Goto(r, IF req[r].route = "stream" THEN "emit" ELSE "store") /\ UNCHANGED req
    BY <1>8 DEF Route
  <2>2. outcome' = [outcome EXCEPT ![r] = outcome[r]]
    BY <1>1, <1>8 DEF Route
  <2>3. CASE Permitted(r, need)
    <3> DEFINE x == [req[r] EXCEPT !.need = need]
    <3>1. x \in Request /\ x.user = req[r].user /\ x.need = need /\ x.role = req[r].role
      BY <1>4 DEF Request
    <3>2. req' = [req EXCEPT ![r] = x] /\ pc' = [pc EXCEPT ![r] = "agent"]
      BY <2>1, <2>3 DEF Goto
    <3>3. need <= best[r]
      <4>1. need <= req[r].role /\ req[r].role <= best[r]
        BY <1>5, <2>3 DEF Permitted
      <4>2. need \in Nat /\ req[r].role \in Nat /\ best[r] \in Nat
        BY <1>4, ChatAssumption DEF Request, Levels
      <4>3. QED
        BY <4>1, <4>2
    <3>4. PICK y \in Request, o \in Outcomes : y = x /\ o = outcome[r]
      BY <1>4, <3>1
    <3>5. "agent" \in Labels \ {"new", "emit"}
      BY DEF Labels
    <3> HIDE DEF x
    <3>6. QED
      BY <1>2, <1>3, <1>4, <1>5, <2>2, <3>1, <3>2, <3>3, <3>4, <3>5, LearnStep
  <2>4. CASE ~ Permitted(r, need)
    <3>1. PICK p \in Labels \ {"new"} :
            pc' = [pc EXCEPT ![r] = p] /\ req' = req
              /\ (p = "emit" => req[r].route = "stream")
      BY <2>1, <2>4 DEF Goto, Labels
    <3>2. PICK o \in Outcomes : o = outcome[r]
      BY <1>4
    <3>3. QED
      BY <1>2, <1>3, <1>4, <2>2, <3>1, <3>2, MoveStep
  <2>5. QED
    BY <2>3, <2>4
<1>9. CASE CommandFails(r)
  <2>1. outcome' = [outcome EXCEPT ![r] = outcome[r]]
    BY <1>1, <1>9 DEF CommandFails
  <2>2. PICK o \in Outcomes : o = outcome[r]
    BY <1>4
  <2>3. CASE UNCHANGED req
    <3>1. PICK p \in Labels \ {"new", "emit"} : pc' = [pc EXCEPT ![r] = p]
      BY <1>9 DEF CommandFails, Goto, Labels
    <3>2. QED
      BY <1>2, <1>3, <1>4, <2>1, <2>2, <2>3, <3>1, MoveStep
  <2>4. CASE req' = [req EXCEPT ![r].role = 1]
    <3> DEFINE x == [req[r] EXCEPT !.role = 1]
    <3>1. x \in Request /\ x.user = req[r].user /\ x.need = req[r].need /\ x.role = 1
      BY <1>4, LevelsAreNumbers DEF Request
    <3>2. req' = [req EXCEPT ![r] = x]
      BY <2>4
    <3>3. PICK p \in Labels \ {"new", "emit"} : pc' = [pc EXCEPT ![r] = p]
      BY <1>9 DEF CommandFails, Goto, Labels
    <3>4. PICK y \in Request : y = x
      BY <3>1
    <3> HIDE DEF x
    <3>5. QED
      BY <1>2, <1>3, <1>4, <1>5, <2>1, <2>2, <3>1, <3>2, <3>3, <3>4, LearnStep
  <2>5. QED
    BY <1>9, <2>3, <2>4 DEF CommandFails
<1>10. QED
  BY <1>6, <1>7, <1>8, <1>9

\* A request that comes has no agent yet, and its user the role of that moment.
LEMMA ArriveStep ==
  ASSUME ChatSound, NEW r \in Requests, Arrive(r)
  PROVE  ChatSound'
<1>1. /\ pc[r] = "new" /\ req[r] \in Request /\ outcome[r] \in Outcomes
      /\ outcome[r] # "200" /\ req[r].need = 0 /\ req[r].role = 1
      /\ role \in [Users -> Levels]
  BY NotTold DEF Arrive, ChatSound, ChatTypes, Sound
<1>2. PICK u \in Users, q \in Questions, c \in Conversations, route \in Routes :
        /\ req' = [req EXCEPT ![r] = [req[r] EXCEPT !.user = u, !.question = q, !.conv = c,
                                                    !.route = route]]
        /\ best' = [best EXCEPT ![r] = role[u]]
        /\ \/ Goto(r, "limit") /\ UNCHANGED outcome
           \/ route # "stream" /\ Reply(r, "refused")
  BY DEF Arrive
<1>3. UNCHANGED <<role, log, erased, unsaved>>
  BY DEF Arrive, postgres
<1> DEFINE x == [req[r] EXCEPT !.user = u, !.question = q, !.conv = c, !.route = route]
<1>4. x \in Request /\ x.user = u /\ x.need = 0 /\ x.role = 1
  BY <1>1 DEF Request
<1>5. /\ pc' = [pc EXCEPT ![r] = pc'[r]] /\ pc'[r] \in Labels \ {"new", "emit"}
      /\ outcome' = [outcome EXCEPT ![r] = outcome'[r]] /\ outcome'[r] \in Outcomes \ {"200"}
  <2> pc \in [Requests -> Labels] /\ outcome \in [Requests -> Outcomes]
    BY DEF ChatSound, ChatTypes
  <2>1. QED
    BY <1>1, <1>2 DEF Goto, Reply, Told, Labels, Outcomes
<1>6. PICK p \in Labels \ {"new", "emit"}, o \in Outcomes \ {"200"}, y \in Request, b \in Levels :
        p = pc'[r] /\ o = outcome'[r] /\ y = x /\ b = role[u]
  BY <1>1, <1>4, <1>5
<1>7. y.need <= b /\ y.role <= b /\ role[y.user] <= b
  BY <1>1, <1>4, <1>6, ChatAssumption DEF Levels
<1>8. log' \in [Conversations -> Seq(Requests)]
  BY <1>3 DEF ChatSound, ChatTypes
<1>9. \A k \in Requests, d \in Conversations : InHistory(k, d) => InHistory(k, d)'
  BY <1>3 DEF InHistory
<1> HIDE DEF x
<1>10. req' = [req EXCEPT ![r] = y] /\ best' = [best EXCEPT ![r] = b]
  BY <1>2, <1>6 DEF x
<1>11. QED
  BY <1>3, <1>5, <1>6, <1>7, <1>8, <1>9, <1>10, HandlerStep

\* An exchange that is appended is in the history, with all that was there.
LEMMA SavedStep ==
  ASSUME ChatSound, NEW r \in Requests, Saved(r), NEW d, d = req[r].conv
  PROVE  /\ log' \in [Conversations -> Seq(Requests)]
         /\ \A q \in Requests, c \in Conversations : InHistory(q, c) => InHistory(q, c)'
         /\ InHistory(r, d)'
<1>1. log \in [Conversations -> Seq(Requests)] /\ req[r].conv \in Conversations
  BY DEF ChatSound, ChatTypes, Request
<1>2. log' = [log EXCEPT ![req[r].conv] = Append(log[req[r].conv], r)]
  BY DEF Saved
<1>3. PICK before \in Seq(Requests) : d \in Conversations /\ before = log[d]
  BY <1>1
<1>4. /\ Append(before, r) \in Seq(Requests)
      /\ DOMAIN Append(before, r) = 1..(Len(before) + 1)
      /\ Append(before, r)[Len(before) + 1] = r
      /\ \A i \in DOMAIN before : i \in DOMAIN Append(before, r) /\ Append(before, r)[i] = before[i]
      /\ Len(before) \in Nat
  OBVIOUS
<1>5. log' \in [Conversations -> Seq(Requests)]
  BY <1>1, <1>2, <1>3, <1>4
<1>6. log'[d] = Append(before, r) /\ \A c \in Conversations : c # d => log'[c] = log[c]
  BY <1>1, <1>2, <1>3
<1>7. ASSUME NEW q \in Requests, NEW c \in Conversations, InHistory(q, c)
      PROVE  InHistory(q, c)'
  <2>1. CASE c = d
    BY <1>3, <1>4, <1>6, <1>7, <2>1 DEF InHistory
  <2>2. CASE c # d
    BY <1>6, <1>7, <2>2 DEF InHistory
  <2>3. QED
    BY <2>1, <2>2
<1>8. \E i \in DOMAIN log'[d] : log'[d][i] = r
  <2>1. Len(before) + 1 \in DOMAIN log'[d]
    BY <1>4, <1>6
  <2>2. QED
    BY <1>4, <1>6, <2>1
<1>9. QED
  BY <1>5, <1>7, <1>8 DEF InHistory

\* /api/chat answers 200 when the exchange is saved or the database has refused it;
\* the answer from the cache becomes 500.
LEMMA PersistStep ==
  ASSUME ChatSound, NEW r \in Requests, Persist(r) \/ PersistCached(r)
  PROVE  ChatSound'
<1>1. /\ pc[r] \in {"persist", "persistCached"} /\ req[r] \in Request /\ best[r] \in Levels
      /\ Sound(r) /\ outcome[r] \in Outcomes
  BY DEF Persist, PersistCached, ChatSound, ChatTypes
<1>2. UNCHANGED <<role, req, best, erased>>
  BY DEF Persist, PersistCached, Saved, NotSaved, postgres
<1>3. PICK x \in Request, b \in Levels : x = req[r] /\ b = best[r]
  BY <1>1
<1>4. req' = [req EXCEPT ![r] = x] /\ best' = [best EXCEPT ![r] = b]
  BY <1>2, <1>3 DEF ChatSound, ChatTypes
<1>5. x.need <= b /\ x.role <= b /\ role[x.user] <= b
  BY <1>1, <1>3 DEF Sound, User, Running
<1>6. PICK o \in Outcomes :
        /\ pc' = [pc EXCEPT ![r] = "end"] /\ outcome' = [outcome EXCEPT ![r] = o]
  <2> pc \in [Requests -> Labels] /\ outcome \in [Requests -> Outcomes]
    BY DEF ChatSound, ChatTypes
  <2>1. /\ pc' = [pc EXCEPT ![r] = "end"]
        /\ outcome' = [outcome EXCEPT ![r] = outcome'[r]] /\ outcome'[r] \in Outcomes
    BY <1>1 DEF Persist, PersistCached, Goto, Reply, Told, Outcomes
  <2>2. QED
    BY <2>1
<1>7. "end" \in Labels
  BY DEF Labels
<1>8. CASE Saved(r)
  <2>1. /\ log' \in [Conversations -> Seq(Requests)]
        /\ \A q \in Requests, c \in Conversations : InHistory(q, c) => InHistory(q, c)'
        /\ InHistory(r, x.conv)'
    BY <1>3, <1>8, SavedStep
  <2>2. unsaved' = unsaved
    BY <1>8 DEF Saved
  <2>3. QED
    BY <1>2, <1>3, <1>4, <1>5, <1>6, <1>7, <2>1, <2>2, HandlerStep
<1>9. CASE NotSaved(r)
  <2>1. log' = log /\ unsaved' = unsaved \cup {r}
    BY <1>9 DEF NotSaved, postgres
  <2>2. log' \in [Conversations -> Seq(Requests)]
    BY <2>1 DEF ChatSound, ChatTypes
  <2>3. \A q \in Requests, c \in Conversations : InHistory(q, c) => InHistory(q, c)'
    BY <2>1 DEF InHistory
  <2>4. QED
    BY <1>2, <1>3, <1>4, <1>5, <1>6, <1>7, <2>1, <2>2, <2>3, HandlerStep
<1>10. QED
  BY <1>8, <1>9 DEF Persist, PersistCached

\* The user renames or deletes a conversation: what is deleted counts as erased.
LEMMA ConversingStep ==
  ASSUME ChatSound, NEW c \in Conversations, Conversing(c)
  PROVE  ChatSound'
<1>1. UNCHANGED <<role, pc, req, best, outcome, unsaved>>
  BY DEF Conversing, CreateConversation, UpdateConversation, DeleteConversation, redis, history
<1>2. log \in [Conversations -> Seq(Requests)] /\ erased \subseteq Requests
  BY DEF ChatSound, ChatTypes
<1>3. CASE UNCHANGED <<log, erased>>
  BY <1>1, <1>3 DEF ChatSound, ChatTypes, Sound, Running, User, InHistory
<1>4. CASE DeleteConversation(c)
  <2>1. log' = [log EXCEPT ![c] = << >>] /\ erased' = erased \cup {log[c][i] : i \in DOMAIN log[c]}
    BY <1>4 DEF DeleteConversation
  <2>2. log[c] \in Seq(Requests)
    BY <1>2
  <2>3. \A i \in DOMAIN log[c] : log[c][i] \in Requests
    BY <2>2
  <2>4. << >> \in Seq(Requests)
    OBVIOUS
  <2>5. log' \in [Conversations -> Seq(Requests)] /\ erased' \subseteq Requests
    BY <1>2, <2>1, <2>3, <2>4
  <2>6. ChatTypes'
    BY <1>1, <2>5 DEF ChatSound, ChatTypes
  <2>7. ASSUME NEW r \in Requests
        PROVE  Sound(r)'
    <3>1. Sound(r) /\ req[r].conv \in Conversations
      BY DEF ChatSound, ChatTypes, Request
    <3>2. CASE req[r].conv = c /\ InHistory(r, c)
      <4>1. r \in erased'
        BY <2>1, <3>2 DEF InHistory
      <4>2. QED
        BY <1>1, <3>1, <4>1 DEF Sound, Running, User
    <3>3. CASE req[r].conv = c /\ ~ InHistory(r, c)
      <4>1. r \in erased => r \in erased'
        BY <2>1
      <4>2. QED
        BY <1>1, <3>1, <3>3, <4>1 DEF Sound, Running, User
    <3>4. CASE req[r].conv # c
      <4>1. r \in erased => r \in erased'
        BY <2>1
      <4>2. log'[req[r].conv] = log[req[r].conv]
        BY <1>2, <2>1, <3>1, <3>4
      <4>3. QED
        BY <1>1, <3>1, <4>1, <4>2 DEF Sound, Running, User, InHistory
    <3>5. QED
      BY <3>2, <3>3, <3>4
  <2>8. QED
    BY <2>6, <2>7 DEF ChatSound
<1>5. QED
  BY <1>3, <1>4 DEF Conversing, CreateConversation, UpdateConversation, history

\* A new role counts for the requests of the user that run.
LEMMA SetRoleStep ==
  ASSUME ChatSound, NEW u \in Users, SetRole(u)
  PROVE  ChatSound'
<1>1. UNCHANGED <<log, pc, req, outcome, erased, unsaved>>
  BY DEF SetRole, redis
<1>2. PICK l \in Levels :
        /\ role' = [role EXCEPT ![u] = l]
        /\ best' = [r \in Requests |->
                      IF User(r) = u /\ pc[r] \notin {"new", "end"}
                      THEN Highest(best[r], l) ELSE best[r]]
  BY DEF SetRole
<1>3. role \in [Users -> Levels] /\ best \in [Requests -> Levels] /\ req \in [Requests -> Request]
  BY DEF ChatSound, ChatTypes
<1>4. ASSUME NEW r \in Requests
      PROVE  best'[r] \in Levels /\ best[r] <= best'[r]
  <2>1. best[r] \in Levels
    BY <1>3
  <2>2. best'[r] = Highest(best[r], l) \/ best'[r] = best[r]
    BY <1>2
  <2>3. Highest(best[r], l) \in Levels /\ best[r] <= Highest(best[r], l)
    BY <2>1, LevelsAreNumbers
  <2>4. best[r] <= best[r]
    BY <2>1, LevelsAreNumbers
  <2>5. QED
    BY <2>1, <2>2, <2>3, <2>4
<1>5. role' \in [Users -> Levels] /\ best' \in [Requests -> Levels]
  <2>1. best' = [r \in Requests |-> best'[r]]
    BY <1>2
  <2>2. QED
    BY <1>2, <1>3, <1>4, <2>1
<1>6. ASSUME NEW r \in Requests
      PROVE  Sound(r)'
  <2>1. Sound(r) /\ req[r] \in Request
    BY <1>3 DEF ChatSound
  <2>2. best[r] \in Levels /\ best'[r] \in Levels /\ best[r] <= best'[r]
    BY <1>3, <1>4
  <2>3. req[r].need <= best'[r] /\ req[r].role <= best'[r]
    BY <2>1, <2>2, LevelsAreNumbers DEF Sound, Request
  <2>4. Running(r) => role'[User(r)] <= best'[r]
    <3> SUFFICES ASSUME Running(r) PROVE role'[User(r)] <= best'[r]
      OBVIOUS
    <3>1. role[User(r)] <= best[r] /\ User(r) \in Users
      BY <2>1 DEF Sound, User, Request
    <3>2. CASE User(r) = u
      <4>1. role'[User(r)] = l /\ best'[r] = Highest(best[r], l)
        BY <1>2, <1>3, <3>2 DEF Running
      <4>2. QED
        BY <2>2, <4>1, LevelsAreNumbers
    <3>3. CASE User(r) # u
      <4>1. role'[User(r)] = role[User(r)] /\ best'[r] = best[r]
        BY <1>2, <1>3, <3>3
      <4>2. QED
        BY <3>1, <4>1
    <3>4. QED
      BY <3>2, <3>3
  <2>5. QED
    BY <1>1, <2>1, <2>3, <2>4 DEF Sound, Running, User, InHistory
<1>7. QED
  BY <1>1, <1>5, <1>6 DEF ChatSound, ChatTypes

\* No step of the chat disturbs it.
LEMMA ChatStaysSound == ChatSound /\ [Next]_vars => ChatSound'
<1> SUFFICES ASSUME ChatSound, [Next]_vars
             PROVE  ChatSound'
  OBVIOUS
<1>1. CASE UNCHANGED <<role, pc, req, best, outcome, log, erased, unsaved>>
  BY <1>1 DEF ChatSound, ChatTypes, Sound, Running, User, InHistory
<1>2. CASE \E r \in Requests : Arrive(r)
  BY <1>2, ArriveStep
<1>3. CASE \E r \in Requests : Step(r)
  BY <1>3, GoStep, LearningStep, PersistStep DEF Step
<1>4. CASE \E r \in Requests : CommandFails(r) \/ PodDies(r)
  BY <1>4, LearningStep, GoStep
<1>5. CASE \E c \in Conversations : Conversing(c)
  BY <1>5, ConversingStep
<1>6. CASE \E u \in Users : SetRole(u)
  BY <1>6, SetRoleStep
<1>7. CASE Tick
  BY <1>1, <1>7 DEF Tick, postgres, history
<1>8. CASE UNCHANGED vars
  BY <1>1, <1>8 DEF vars, postgres, history
<1>9. QED
  BY <1>2, <1>3, <1>4, <1>5, <1>6, <1>7, <1>8 DEF Next

\* The chat starts with nobody running and nothing said.
LEMMA ChatStartsSound == Init => ChatSound
<1> SUFFICES ASSUME Init PROVE ChatSound
  OBVIOUS
<1>1. PICK u \in Users, q \in Questions, c \in Conversations :
        req = [r \in Requests |-> [user |-> u, question |-> q, conv |-> c, route |-> "chat",
                                   role |-> 1, need |-> 0]]
  BY DEF Init
<1>2. 1 \in Levels /\ 0 <= 1 /\ 1 <= 1
  BY LevelsAreNumbers
<1>3. \A r \in Requests : req[r] \in Request /\ req[r].role = 1 /\ req[r].need = 0
  BY <1>1, <1>2 DEF Request, Routes
<1>4. << >> \in Seq(Requests)
  OBVIOUS
<1>5. ChatTypes
  <2>1. req \in [Requests -> Request]
    BY <1>1, <1>3
  <2>2. QED
    BY <1>2, <1>4, <2>1 DEF Init, ChatTypes, Labels, Outcomes
<1>6. ASSUME NEW r \in Requests
      PROVE  Sound(r)
  BY <1>2, <1>3 DEF Init, Sound, Running
<1>7. QED
  BY <1>5, <1>6 DEF ChatSound

\* No agent runs for a user who has not had its role at some moment of the request,
\* whoever is promoted or demoted meanwhile and whatever fails.
THEOREM RolesAreRespected == Spec => []AgentNeedsRole
<1>1. ChatSound => AgentNeedsRole
  BY DEF ChatSound, Sound, AgentNeedsRole
<1>2. QED
  BY <1>1, ChatStartsSound, ChatStaysSound, PTL DEF Spec

\* What /api/chat has answered stays in the history until the user deletes it or
\* unless the database refused it, whoever else writes to the conversation.
THEOREM AnswersStay == Spec => []AnsweredIsKept
<1>1. ChatSound => AnsweredIsKept
  BY DEF ChatSound, Sound, AnsweredIsKept, InHistory
<1>2. QED
  BY <1>1, ChatStartsSound, ChatStaysSound, PTL DEF Spec

-----------------------------------------------------------------------------
(* Documents                                                               *)

DocLabels ==
  {"new", "queued", "scroll", "deleteOld", "lookup", "open", "check", "drop", "create",
   "add", "search", "store", "row", "wipeCheck", "wipe", "wipeRows", "end"}

\* Commands after which a request has neither written its chunks nor found a text.
Plain == DocLabels \ {"row", "store"}

ToldStates == {"none", "accepted", "done", "failed"}

JobStates == {"none", "queued", "processing", "completed", "failed"}

\* What the properties of the documents need of its types.
DocTypes ==
  /\ points \subseteq Uploads
  /\ cached \subseteq Uploads
  /\ dTTL \in 0..RagTTL
  /\ job \in [Uploads -> JobStates]
  /\ dPc \in [Docs!Clients -> DocLabels]
  /\ found \in [Queries -> SUBSET Uploads]
  /\ since \in [Queries -> 0..SearchTicks]
  /\ told \in [Uploads -> ToldStates]
  /\ why \in [Uploads -> {"", "versioned", "wiped", "recreated"}]
  /\ goneFor \in [Uploads -> Nat]

\* An upload that has been written is among the points or has a reason not to be,
\* from the moment its row is due.
Written(u) == dPc[u] = "row" \/ told[u] = "done" \/ job[u] = "completed"

Kept(u) == u \in points \/ why[u] # ""

Indexed == \A u \in Uploads : Written(u) => Kept(u)

\* A document that is gone while its text is cached has been so for what the cache
\* has lived and the search before it took at most, ...
Expiring == \A u \in cached \ points : goneFor[u] + dTTL <= RagTTL + SearchTicks

\* ... and one that a search has found, for as long as that search is over.
Aging ==
  \A q \in Queries : dPc[q] = "store" => \A u \in found[q] \ points : goneFor[u] <= since[q]

DocsSound == DocTypes /\ Indexed /\ Expiring /\ Aging

\* Of none of the clients is more written or found than before.
NoFurther ==
  /\ dPc' \in [Docs!Clients -> DocLabels]
  /\ \A u \in Uploads : dPc'[u] = "row" => dPc[u] = "row"
  /\ \A q \in Queries : dPc'[q] = "store" => dPc[q] = "store"

\* A request that goes to a plain command has neither written nor found more.
LEMMA DocsGoto ==
  ASSUME DocsSound, NEW r \in Docs!Clients, NEW l \in Plain, Docs!Goto(r, l)
  PROVE  NoFurther
<1>1. dPc \in [Docs!Clients -> DocLabels] /\ dPc' = [dPc EXCEPT ![r] = l]
  BY DEF DocsSound, DocTypes, Docs!Goto
<1>2. dPc' \in [Docs!Clients -> DocLabels]
  BY <1>1 DEF Plain
<1>3. /\ \A u \in Uploads : u \in Docs!Clients
      /\ \A q \in Queries : q \in Docs!Clients
  BY DEF Docs!Clients
<1>4. l # "row" /\ l # "store"
  BY DEF Plain
<1>5. \A c \in Docs!Clients : dPc'[c] = dPc[c] \/ dPc'[c] = l
  BY <1>1
<1>6. QED
  BY <1>2, <1>3, <1>4, <1>5 DEF NoFurther

\* A request that ends has told of its success only after the row.
LEMMA DocsFinish ==
  ASSUME DocsSound, NEW u \in Uploads, NEW what \in {"done", "failed"},
         what = "done" => dPc[u] = "row", Docs!Finish(u, what)
  PROVE  /\ NoFurther
         /\ told' \in [Uploads -> ToldStates] /\ job' \in [Uploads -> JobStates]
         /\ \A v \in Uploads : Written(v)' => Written(v)
<1>1. Docs!Goto(u, "end") /\ u \in Docs!Clients /\ "end" \in Plain
  BY DEF Docs!Finish, Docs!Clients, DocLabels, Plain
<1>2. NoFurther
  BY <1>1, DocsGoto
<1>3. told \in [Uploads -> ToldStates] /\ job \in [Uploads -> JobStates]
  BY DEF DocsSound, DocTypes
<1>4. CASE told' = [told EXCEPT ![u] = what] /\ job' = job
  BY <1>2, <1>3, <1>4 DEF ToldStates, Written, NoFurther
<1>5. CASE /\ told' = told
           /\ job' = [job EXCEPT ![u] = IF what = "done" THEN "completed" ELSE "failed"]
  BY <1>2, <1>3, <1>5 DEF JobStates, Written, NoFurther
<1>6. QED
  BY <1>4, <1>5 DEF Docs!Finish, Docs!Told

\* Whatever leaves the points, the texts and their history alone keeps the rest.
LEMMA DocsMove ==
  ASSUME DocsSound, NoFurther,
         told' \in [Uploads -> ToldStates], job' \in [Uploads -> JobStates],
         \A v \in Uploads : Written(v)' => Written(v),
         UNCHANGED <<points, cached, dTTL, Docs!asking, why, goneFor>>
  PROVE  DocsSound'
<1>1. DocTypes'
  BY DEF DocsSound, DocTypes, NoFurther, Docs!asking
<1>2. Indexed' /\ Expiring'
  BY DEF DocsSound, Indexed, Expiring, Kept
<1>3. Aging'
  BY DEF DocsSound, Aging, NoFurther, Docs!asking
<1>4. QED
  BY <1>1, <1>2, <1>3 DEF DocsSound

\* Points that are removed have a reason, and their texts begin to age.
LEMMA DocsRemove ==
  ASSUME DocsSound, NEW set, NEW cause \in {"versioned", "wiped", "recreated"},
         Docs!Remove(set, cause), NoFurther,
         UNCHANGED <<cached, dTTL, Docs!asking, told, job>>
  PROVE  DocsSound'
<1>1. /\ points' = points \ set
      /\ why' = [u \in Uploads |-> IF u \in set \cap points THEN cause ELSE why[u]]
      /\ goneFor' = [u \in Uploads |-> IF u \in set \cap points \cap Docs!Around
                                      THEN 0 ELSE goneFor[u]]
  BY DEF Docs!Remove
<1>2. DocTypes'
  <2>1. why' \in [Uploads -> {"", "versioned", "wiped", "recreated"}]
    BY <1>1 DEF DocsSound, DocTypes
  <2>2. goneFor' \in [Uploads -> Nat]
    BY <1>1 DEF DocsSound, DocTypes
  <2>3. QED
    BY <1>1, <2>1, <2>2 DEF DocsSound, DocTypes, NoFurther, Docs!asking
<1>3. ASSUME NEW u \in Uploads, Written(u)'
      PROVE  Kept(u)'
  <2>1. Written(u)
    BY <1>3 DEF Written, NoFurther
  <2>2. Kept(u)
    BY <2>1 DEF DocsSound, Indexed
  <2>3. QED
    BY <1>1, <2>2 DEF Kept
<1>4. ASSUME NEW u \in cached' \ points'
      PROVE  goneFor'[u] + dTTL' <= RagTTL + SearchTicks
  <2>1. /\ u \in cached /\ u \in Uploads /\ dTTL \in 0..RagTTL
        /\ RagTTL \in Nat /\ SearchTicks \in Nat
    BY DocumentsAssumption DEF DocsSound, DocTypes
  <2>2. CASE u \in points
    <3>1. goneFor'[u] = 0
      BY <1>1, <1>4, <2>1, <2>2 DEF Docs!Around
    <3>2. QED
      BY <2>1, <3>1
  <2>3. CASE u \notin points
    BY <1>1, <2>1, <2>3 DEF DocsSound, Expiring
  <2>4. QED
    BY <2>2, <2>3
<1>5. ASSUME NEW q \in Queries, dPc'[q] = "store", NEW u \in found'[q] \ points'
      PROVE  goneFor'[u] <= since'[q]
  <2>1. /\ dPc[q] = "store" /\ u \in found[q] /\ u \in Uploads
        /\ since'[q] = since[q] /\ since[q] \in 0..SearchTicks
    BY <1>5 DEF NoFurther, Docs!asking, DocsSound, DocTypes
  <2>2. CASE u \in points
    <3>1. u \in Docs!Around
      BY <2>1 DEF Docs!Around
    <3>2. goneFor'[u] = 0
      BY <1>1, <1>5, <2>1, <2>2, <3>1
    <3>3. QED
      BY <2>1, <3>2, DocumentsAssumption
  <2>3. CASE u \notin points
    BY <1>1, <2>1, <2>3 DEF DocsSound, Aging
  <2>4. QED
    BY <2>2, <2>3
<1>6. QED
  BY <1>2, <1>3, <1>4, <1>5 DEF DocsSound, Indexed, Expiring, Aging

\* Uploads, up to the moment they open the collection.
LEMMA UploadStep ==
  ASSUME DocsSound, NEW u \in Uploads,
         Docs!Upload(u) \/ Docs!UploadAsync(u) \/ Docs!StartJob(u) \/ Docs!ScrollOld(u)
  PROVE  DocsSound'
<1>1. UNCHANGED <<points, cached, dTTL, Docs!asking, why, goneFor>>
  BY DEF Docs!Upload, Docs!UploadAsync, Docs!StartJob, Docs!ScrollOld, Docs!store
<1>2. told \in [Uploads -> ToldStates] /\ job \in [Uploads -> JobStates] /\ u \in Docs!Clients
  BY DEF DocsSound, DocTypes, Docs!Clients
<1>3. CASE Docs!Finish(u, "failed")
  BY <1>1, <1>3, DocsFinish, DocsMove
<1>4. CASE \E l \in Plain : Docs!Goto(u, l) /\ UNCHANGED <<told, job>>
  BY <1>1, <1>2, <1>4, DocsGoto, DocsMove DEF Written, NoFurther
<1>5. CASE Docs!UploadAsync(u)
  <2>1. Docs!Goto(u, "queued") /\ "queued" \in Plain
    BY <1>5 DEF Docs!UploadAsync, DocLabels, Plain
  <2>2. NoFurther
    BY <1>2, <2>1, DocsGoto
  <2>3. /\ told' = [told EXCEPT ![u] = "accepted"]
        /\ job' = [job EXCEPT ![u] = "queued"]
    BY <1>5 DEF Docs!UploadAsync, Docs!Told
  <2>4. told' \in [Uploads -> ToldStates] /\ job' \in [Uploads -> JobStates]
    BY <1>2, <2>3 DEF ToldStates, JobStates
  <2>5. \A v \in Uploads : Written(v)' => Written(v)
    BY <1>2, <2>2, <2>3 DEF Written, NoFurther
  <2>6. QED
    BY <1>1, <2>2, <2>4, <2>5, DocsMove
<1>6. CASE Docs!StartJob(u) /\ ~ Docs!Finish(u, "failed")
  <2>1. Docs!Goto(u, "open") /\ "open" \in Plain
    BY <1>6 DEF Docs!StartJob, DocLabels, Plain
  <2>2. NoFurther
    BY <1>2, <2>1, DocsGoto
  <2>3. told' = told /\ job' = [job EXCEPT ![u] = "processing"]
    BY <1>6 DEF Docs!StartJob
  <2>4. job' \in [Uploads -> JobStates]
    BY <1>2, <2>3 DEF JobStates
  <2>5. \A v \in Uploads : Written(v)' => Written(v)
    BY <1>2, <2>2, <2>3 DEF Written, NoFurther
  <2>6. QED
    BY <1>1, <1>2, <2>2, <2>3, <2>4, <2>5, DocsMove
<1>7. "scroll" \in Plain /\ "deleteOld" \in Plain
  BY DEF DocLabels, Plain
<1>8. CASE Docs!Upload(u) /\ ~ Docs!Finish(u, "failed")
  BY <1>4, <1>7, <1>8 DEF Docs!Upload
<1>9. CASE Docs!ScrollOld(u)
  BY <1>4, <1>7, <1>9 DEF Docs!ScrollOld
<1>10. QED
  BY <1>3, <1>5, <1>6, <1>8, <1>9

\* A request that goes on to a plain command, and nothing else.
LEMMA DocsGoOn ==
  ASSUME DocsSound, NEW r \in Docs!Clients, NEW l \in Plain, Docs!Goto(r, l),
         UNCHANGED <<points, cached, dTTL, Docs!asking, job, told, why, goneFor>>
  PROVE  DocsSound'
<1>1. NoFurther
  BY DocsGoto
<1>2. told \in [Uploads -> ToldStates] /\ job \in [Uploads -> JobStates]
  BY DEF DocsSound, DocTypes
<1>3. \A v \in Uploads : Written(v)' => Written(v)
  BY <1>1 DEF Written, NoFurther
<1>4. QED
  BY <1>1, <1>2, <1>3, DocsMove

\* Versioning deletes what it has found, whatever that was.
LEMMA DeleteOldStep ==
  ASSUME DocsSound, NEW u \in Uploads, Docs!DeleteOld(u)
  PROVE  DocsSound'
<1>1. /\ Docs!Goto(u, "open") /\ "open" \in Plain /\ u \in Docs!Clients
      /\ UNCHANGED <<cached, dTTL, Docs!asking, job, told>>
  BY DEF Docs!DeleteOld, DocLabels, Plain, Docs!Clients
<1>2. CASE Docs!Remove(old[u], "versioned")
  BY <1>1, <1>2, DocsGoto, DocsRemove
<1>3. CASE UNCHANGED <<points, why, goneFor>>
  BY <1>1, <1>3, DocsGoOn
<1>4. QED
  BY <1>2, <1>3 DEF Docs!DeleteOld

\* Opening the collection removes points only to create it again.
LEMMA OpenStep ==
  ASSUME DocsSound, NEW r \in Docs!Openers, Docs!GetVectorstore(r) \/ Docs!OpenFails(r)
  PROVE  DocsSound'
<1>1. r \in Docs!Clients
  BY DEF Docs!Openers, Docs!Clients
<1>2. {"add", "search", "check", "drop", "create", "new"} \subseteq Plain
  BY DEF DocLabels, Plain
<1>3. Docs!Opened(r) \in {"add", "search"}
  BY DEF Docs!Opened
<1>4. CASE Docs!Open(r) \/ Docs!OpenFails(r) \/ Docs!CheckCollection(r)
  <2>1. UNCHANGED <<points, cached, dTTL, Docs!asking, job, told, why, goneFor>>
    BY <1>4 DEF Docs!Open, Docs!OpenFails, Docs!CheckCollection, Docs!store
  <2>2. PICK l \in Plain : Docs!Goto(r, l)
    BY <1>2, <1>3, <1>4 DEF Docs!Open, Docs!OpenFails, Docs!CheckCollection
  <2>3. QED
    BY <1>1, <2>1, <2>2, DocsGoOn
<1>5. CASE Docs!DropCollection(r)
  <2>1. /\ Docs!Goto(r, "create") /\ Docs!Remove(points, "recreated")
        /\ UNCHANGED <<cached, dTTL, Docs!asking, job, told>>
    BY <1>5 DEF Docs!DropCollection
  <2>2. QED
    BY <1>1, <1>2, <2>1, DocsGoto, DocsRemove
<1>6. CASE Docs!CreateCollection(r)
  <2>1. UNCHANGED <<points, cached, dTTL, Docs!asking, why, goneFor>>
    BY <1>6 DEF Docs!CreateCollection
  <2>2. CASE r \in Uploads /\ Docs!Finish(r, "failed")
    BY <2>1, <2>2, DocsFinish, DocsMove
  <2>3. CASE Docs!Return(r)
    BY <1>1, <1>2, <2>1, <2>3, DocsGoOn DEF Docs!Return
  <2>4. CASE Docs!Goto(r, Docs!Opened(r)) /\ UNCHANGED <<told, job>>
    BY <1>1, <1>2, <1>3, <2>1, <2>4, DocsGoOn
  <2>5. QED
    BY <1>6, <2>2, <2>3, <2>4 DEF Docs!CreateCollection
<1>7. QED
  BY <1>4, <1>5, <1>6 DEF Docs!GetVectorstore

\* The chunks are written before the row, and the row before the answer.
LEMMA AddStep ==
  ASSUME DocsSound, NEW u \in Uploads,
         Docs!AddDocuments(u) \/ Docs!AddFails(u) \/ Docs!InsertRow(u)
  PROVE  DocsSound'
<1>1. UNCHANGED <<cached, dTTL, Docs!asking, why, goneFor>>
  BY DEF Docs!AddDocuments, Docs!AddFails, Docs!InsertRow, Docs!store
<1>2. CASE Docs!Finish(u, "failed") /\ UNCHANGED points
  BY <1>1, <1>2, DocsFinish, DocsMove
<1>3. CASE Docs!InsertRow(u)
  <2>1. dPc[u] = "row" /\ Docs!Finish(u, "done") /\ UNCHANGED points
    BY <1>3 DEF Docs!InsertRow
  <2>2. QED
    BY <1>1, <2>1, DocsFinish, DocsMove
<1>4. CASE points' = points \cup {u} /\ Docs!Goto(u, "row") /\ UNCHANGED <<told, job>>
  <2>1. dPc \in [Docs!Clients -> DocLabels] /\ dPc' = [dPc EXCEPT ![u] = "row"]
    BY <1>4 DEF DocsSound, DocTypes, Docs!Goto
  <2>2. /\ \A v \in Uploads : v \in Docs!Clients
        /\ \A q \in Queries : q \in Docs!Clients
    BY DEF Docs!Clients
  <2>3. dPc' \in [Docs!Clients -> DocLabels]
    BY <2>1 DEF DocLabels
  <2>4. ASSUME NEW v \in Uploads, Written(v)'
        PROVE  Kept(v)'
    <3>1. CASE v = u
      BY <1>4, <3>1 DEF Kept
    <3>2. CASE v # u
      <4>1. dPc'[v] = dPc[v]
        BY <2>1, <2>2, <3>2
      <4>2. Kept(v)
        BY <1>4, <2>4, <4>1 DEF DocsSound, Indexed, Written
      <4>3. QED
        BY <1>1, <1>4, <4>2 DEF Kept
    <3>3. QED
      BY <3>1, <3>2
  <2>5. DocTypes'
    BY <1>1, <1>4, <2>3 DEF DocsSound, DocTypes, Docs!asking
  <2>6. Expiring'
    BY <1>1, <1>4 DEF DocsSound, Expiring
  <2>7. \A q \in Queries : dPc'[q] = "store" => dPc[q] = "store"
    BY <2>1, <2>2
  <2>8. Aging'
    BY <1>1, <1>4, <2>7 DEF DocsSound, Aging, Docs!asking
  <2>9. QED
    BY <2>4, <2>5, <2>6, <2>8 DEF DocsSound, Indexed
<1>5. QED
  BY <1>2, <1>3, <1>4 DEF Docs!AddDocuments, Docs!AddFails, Docs!store

\* A search finds points that are there, or ends the question.
LEMMA SearchStep ==
  ASSUME DocsSound, NEW q \in Queries, Docs!Search(q)
  PROVE  DocsSound'
<1>1. q \in Docs!Clients /\ "new" \in Plain
  BY DEF Docs!Clients, DocLabels, Plain
<1>2. UNCHANGED <<points, cached, dTTL, job, told, why, goneFor>>
  BY DEF Docs!Search, Docs!Return, Docs!store
<1>3. CASE Docs!Return(q) /\ UNCHANGED Docs!asking
  BY <1>1, <1>2, <1>3, DocsGoOn DEF Docs!Return
<1>4. ASSUME NEW docs \in SUBSET points,
             found' = [found EXCEPT ![q] = docs], since' = [since EXCEPT ![q] = 0],
             Docs!Goto(q, "store")
      PROVE  DocsSound'
  <2>1. /\ dPc \in [Docs!Clients -> DocLabels] /\ dPc' = [dPc EXCEPT ![q] = "store"]
        /\ found \in [Queries -> SUBSET Uploads] /\ since \in [Queries -> 0..SearchTicks]
        /\ points \subseteq Uploads
    BY <1>4 DEF DocsSound, DocTypes, Docs!Goto
  <2>2. dPc' \in [Docs!Clients -> DocLabels]
    BY <2>1 DEF DocLabels
  <2>3. 0 \in 0..SearchTicks
    BY DocumentsAssumption
  <2>4. found' \in [Queries -> SUBSET Uploads] /\ since' \in [Queries -> 0..SearchTicks]
    BY <1>4, <2>1, <2>3
  <2>5. DocTypes'
    BY <1>2, <2>2, <2>4 DEF DocsSound, DocTypes
  <2>6. \A u \in Uploads : dPc'[u] = "row" => dPc[u] = "row"
    BY <2>1 DEF Docs!Clients
  <2>7. Indexed' /\ Expiring'
    BY <1>2, <2>6 DEF DocsSound, Indexed, Expiring, Written, Kept
  <2>8. ASSUME NEW r \in Queries, dPc'[r] = "store", NEW u \in found'[r] \ points'
        PROVE  goneFor'[u] <= since'[r]
    <3>1. r # q
      BY <1>2, <1>4, <2>1, <2>8
    <3>2. dPc[r] = "store" /\ found'[r] = found[r] /\ since'[r] = since[r]
      BY <1>4, <2>1, <2>8, <3>1 DEF Docs!Clients
    <3>3. QED
      BY <1>2, <2>8, <3>2 DEF DocsSound, Aging
  <2>9. QED
    BY <2>5, <2>7, <2>8 DEF DocsSound, Aging
<1>5. QED
  BY <1>3, <1>4 DEF Docs!Search

\* What is stored has been gone for as long as its search is over at most.
LEMMA StoreStep ==
  ASSUME DocsSound, NEW q \in Queries, Docs!Store(q)
  PROVE  DocsSound'
<1>1. /\ dPc[q] = "store" /\ Docs!Goto(q, "new") /\ "new" \in Plain /\ q \in Docs!Clients
      /\ found' = [found EXCEPT ![q] = {}] /\ since' = [since EXCEPT ![q] = 0]
      /\ goneFor' = [u \in Uploads |-> IF u \in Docs!Around' THEN goneFor[u] ELSE Docs!Long]
      /\ UNCHANGED <<points, told, job, why>>
  BY DEF Docs!Store, Docs!Return, Docs!Clients, DocLabels, Plain
<1>2. NoFurther
  BY <1>1, DocsGoto
<1>3. RagTTL \in Nat /\ SearchTicks \in Nat /\ Docs!Long \in Nat
  BY DocumentsAssumption DEF Docs!Long
<1>4. (cached' = cached /\ dTTL' = dTTL) \/ (cached' = found[q] /\ dTTL' = RagTTL)
  BY DEF Docs!Store
<1>5. /\ found \in [Queries -> SUBSET Uploads] /\ since \in [Queries -> 0..SearchTicks]
      /\ goneFor \in [Uploads -> Nat] /\ cached \subseteq Uploads /\ dTTL \in 0..RagTTL
  BY DEF DocsSound, DocTypes
<1>6. DocTypes'
  <2>1. cached' \subseteq Uploads /\ dTTL' \in 0..RagTTL
    <3>1. RagTTL \in 0..RagTTL
      BY <1>3
    <3>2. found[q] \subseteq Uploads
      BY <1>5
    <3>3. QED
      BY <1>4, <1>5, <3>1, <3>2
  <2>2. goneFor' \in [Uploads -> Nat]
    BY <1>1, <1>3, <1>5
  <2>3. found' \in [Queries -> SUBSET Uploads] /\ since' \in [Queries -> 0..SearchTicks]
    <3>1. 0 \in 0..SearchTicks
      BY <1>3
    <3>2. QED
      BY <1>1, <1>5, <3>1
  <2>4. QED
    BY <1>1, <1>2, <2>1, <2>2, <2>3 DEF DocsSound, DocTypes, NoFurther
<1>7. Indexed'
  BY <1>1, <1>2 DEF DocsSound, Indexed, Written, Kept, NoFurther
<1>8. ASSUME NEW u \in cached' \ points'
      PROVE  goneFor'[u] + dTTL' <= RagTTL + SearchTicks
  <2>1. u \in Uploads /\ u \in Docs!Around'
    BY <1>6, <1>8 DEF DocTypes, Docs!Around
  <2>2. goneFor'[u] = goneFor[u] /\ goneFor[u] \in Nat
    BY <1>1, <1>5, <2>1
  <2>3. CASE cached' = cached /\ dTTL' = dTTL
    BY <1>1, <1>8, <2>2, <2>3 DEF DocsSound, Expiring
  <2>4. CASE cached' = found[q] /\ dTTL' = RagTTL
    <3>1. goneFor[u] <= since[q] /\ since[q] \in 0..SearchTicks
      BY <1>1, <1>5, <1>8, <2>4 DEF DocsSound, Aging
    <3>2. QED
      BY <1>3, <2>2, <2>4, <3>1
  <2>5. QED
    BY <1>4, <2>3, <2>4
<1>9. ASSUME NEW r \in Queries, dPc'[r] = "store", NEW u \in found'[r] \ points'
      PROVE  goneFor'[u] <= since'[r]
  <2>1. r # q
    BY <1>1, <1>5, <1>9
  <2>2. dPc[r] = "store" /\ found'[r] = found[r] /\ since'[r] = since[r]
    BY <1>1, <1>2, <1>5, <1>9, <2>1 DEF NoFurther
  <2>3. u \in Docs!Around' /\ u \in Uploads
    BY <1>5, <1>9, <2>2 DEF Docs!Around
  <2>4. goneFor'[u] = goneFor[u]
    BY <1>1, <2>3
  <2>5. QED
    BY <1>1, <1>9, <2>2, <2>4 DEF DocsSound, Aging
<1>10. QED
  BY <1>6, <1>7, <1>8, <1>9 DEF DocsSound, Expiring, Aging

\* Questions and wipes, but for the search.
LEMMA AskStep ==
  ASSUME DocsSound, NEW q \in Queries, Docs!Ask(q) \/ Docs!LookupCache(q)
  PROVE  DocsSound'
<1>1. /\ \/ Docs!Goto(q, "new") \/ Docs!Goto(q, "open") \/ Docs!Goto(q, "lookup")
      /\ UNCHANGED <<points, cached, dTTL, Docs!asking, job, told, why, goneFor>>
  BY DEF Docs!Ask, Docs!LookupCache, Docs!Return, Docs!store
<1>2. {"new", "open", "lookup"} \subseteq Plain /\ q \in Docs!Clients
  BY DEF DocLabels, Plain, Docs!Clients
<1>3. QED
  BY <1>1, <1>2, DocsGoOn

\* A wipe gives what it removes its reason.
LEMMA WipeStep ==
  ASSUME DocsSound, NEW w \in Wipes,
         Docs!Wipe(w) \/ Docs!WipeCheck(w) \/ Docs!WipeCollection(w) \/ Docs!WipeRows(w)
  PROVE  DocsSound'
<1>1. {"wipeCheck", "wipe", "wipeRows", "new"} \subseteq Plain /\ w \in Docs!Clients
  BY DEF DocLabels, Plain, Docs!Clients
<1>2. CASE Docs!WipeCollection(w)
  <2>1. /\ Docs!Goto(w, "wipeRows") /\ Docs!Remove(points, "wiped")
        /\ UNCHANGED <<cached, dTTL, Docs!asking, job, told>>
    BY <1>2 DEF Docs!WipeCollection
  <2>2. QED
    BY <1>1, <2>1, DocsGoto, DocsRemove
<1>3. CASE Docs!Wipe(w) \/ Docs!WipeCheck(w) \/ Docs!WipeRows(w)
  <2>1. UNCHANGED <<points, cached, dTTL, Docs!asking, job, told, why, goneFor>>
    BY <1>3 DEF Docs!Wipe, Docs!WipeCheck, Docs!WipeRows, Docs!Return, Docs!store
  <2>2. PICK l \in Plain : Docs!Goto(w, l)
    BY <1>1, <1>3 DEF Docs!Wipe, Docs!WipeCheck, Docs!WipeRows, Docs!Return
  <2>3. QED
    BY <1>1, <2>1, <2>2, DocsGoOn
<1>4. QED
  BY <1>2, <1>3

\* What the cache loses, a document that is gone has gained, and the search as well.
LEMMA DocsTickStep ==
  ASSUME DocsSound, Docs!Tick
  PROVE  DocsSound'
<1>1. /\ RagTTL \in Nat /\ SearchTicks \in Nat
      /\ Docs!Long = RagTTL + SearchTicks + 1 /\ dTTL \in 0..RagTTL
  BY DocumentsAssumption DEF Docs!Long, DocsSound, DocTypes
<1>2. /\ \A q \in Queries : dPc[q] = "store" => since[q] < SearchTicks
      /\ dTTL' = IF dTTL > 0 THEN dTTL - 1 ELSE 0
      /\ cached' = IF dTTL <= 1 THEN {} ELSE cached
      /\ since' = [q \in Queries |-> IF dPc[q] = "store" THEN since[q] + 1 ELSE since[q]]
      /\ goneFor' = [u \in Uploads |-> IF u \in Docs!Around' /\ goneFor[u] < Docs!Long
                                      THEN goneFor[u] + 1 ELSE Docs!Long]
      /\ UNCHANGED <<points, found, job, dPc, told, why>>
  BY DEF Docs!Tick
<1>3. /\ goneFor \in [Uploads -> Nat] /\ found \in [Queries -> SUBSET Uploads]
      /\ since \in [Queries -> 0..SearchTicks] /\ cached \subseteq Uploads
  BY DEF DocsSound, DocTypes
<1>4. DocTypes'
  <2>1. goneFor' \in [Uploads -> Nat]
    BY <1>1, <1>2, <1>3
  <2>2. cached' \subseteq Uploads
    BY <1>2, <1>3
  <2>3. dTTL' \in 0..RagTTL
    BY <1>1, <1>2
  <2>4. since' \in [Queries -> 0..SearchTicks]
    BY <1>1, <1>2, <1>3
  <2>5. QED
    BY <1>2, <2>1, <2>2, <2>3, <2>4 DEF DocsSound, DocTypes
<1>5. Indexed'
  BY <1>2 DEF DocsSound, Indexed, Written, Kept
<1>6. ASSUME NEW u \in cached' \ points'
      PROVE  goneFor'[u] + dTTL' <= RagTTL + SearchTicks
  <2>1. u \in cached \ points /\ u \in Uploads /\ u \in Docs!Around' /\ dTTL > 1
    <3>1. u \in cached /\ ~(dTTL <= 1)
      BY <1>2, <1>6
    <3>2. u \notin points
      BY <1>2, <1>6
    <3>3. dTTL > 1
      BY <1>1, <3>1
    <3>4. u \in Docs!Around'
      BY <1>6 DEF Docs!Around
    <3>5. QED
      BY <1>3, <3>1, <3>2, <3>3, <3>4
  <2>2. goneFor[u] + dTTL <= RagTTL + SearchTicks /\ goneFor[u] \in Nat
    BY <1>3, <2>1 DEF DocsSound, Expiring
  <2>3. goneFor'[u] = goneFor[u] + 1
    BY <1>1, <1>2, <2>1, <2>2
  <2>4. QED
    BY <1>1, <1>2, <2>1, <2>2, <2>3
<1>7. ASSUME NEW q \in Queries, dPc'[q] = "store", NEW u \in found'[q] \ points'
      PROVE  goneFor'[u] <= since'[q]
  <2>1. /\ dPc[q] = "store" /\ u \in found[q] \ points /\ u \in Uploads
        /\ u \in Docs!Around' /\ since[q] \in 0..SearchTicks
    BY <1>2, <1>3, <1>7 DEF Docs!Around
  <2>2. goneFor[u] <= since[q] /\ goneFor[u] \in Nat
    BY <1>3, <2>1 DEF DocsSound, Aging
  <2>3. goneFor'[u] = goneFor[u] + 1 /\ since'[q] = since[q] + 1
    BY <1>1, <1>2, <2>1, <2>2
  <2>4. QED
    BY <2>1, <2>2, <2>3
<1>8. QED
  BY <1>4, <1>5, <1>6, <1>7 DEF DocsSound, Expiring, Aging

\* No step of an upload, a question or a wipe disturbs it.
LEMMA DocsStaySound == DocsSound /\ [Docs!Next]_(Docs!vars) => DocsSound'
<1> SUFFICES ASSUME DocsSound, [Docs!Next]_(Docs!vars)
             PROVE  DocsSound'
  OBVIOUS
<1>1. \A u \in Uploads : u \in Docs!Openers
  BY DEF Docs!Openers
<1>2. \A q \in Queries : q \in Docs!Openers
  BY DEF Docs!Openers
<1>3. CASE \E u \in Uploads : Docs!Upload(u) \/ Docs!UploadAsync(u) \/ Docs!Step(u) \/ Docs!AddFails(u)
  BY <1>1, <1>3, UploadStep, DeleteOldStep, OpenStep, AddStep DEF Docs!Step
<1>4. CASE \E q \in Queries :
             \/ Docs!Ask(q) \/ Docs!LookupCache(q) \/ Docs!GetVectorstore(q) \/ Docs!Search(q)
             \/ Docs!Store(q)
  BY <1>2, <1>4, AskStep, OpenStep, SearchStep, StoreStep
<1>5. CASE \E r \in Docs!Openers : Docs!OpenFails(r)
  BY <1>5, OpenStep
<1>6. CASE \E w \in Wipes :
             Docs!Wipe(w) \/ Docs!WipeCheck(w) \/ Docs!WipeCollection(w) \/ Docs!WipeRows(w)
  BY <1>6, WipeStep
<1>7. CASE Docs!Tick
  BY <1>7, DocsTickStep
<1>8. CASE UNCHANGED Docs!vars
  BY <1>8 DEF Docs!vars, Docs!store, Docs!asking, DocsSound, DocTypes, Indexed, Expiring, Aging,
              Written, Kept
<1>9. QED
  BY <1>3, <1>4, <1>5, <1>6, <1>7, <1>8 DEF Docs!Next

\* Nothing is uploaded and nothing cached at first.
LEMMA DocsStartSound == Docs!Init => DocsSound
<1> SUFFICES ASSUME Docs!Init PROVE DocsSound
  OBVIOUS
<1>1. Docs!Long \in Nat /\ 0 \in 0..RagTTL /\ 0 \in 0..SearchTicks
  BY DocumentsAssumption DEF Docs!Long
<1>2. DocTypes
  BY <1>1 DEF Docs!Init, DocTypes, DocLabels, ToldStates, JobStates
<1>3. Indexed
  <2>1. \A u \in Uploads : u \in Docs!Clients
    BY DEF Docs!Clients
  <2>2. QED
    BY <2>1 DEF Docs!Init, Indexed, Written
<1>4. Aging
  BY DEF Docs!Init, Aging
<1>5. QED
  BY <1>2, <1>3, <1>4 DEF Docs!Init, DocsSound, Expiring

\* An upload that the client was told to be indexed can be searched until it is wiped,
\* replaced or dropped with its collection, whatever fails and whoever else uploads.
THEOREM IndexedStaysSearchable == Docs!Spec => []IndexedIsSearchable
<1>1. DocsSound => IndexedIsSearchable
  BY DEF DocsSound, Indexed, Written, Kept, IndexedIsSearchable, Docs!IndexedIsSearchable
<1>2. QED
  BY <1>1, DocsStartSound, DocsStaySound, PTL DEF Docs!Spec

\* Only an answer from the cache takes a question from its lookup back to the start.
LEMMA OnlyHitsReturn ==
  ASSUME DocsSound, [Docs!Next]_(Docs!vars), NEW q \in Queries,
         dPc[q] = "lookup", dPc'[q] = "new"
  PROVE  dTTL > 0
<1>1. q \in Docs!Clients /\ dPc \in [Docs!Clients -> DocLabels]
  BY DEF Docs!Clients, DocsSound, DocTypes
<1>2. ASSUME NEW r \in Docs!Clients, dPc[r] # "lookup"
      PROVE  \A l : ~ Docs!Goto(r, l)
  BY <1>1, <1>2 DEF Docs!Goto
<1>3. \A l : Docs!Goto(q, l) => l = "new"
  BY <1>1 DEF Docs!Goto
<1>4. CASE \E u \in Uploads : Docs!Upload(u) \/ Docs!UploadAsync(u) \/ Docs!Step(u) \/ Docs!AddFails(u)
  <2>1. PICK u \in Uploads : Docs!Upload(u) \/ Docs!UploadAsync(u) \/ Docs!Step(u) \/ Docs!AddFails(u)
    BY <1>4
  <2>2. dPc[u] # "lookup" /\ (\E l : Docs!Goto(u, l)) /\ u \in Docs!Clients
    BY <2>1 DEF Docs!Upload, Docs!UploadAsync, Docs!Step, Docs!AddFails, Docs!Finish, Docs!StartJob,
                Docs!ScrollOld, Docs!DeleteOld, Docs!GetVectorstore, Docs!Open, Docs!CheckCollection,
                Docs!DropCollection, Docs!CreateCollection, Docs!AddDocuments, Docs!InsertRow,
                Docs!Return, Docs!Clients
  <2>3. QED
    BY <1>2, <2>2
<1>5. CASE \E r \in Queries : \/ Docs!Ask(r) \/ Docs!LookupCache(r) \/ Docs!GetVectorstore(r)
                             \/ Docs!Search(r) \/ Docs!Store(r)
  <2>1. PICK r \in Queries : \/ Docs!Ask(r) \/ Docs!LookupCache(r) \/ Docs!GetVectorstore(r)
                             \/ Docs!Search(r) \/ Docs!Store(r)
    BY <1>5
  <2>2. r \in Docs!Clients
    BY DEF Docs!Clients
  <2>3. CASE Docs!LookupCache(r)
    <3>1. dPc[r] = "lookup" /\ (Docs!Goto(r, "open") \/ dTTL > 0)
      BY <2>3 DEF Docs!LookupCache
    <3>2. ~ Docs!Goto(r, "open")
      BY <1>1, <2>2 DEF Docs!Goto
    <3>3. QED
      BY <3>1, <3>2
  <2>4. CASE Docs!Ask(r) \/ Docs!GetVectorstore(r) \/ Docs!Search(r) \/ Docs!Store(r)
    <3>1. dPc[r] # "lookup" /\ (\E l : Docs!Goto(r, l))
      BY <2>4 DEF Docs!Ask, Docs!Finish, Docs!GetVectorstore, Docs!Open, Docs!CheckCollection,
                  Docs!DropCollection, Docs!CreateCollection, Docs!Search, Docs!Store,
                  Docs!Return
    <3>2. QED
      BY <1>2, <2>2, <3>1
  <2>5. QED
    BY <2>1, <2>3, <2>4
<1>6. CASE \E r \in Docs!Openers : Docs!OpenFails(r)
  <2>1. PICK r \in Docs!Openers : Docs!OpenFails(r)
    BY <1>6
  <2>2. dPc[r] # "lookup" /\ Docs!Goto(r, "check") /\ r \in Docs!Clients
    BY <2>1 DEF Docs!OpenFails, Docs!Openers, Docs!Clients
  <2>3. QED
    BY <1>2, <2>2
<1>7. CASE \E w \in Wipes : Docs!Wipe(w) \/ Docs!WipeCheck(w) \/ Docs!WipeCollection(w) \/ Docs!WipeRows(w)
  <2>1. PICK w \in Wipes : Docs!Wipe(w) \/ Docs!WipeCheck(w) \/ Docs!WipeCollection(w) \/ Docs!WipeRows(w)
    BY <1>7
  <2>2. dPc[w] # "lookup" /\ (\E l : Docs!Goto(w, l)) /\ w \in Docs!Clients
    BY <2>1 DEF Docs!Wipe, Docs!WipeCheck, Docs!WipeCollection, Docs!WipeRows, Docs!Return, Docs!Clients
  <2>3. QED
    BY <1>2, <2>2
<1>8. CASE Docs!Tick \/ UNCHANGED Docs!vars
  BY <1>8 DEF Docs!Tick, Docs!vars
<1>9. QED
  BY <1>4, <1>5, <1>6, <1>7, <1>8 DEF Docs!Next

\* A question is answered with a document that is gone for no longer than its search
\* takes, or from the cache for less than the cache keeps a text and a search takes
\* together, however often it is asked and whatever is wiped during the searches.
THEOREM StaleTextsExpire == Docs!Spec => StaleTextExpires
<1>1. ASSUME DocsSound, [Docs!Next]_(Docs!vars), NEW q \in Queries,
             dPc[q] = "lookup", dPc'[q] = "new", NEW u \in cached \ points
      PROVE  goneFor[u] < RagTTL + SearchTicks
  <2>1. dTTL > 0 /\ dTTL \in Nat /\ RagTTL \in Nat /\ SearchTicks \in Nat
    <3>1. dTTL > 0
      BY <1>1, OnlyHitsReturn
    <3>2. dTTL \in 0..RagTTL
      BY <1>1 DEF DocsSound, DocTypes
    <3>3. QED
      BY <3>1, <3>2, DocumentsAssumption
  <2>2. goneFor[u] \in Nat /\ goneFor[u] + dTTL <= RagTTL + SearchTicks
    BY <1>1 DEF DocsSound, DocTypes, Expiring
  <2>3. QED
    BY <2>1, <2>2
<1>2. ASSUME DocsSound, NEW q \in Queries, dPc[q] = "store", NEW u \in found[q] \ points
      PROVE  goneFor[u] <= SearchTicks
  <2>1. goneFor[u] <= since[q] /\ since[q] \in 0..SearchTicks /\ u \in Uploads
    BY <1>2 DEF DocsSound, DocTypes, Aging
  <2>2. goneFor[u] \in Nat
    BY <1>2, <2>1 DEF DocsSound, DocTypes
  <2>3. QED
    BY <2>1, <2>2, DocumentsAssumption
<1>3. DocsSound /\ [Docs!Next]_(Docs!vars) =>
        [ \A q \in Queries : dPc'[q] = "new" =>
            /\ dPc[q] = "store" => \A u \in found[q] \ points : goneFor[u] <= SearchTicks
            /\ dPc[q] = "lookup" =>
                 \A u \in cached \ points : goneFor[u] < RagTTL + SearchTicks ]_(Docs!vars)
  BY <1>1, <1>2
<1>4. QED
  BY <1>3, DocsStartSound, DocsStaySound, PTL DEF Docs!Spec, StaleTextExpires, Docs!StaleTextExpires

-----------------------------------------------------------------------------
(* Accounts and languages                                                  *)

\* The language of every user, in the database.
Lang == [u \in Owners |-> Profile!Language(u)]

Choice == Profile!Chosen

Ats == {"idle", "admitted", "update", "invalidate", "query", "store"}

\* A request: it has a user from the moment it reads or writes for one.
Job ==
  {j \in [at : Ats, user : Owners \cup {Nobody}, arg : Choice \cup {"keep", "without"},
          seen : Choice \cup {"absent"}] :
     j.at \notin {"idle", "admitted"} => j.user \in Owners}

AccountTypes ==
  /\ DOMAIN accounts \subseteq Owners
  /\ \A u \in DOMAIN accounts : accounts[u] \in Profile!Row

\* Identities belong to accounts, and a value under one type to one account.
Identified ==
  /\ numbers \subseteq Kinds \X Numbers \X Owners
  /\ \A k \in Kinds, n \in Numbers, u \in Owners : <<k, n, u>> \in numbers => u \in DOMAIN accounts
  /\ \A k \in Kinds, n \in Numbers, u, v \in Owners :
       <<k, n, u>> \in numbers /\ <<k, n, v>> \in numbers => u = v

\* What a request has read is what the database has, unless it was overtaken.
Fresh(r) ==
  \/ r \in overtaken
  \/ /\ aPc[r].at = "store" => aPc[r].seen = Lang[aPc[r].user]
     /\ aPc[r].at = "update" =>
          (IF aPc[r].seen = "absent" THEN "" ELSE aPc[r].seen) = Lang[aPc[r].user]

Stale(u) == cache[u] # "absent" /\ cache[u] # Lang[u]

Excused(u) == u \in reason \/ \E r \in Requests : aPc[r].at = "invalidate" /\ aPc[r].user = u

ProfileTypes ==
  /\ AccountTypes
  /\ aPc \in [Requests -> Job]
  /\ cache \in [Owners -> Choice \cup {"absent"}]

ProfileSound ==
  /\ ProfileTypes
  /\ Identified
  /\ \A r \in Requests : Fresh(r)
  /\ \A u \in Owners : Stale(u) => Excused(u)

\* The strings that stand for no language are none.
LEMMA ChoicesAreLanguages ==
  /\ "" \in Choice /\ "absent" \notin Choice /\ "keep" \notin Choice /\ "without" \notin Choice
  /\ "whatsapp" \in Kinds
  /\ Profile!Keep = "keep" /\ Profile!Without = "without" /\ Profile!Absent = "absent"
  /\ Profile!Idle \in Job
  /\ Profile!Idle.at = "idle"
<1>1. "" \in Choice /\ "absent" \notin Choice /\ "keep" \notin Choice /\ "without" \notin Choice
  BY ProfilesAssumption DEF Choice, Profile!Chosen
<1>2. Profile!Idle = [at |-> "idle", user |-> Nobody, arg |-> "keep", seen |-> "absent"]
  BY DEF Profile!Idle, Profile!Keep, Profile!Absent
<1>3. Profile!Idle \in Job /\ Profile!Idle.at = "idle"
  BY <1>2 DEF Job, Ats
<1>4. QED
  BY <1>1, <1>3, ProfilesAssumption DEF Profile!Keep, Profile!Without, Profile!Absent

\* The languages that users have are choices.
LEMMA LanguagesAreChoices ==
  ASSUME AccountTypes
  PROVE  /\ Lang \in [Owners -> Choice]
         /\ \A u \in Owners : Lang[u] = IF u \in DOMAIN accounts THEN accounts[u].language ELSE ""
<1>1. \A u \in Owners : Profile!Language(u) = IF u \in DOMAIN accounts THEN accounts[u].language ELSE ""
  BY DEF Profile!Language, Profile!Exists
<1>2. \A u \in DOMAIN accounts : accounts[u].language \in Choice
  BY DEF AccountTypes, Profile!Row, Choice
<1>3. \A u \in Owners : Profile!Language(u) \in Choice
  BY <1>1, <1>2, ChoicesAreLanguages
<1>4. QED
  BY <1>1, <1>3 DEF Lang

\* A row that is written.
LEMMA RowWritten ==
  ASSUME AccountTypes, NEW u \in Owners, NEW row \in Profile!Row,
         accounts' = Profile!WithRow(u, row)
  PROVE  /\ AccountTypes'
         /\ DOMAIN accounts' = DOMAIN accounts \cup {u}
         /\ Lang' = [Lang EXCEPT ![u] = row.language]
<1>1. accounts' = [v \in DOMAIN accounts \cup {u} |-> IF v = u THEN row ELSE accounts[v]]
  BY DEF Profile!WithRow
<1>2. DOMAIN accounts' = DOMAIN accounts \cup {u}
  BY <1>1
<1>3. AccountTypes'
  BY <1>1, <1>2 DEF AccountTypes
<1>4. \A v \in Owners : Profile!Language(v)' = IF v = u THEN row.language ELSE Profile!Language(v)
  BY <1>1, <1>2 DEF Profile!Language, Profile!Exists
<1>5. Lang' = [v \in Owners |-> IF v = u THEN row.language ELSE Profile!Language(v)]
  BY <1>4 DEF Lang
<1>6. QED
  BY <1>2, <1>3, <1>5 DEF Lang

\* A row that is changed.
LEMMA RowChanged ==
  ASSUME AccountTypes, NEW u \in DOMAIN accounts, NEW row \in Profile!Row,
         accounts' = [accounts EXCEPT ![u] = row]
  PROVE  /\ AccountTypes'
         /\ DOMAIN accounts' = DOMAIN accounts
         /\ Lang' = [Lang EXCEPT ![u] = row.language]
<1>1. DOMAIN accounts' = DOMAIN accounts
  OBVIOUS
<1>2. AccountTypes'
  BY <1>1 DEF AccountTypes
<1>3. \A v \in Owners : Profile!Language(v)' = IF v = u THEN row.language ELSE Profile!Language(v)
  BY <1>1 DEF Profile!Language, Profile!Exists
<1>4. Lang' = [v \in Owners |-> IF v = u THEN row.language ELSE Profile!Language(v)]
  BY <1>3 DEF Lang
<1>5. QED
  BY <1>1, <1>2, <1>4 DEF Lang

\* A row that is deleted.
LEMMA RowDeleted ==
  ASSUME AccountTypes, NEW u \in Owners, accounts' = Profile!WithoutRow(u)
  PROVE  /\ AccountTypes'
         /\ DOMAIN accounts' = DOMAIN accounts \ {u}
         /\ Lang' = [Lang EXCEPT ![u] = ""]
<1>1. accounts' = [v \in DOMAIN accounts \ {u} |-> accounts[v]]
  BY DEF Profile!WithoutRow
<1>2. DOMAIN accounts' = DOMAIN accounts \ {u}
  BY <1>1
<1>3. AccountTypes'
  BY <1>1, <1>2 DEF AccountTypes
<1>4. \A v \in Owners : Profile!Language(v)' = IF v = u THEN "" ELSE Profile!Language(v)
  BY <1>1, <1>2 DEF Profile!Language, Profile!Exists
<1>5. Lang' = [v \in Owners |-> IF v = u THEN "" ELSE Profile!Language(v)]
  BY <1>4 DEF Lang
<1>6. QED
  BY <1>2, <1>3, <1>5 DEF Lang

\* A step that leaves the rows as they are.
LEMMA RowsKept ==
  ASSUME AccountTypes, accounts' = accounts, NEW u \in Owners
  PROVE  /\ AccountTypes' /\ Lang' = Lang
         /\ Lang' = [Lang EXCEPT ![u] = Lang[u]]
<1>1. AccountTypes'
  BY DEF AccountTypes
<1>2. \A v \in Owners : Profile!Language(v)' = Profile!Language(v)
  BY DEF Profile!Language, Profile!Exists
<1>3. Lang' = Lang
  BY <1>2 DEF Lang
<1>4. QED
  BY <1>1, <1>3 DEF Lang

\* Whoever read the language that a request writes is overtaken; the others have
\* read what is still there.
LEMMA FreshStep ==
  ASSUME ProfileSound, NEW r \in Requests, NEW u \in Owners, NEW l, NEW j,
         aPc' = [aPc EXCEPT ![r] = j], Lang' = [Lang EXCEPT ![u] = l],
         l = Lang[u] \/ \A q \in Requests : aPc[q].user = u /\ q # r => q \in overtaken',
         (Requests \cap overtaken) \ {r} \subseteq overtaken', Fresh(r)'
  PROVE  \A q \in Requests : Fresh(q)'
<1> SUFFICES ASSUME NEW q \in Requests, q # r, q \notin overtaken'
             PROVE  Fresh(q)'
  BY DEF Fresh
<1>1. aPc \in [Requests -> Job] /\ Fresh(q) /\ q \notin overtaken
  BY DEF ProfileSound, ProfileTypes
<1>2. aPc'[q] = aPc[q]
  BY <1>1
<1>3. CASE aPc[q].at \notin {"store", "update"}
  BY <1>2, <1>3 DEF Fresh
<1>4. CASE aPc[q].at \in {"store", "update"}
  <2>1. aPc[q].user \in Owners
    BY <1>1, <1>4 DEF Job
  <2>2. Lang'[aPc[q].user] = Lang[aPc[q].user]
    BY <2>1 DEF Lang
  <2>3. QED
    BY <1>1, <1>2, <2>2 DEF Fresh
<1>5. QED
  BY <1>3, <1>4

\* A cached language that a step makes stale is excused by it.
LEMMA StaleStep ==
  ASSUME ProfileSound, NEW r \in Requests, NEW u \in Owners, NEW l, NEW j \in Job,
         aPc' = [aPc EXCEPT ![r] = j], Lang' = [Lang EXCEPT ![u] = l],
         cache' = cache, reason \subseteq reason',
         aPc[r].at = "invalidate" => aPc[r].user \in reason',
         l = Lang[u] \/ u \in reason' \/ (j.at = "invalidate" /\ j.user = u)
  PROVE  \A v \in Owners : Stale(v)' => Excused(v)'
<1> SUFFICES ASSUME NEW v \in Owners, Stale(v)' PROVE Excused(v)'
  OBVIOUS
<1>1. aPc \in [Requests -> Job]
  BY DEF ProfileSound, ProfileTypes
<1>2. aPc'[r] = j
  BY <1>1
<1>3. CASE Stale(v)
  <2>1. v \in reason \/ \E q \in Requests : aPc[q].at = "invalidate" /\ aPc[q].user = v
    BY <1>3 DEF ProfileSound, Excused
  <2>2. CASE v \in reason
    BY <2>2 DEF Excused
  <2>3. CASE \E q \in Requests : aPc[q].at = "invalidate" /\ aPc[q].user = v
    <3>1. PICK q \in Requests : aPc[q].at = "invalidate" /\ aPc[q].user = v
      BY <2>3
    <3>2. q # r => aPc'[q] = aPc[q]
      BY <1>1
    <3>3. QED
      BY <3>1, <3>2 DEF Excused
  <2>4. QED
    BY <2>1, <2>2, <2>3
<1>4. CASE ~ Stale(v)
  <2>1. v = u /\ l # Lang[u]
    BY <1>4 DEF Stale, Lang
  <2>2. QED
    BY <1>2, <2>1 DEF Excused
<1>5. QED
  BY <1>3, <1>4
\* Identities that go, or stay with accounts that stay.
LEMMA NumbersKept ==
  ASSUME Identified, numbers' \subseteq numbers,
         \A k \in Kinds, n \in Numbers, u \in Owners :
           <<k, n, u>> \in numbers' => u \in DOMAIN accounts'
  PROVE  Identified'
BY DEF Identified

\* A number is linked to an account that is there, unless another has it.
LEMMA NumberLinked ==
  ASSUME Identified, NEW k \in Kinds, NEW n \in Numbers, NEW u \in Owners,
         u \in DOMAIN accounts', DOMAIN accounts \subseteq DOMAIN accounts',
         numbers' = Profile!Linked(k, n, u)
  PROVE  Identified'
<1>1. CASE \E v \in Owners : <<k, n, v>> \in numbers
  <2>1. numbers' = numbers
    BY <1>1 DEF Profile!Linked
  <2>2. QED
    BY <2>1 DEF Identified
<1>2. CASE ~ \E v \in Owners : <<k, n, v>> \in numbers
  <2>1. numbers' = numbers \cup {<<k, n, u>>}
    BY <1>2 DEF Profile!Linked
  <2>2. numbers' \subseteq Kinds \X Numbers \X Owners
    BY <2>1 DEF Identified
  <2>3. ASSUME NEW kk \in Kinds, NEW nn \in Numbers, NEW v \in Owners, <<kk, nn, v>> \in numbers'
        PROVE  v \in DOMAIN accounts'
    BY <2>1, <2>3 DEF Identified
  <2>4. ASSUME NEW kk \in Kinds, NEW nn \in Numbers, NEW v \in Owners, NEW w \in Owners,
               <<kk, nn, v>> \in numbers', <<kk, nn, w>> \in numbers'
        PROVE  v = w
    BY <1>2, <2>1, <2>4 DEF Identified
  <2>5. QED
    BY <2>2, <2>3, <2>4 DEF Identified
<1>3. QED
  BY <1>1, <1>2

\* A request goes on, with one row at most, and leaves the cache alone.
LEMMA AccountStep ==
  ASSUME ProfileSound, NEW r \in Requests, NEW u \in Owners, NEW l, NEW j \in Job,
         aPc' = [aPc EXCEPT ![r] = j], Lang' = [Lang EXCEPT ![u] = l],
         AccountTypes', Identified', cache' = cache,
         l = Lang[u] \/ \A q \in Requests : aPc[q].user = u /\ q # r => q \in overtaken',
         (Requests \cap overtaken) \ {r} \subseteq overtaken', Fresh(r)',
         reason \subseteq reason',
         aPc[r].at = "invalidate" => aPc[r].user \in reason',
         l = Lang[u] \/ u \in reason' \/ (j.at = "invalidate" /\ j.user = u)
  PROVE  ProfileSound'
<1>1. \A q \in Requests : Fresh(q)'
  BY FreshStep
<1>2. \A v \in Owners : Stale(v)' => Excused(v)'
  BY StaleStep
<1>3. ProfileTypes'
  <2>1. aPc \in [Requests -> Job] /\ cache \in [Owners -> Choice \cup {"absent"}]
    BY DEF ProfileSound, ProfileTypes
  <2>2. aPc' \in [Requests -> Job]
    BY <2>1
  <2>3. QED
    BY <2>1, <2>2 DEF ProfileTypes
<1>4. QED
  BY <1>1, <1>2, <1>3 DEF ProfileSound

\* A request that has no answer of the database to work with.
LEMMA FreshWithout ==
  ASSUME NEW r \in Requests, aPc'[r].at \notin {"store", "update"}
  PROVE  Fresh(r)'
BY DEF Fresh

\* A request that leaves rows, identities and cache alone.
LEMMA RequestMove ==
  ASSUME ProfileSound, NEW r \in Requests, NEW j \in Job,
         aPc' = [aPc EXCEPT ![r] = j], Fresh(r)',
         UNCHANGED <<accounts, numbers, cache>>,
         (Requests \cap overtaken) \ {r} \subseteq overtaken', reason \subseteq reason',
         aPc[r].at = "invalidate" => aPc[r].user \in reason'
  PROVE  ProfileSound'
<1>1. FirstAdmin \in Owners
  BY ProfilesAssumption
<1>2. AccountTypes' /\ Lang' = [Lang EXCEPT ![FirstAdmin] = Lang[FirstAdmin]]
  BY <1>1, RowsKept DEF ProfileSound, ProfileTypes
<1>3. Identified'
  BY DEF ProfileSound, Identified
<1>4. QED
  BY <1>1, <1>2, <1>3, AccountStep

\* A new language, or none: the request that chose it has the cache to follow.
LEMMA SetLanguageStep ==
  ASSUME ProfileSound, NEW r \in Requests, NEW u \in Owners, NEW l \in Choice,
         Profile!SetLanguage(r, u, l)
  PROVE  ProfileSound'
<1> DEFINE j == [at |-> "invalidate", user |-> u, arg |-> l, seen |-> "absent"]
<1>1. /\ aPc' = [aPc EXCEPT ![r] = j]
      /\ numbers' = numbers /\ cache' = cache /\ reason' = reason
      /\ overtaken' = (overtaken \cup {q \in Requests : aPc[q].user = u}) \ {r}
      /\ aPc[r] = Profile!Idle
  BY DEF Profile!SetLanguage, Profile!Enter, Profile!Overtake, Profile!Free, Profile!Absent
<1>2. j \in Job /\ j.at = "invalidate" /\ j.user = u
  BY DEF Job, Ats
<1>3. AccountTypes /\ Identified /\ aPc \in [Requests -> Job]
  BY DEF ProfileSound, ProfileTypes
<1>4. PICK row \in Profile!Row : row.language = l /\ accounts' = Profile!WithRow(u, row)
  <2>1. Profile!NewRow(l) \in Profile!Row /\ Profile!NewRow(l).language = l
    BY DEF Profile!NewRow, Profile!Row, Choice
  <2>2. ASSUME u \in DOMAIN accounts
        PROVE  /\ [accounts[u] EXCEPT !.language = l] \in Profile!Row
               /\ [accounts[u] EXCEPT !.language = l].language = l
    BY <1>3, <2>2 DEF AccountTypes, Profile!Row, Choice
  <2>3. CASE u \in DOMAIN accounts
    <3>1. accounts' = Profile!WithRow(u, [accounts[u] EXCEPT !.language = l])
      BY <2>3 DEF Profile!SetLanguage, Profile!Exists
    <3>2. QED
      BY <2>2, <2>3, <3>1
  <2>4. CASE u \notin DOMAIN accounts
    <3>1. accounts' = Profile!WithRow(u, Profile!NewRow(l))
      BY <2>4 DEF Profile!SetLanguage, Profile!Exists
    <3>2. QED
      BY <2>1, <3>1
  <2>5. QED
    BY <2>3, <2>4
<1>5. /\ AccountTypes' /\ DOMAIN accounts \subseteq DOMAIN accounts'
      /\ Lang' = [Lang EXCEPT ![u] = l]
  BY <1>3, <1>4, RowWritten
<1>6. Identified'
  BY <1>1, <1>3, <1>5 DEF Identified
<1> HIDE DEF j
<1>7. Fresh(r)'
  BY <1>1, <1>2, <1>3 DEF Fresh
<1>8. aPc[r].at # "invalidate"
  BY <1>1, ChoicesAreLanguages
<1>9. \A q \in Requests : aPc[q].user = u /\ q # r => q \in overtaken'
  BY <1>1
<1>10. QED
  BY <1>1, <1>2, <1>5, <1>6, <1>7, <1>8, <1>9, AccountStep

\* A request of a user, or of the executor for one, that reads.
LEMMA EnterStep ==
  ASSUME ProfileSound, NEW r \in Requests, NEW u \in Owners,
         \/ \E arg \in Choice \cup {"keep", "without"} : Profile!ReadProfile(r, u, arg)
         \/ Profile!AskLanguage(r, u)
  PROVE  ProfileSound'
<1>1. /\ UNCHANGED <<accounts, numbers, cache, reason>> /\ aPc[r] = Profile!Idle
      /\ (Requests \cap overtaken) \ {r} \subseteq overtaken'
  BY DEF Profile!ReadProfile, Profile!AskLanguage, Profile!database, Profile!Free
<1>2. aPc[r].at # "invalidate"
  BY <1>1, ChoicesAreLanguages
<1>3. aPc \in [Requests -> Job] /\ AccountTypes
  BY DEF ProfileSound, ProfileTypes
<1>4. Lang' = Lang
  BY <1>1, <1>3, RowsKept
<1>5. CASE Profile!AskLanguage(r, u)
  <2> DEFINE j == [at |-> "query", user |-> u, arg |-> "keep", seen |-> "absent"]
  <2>1. aPc' = [aPc EXCEPT ![r] = j]
    BY <1>5 DEF Profile!AskLanguage, Profile!Enter, Profile!Keep, Profile!Absent
  <2>2. j \in Job /\ j.at = "query"
    BY DEF Job, Ats
  <2> HIDE DEF j
  <2>3. Fresh(r)'
    BY <1>3, <2>1, <2>2 DEF Fresh
  <2>4. QED
    BY <1>1, <1>2, <2>1, <2>2, <2>3, RequestMove
<1>6. CASE \E arg \in Choice \cup {"keep", "without"} : Profile!ReadProfile(r, u, arg)
  <2>1. PICK arg \in Choice \cup {"keep", "without"} : Profile!ReadProfile(r, u, arg)
    BY <1>6
  <2>2. PICK seen \in Choice \cup {"absent"} :
          /\ seen = IF u \in DOMAIN accounts THEN accounts[u].language ELSE "absent"
          /\ aPc' = [aPc EXCEPT ![r] = [at |-> "update", user |-> u, arg |-> arg, seen |-> seen]]
    <3> DEFINE s == IF u \in DOMAIN accounts THEN accounts[u].language ELSE "absent"
    <3>1. u \in DOMAIN accounts => accounts[u].language \in Choice
      BY <1>3 DEF AccountTypes, Profile!Row, Choice
    <3>2. s \in Choice \cup {"absent"}
      BY <3>1
    <3>3. aPc' = [aPc EXCEPT ![r] = [at |-> "update", user |-> u, arg |-> arg, seen |-> s]]
      BY <2>1 DEF Profile!ReadProfile, Profile!Enter, Profile!Exists, Profile!Absent
    <3>4. QED
      BY <3>2, <3>3
  <2> DEFINE j == [at |-> "update", user |-> u, arg |-> arg, seen |-> seen]
  <2>3. j \in Job /\ j.at = "update" /\ j.user = u /\ j.seen = seen
    BY DEF Job, Ats
  <2> HIDE DEF j
  <2>4. aPc' = [aPc EXCEPT ![r] = j]
    BY <2>2 DEF j
  <2>5. (IF seen = "absent" THEN "" ELSE seen) = Lang[u]
    BY <1>3, <2>2, LanguagesAreChoices, ChoicesAreLanguages
  <2>6. aPc'[r] = j
    BY <1>3, <2>4
  <2>7. Fresh(r)'
    BY <1>4, <2>3, <2>5, <2>6 DEF Fresh
  <2>8. QED
    BY <1>1, <1>2, <2>3, <2>4, <2>7, RequestMove
<1>7. QED
  BY <1>5, <1>6
\* An update writes what it read, or what its body says, over what is there now.
LEMMA WriteProfileStep ==
  ASSUME ProfileSound, NEW r \in Requests, Profile!WriteProfile(r)
  PROVE  ProfileSound'
<1>1. aPc \in [Requests -> Job] /\ AccountTypes /\ Identified /\ Fresh(r) /\ aPc[r].at = "update"
  BY DEF ProfileSound, ProfileTypes, Profile!WriteProfile
<1>2. PICK u \in Owners, arg \in Choice \cup {"keep", "without"}, seen \in Choice \cup {"absent"} :
        aPc[r].user = u /\ aPc[r].arg = arg /\ aPc[r].seen = seen /\ aPc[r] \in Job
  BY <1>1 DEF Job
<1>3. PICK l \in Choice :
        /\ l = Profile!Preferences(r)
        /\ arg = "keep" /\ r \notin overtaken => l = Lang[u]
  <2> DEFINE l == Profile!Preferences(r)
  <2>1. l = CASE arg = "keep" -> IF seen = "absent" THEN "" ELSE seen
              [] arg = "without" -> ""
              [] OTHER -> arg
    BY <1>2, ChoicesAreLanguages DEF Profile!Preferences
  <2>2. CASE arg = "keep"
    <3>1. l = IF seen = "absent" THEN "" ELSE seen
      BY <2>1, <2>2
    <3>2. l \in Choice
      BY <3>1, ChoicesAreLanguages
    <3>3. r \notin overtaken => l = Lang[u]
      BY <1>1, <1>2, <3>1 DEF Fresh
    <3>4. QED
      BY <3>2, <3>3
  <2>3. CASE arg = "without"
    BY <2>1, <2>3, ChoicesAreLanguages
  <2>4. CASE arg \notin {"keep", "without"}
    BY <2>1, <2>4
  <2>5. QED
    BY <2>2, <2>3, <2>4
<1>4. /\ accounts' = IF u \in DOMAIN accounts THEN [accounts EXCEPT ![u].language = l]
                     ELSE IF seen = "absent" THEN Profile!WithRow(u, Profile!NewRow(l))
                     ELSE accounts
      /\ numbers' = numbers /\ cache' = cache
      /\ reason' = IF arg = "without" \/ (arg = "keep" /\ r \in overtaken)
                   THEN reason \cup {u} ELSE reason
      /\ IF arg \in Choice THEN Profile!Go(r, "invalidate") ELSE Profile!Return(r)
      /\ overtaken' = (overtaken \cup {q \in Requests : aPc[q].user = u})
                        \ {IF arg \in Choice THEN r ELSE Nobody}
  BY <1>2, <1>3, ChoicesAreLanguages
     DEF Profile!WriteProfile, Profile!Exists, Profile!Overtake, Choice
<1>5. PICK j \in Job :
        /\ aPc' = [aPc EXCEPT ![r] = j] /\ j.at \in {"idle", "invalidate"}
        /\ arg \in Choice => j.at = "invalidate" /\ j.user = u
  <2>1. CASE arg \in Choice
    <3> DEFINE j == [aPc[r] EXCEPT !.at = "invalidate"]
    <3>1. j \in Job /\ j.at = "invalidate" /\ j.user = u
      BY <1>2 DEF Job, Ats
    <3>2. aPc' = [aPc EXCEPT ![r] = j]
      BY <1>4, <2>1 DEF Profile!Go
    <3>3. QED
      BY <3>1, <3>2
  <2>2. CASE arg \notin Choice
    BY <1>4, <2>2, ChoicesAreLanguages DEF Profile!Return
  <2>3. QED
    BY <2>1, <2>2
<1>6. PICK m \in Choice :
        /\ AccountTypes' /\ DOMAIN accounts \subseteq DOMAIN accounts'
        /\ Lang' = [Lang EXCEPT ![u] = m]
        /\ m = l \/ m = Lang[u]
  <2>1. CASE u \in DOMAIN accounts
    <3> DEFINE row == [accounts[u] EXCEPT !.language = l]
    <3>1. row \in Profile!Row /\ row.language = l
      BY <1>1, <2>1 DEF AccountTypes, Profile!Row, Choice
    <3>2. accounts' = [accounts EXCEPT ![u] = row]
      BY <1>4, <2>1
    <3> HIDE DEF row
    <3>3. AccountTypes' /\ DOMAIN accounts' = DOMAIN accounts /\ Lang' = [Lang EXCEPT ![u] = l]
      BY <1>1, <2>1, <3>1, <3>2, RowChanged
    <3>4. QED
      BY <3>3
  <2>2. CASE u \notin DOMAIN accounts /\ seen = "absent"
    <3> DEFINE row == Profile!NewRow(l)
    <3>1. row \in Profile!Row /\ row.language = l
      BY DEF Profile!NewRow, Profile!Row, Choice
    <3>2. accounts' = Profile!WithRow(u, row)
      BY <1>4, <2>2
    <3> HIDE DEF row
    <3>3. QED
      BY <1>1, <3>1, <3>2, RowWritten
  <2>3. CASE u \notin DOMAIN accounts /\ seen # "absent"
    <3>1. accounts' = accounts
      BY <1>4, <2>3
    <3>2. AccountTypes' /\ Lang' = [Lang EXCEPT ![u] = Lang[u]]
      BY <1>1, <3>1, RowsKept
    <3>3. Lang[u] \in Choice
      BY <1>1, LanguagesAreChoices
    <3>4. QED
      BY <3>1, <3>2, <3>3
  <2>4. QED
    BY <2>1, <2>2, <2>3
<1>7. Identified'
  BY <1>1, <1>4, <1>6 DEF Identified
<1>8. Fresh(r)'
  BY <1>1, <1>5 DEF Fresh
<1>9. /\ \A q \in Requests : aPc[q].user = u /\ q # r => q \in overtaken'
      /\ (Requests \cap overtaken) \ {r} \subseteq overtaken'
  <2>1. Nobody \notin Requests
    BY ProfilesAssumption
  <2>2. \A q \in Requests : aPc[q].user = u /\ q # r => q \in overtaken'
    BY <1>4, <2>1
  <2>3. (Requests \cap overtaken) \ {r} \subseteq overtaken'
    BY <1>4, <2>1
  <2>4. QED
    BY <2>2, <2>3
<1>10. m = Lang[u] \/ u \in reason' \/ (j.at = "invalidate" /\ j.user = u)
  <2>1. CASE arg \in Choice
    BY <1>5, <2>1
  <2>2. CASE arg = "without"
    BY <1>4, <2>2
  <2>3. CASE arg = "keep"
    BY <1>3, <1>4, <1>6, <2>3
  <2>4. QED
    BY <2>1, <2>2, <2>3
<1>11. reason \subseteq reason' /\ aPc[r].at # "invalidate"
  BY <1>1, <1>4
<1>12. QED
  BY <1>4, <1>5, <1>6, <1>7, <1>8, <1>9, <1>10, <1>11, AccountStep

\* The answer of the database, or none.
LEMMA QueryStep ==
  ASSUME ProfileSound, NEW r \in Requests, Profile!QueryLanguage(r)
  PROVE  ProfileSound'
<1>1. /\ aPc \in [Requests -> Job] /\ AccountTypes /\ aPc[r].at = "query" /\ aPc[r] \in Job
      /\ UNCHANGED <<accounts, numbers, cache, reason>>
      /\ (Requests \cap overtaken) \ {r} \subseteq overtaken'
  BY DEF ProfileSound, ProfileTypes, Profile!QueryLanguage, Profile!database
<1>2. aPc[r].user \in Owners
  BY <1>1 DEF Job
<1>3. PICK u \in Owners : aPc[r].user = u
  BY <1>2
<1>4. Lang' = Lang /\ Lang[u] = Profile!Language(u) /\ Lang[u] \in Choice
  BY <1>1, RowsKept, LanguagesAreChoices DEF Lang
<1>5. ASSUME NEW l \in Choice, aPc' = [aPc EXCEPT ![r] = [aPc[r] EXCEPT !.at = "store", !.seen = l]],
             l = Lang[u] \/ r \in overtaken'
      PROVE  ProfileSound'
  <2> DEFINE j == [aPc[r] EXCEPT !.at = "store", !.seen = l]
  <2>1. j \in Job /\ j.at = "store" /\ j.user = u /\ j.seen = l
    BY <1>1, <1>2, <1>3, <1>5 DEF Job, Ats
  <2>2. aPc' = [aPc EXCEPT ![r] = j] /\ aPc[r].at # "invalidate"
    BY <1>1, <1>5
  <2> HIDE DEF j
  <2>3. Fresh(r)'
    BY <1>1, <1>4, <1>5, <2>1, <2>2 DEF Fresh
  <2>4. QED
    BY <1>1, <2>1, <2>2, <2>3, RequestMove
<1>6. CASE aPc' = [aPc EXCEPT ![r] = [aPc[r] EXCEPT !.at = "store", !.seen = Lang[u]]]
  BY <1>4, <1>5, <1>6
<1>7. CASE /\ aPc' = [aPc EXCEPT ![r] = [aPc[r] EXCEPT !.at = "store", !.seen = ""]]
           /\ r \in overtaken'
  BY <1>5, <1>7, ChoicesAreLanguages
<1>8. QED
  BY <1>3, <1>4, <1>6, <1>7 DEF Profile!QueryLanguage

\* The entry of the cache is dropped, or written with what the request has read.
LEMMA CacheStep ==
  ASSUME ProfileSound, NEW r \in Requests, Profile!Invalidate(r) \/ Profile!StoreLanguage(r)
  PROVE  ProfileSound'
<1>1. /\ aPc \in [Requests -> Job] /\ AccountTypes /\ aPc[r] \in Job /\ aPc[r].at \in {"invalidate", "store"}
      /\ UNCHANGED <<accounts, numbers, overtaken>> /\ aPc' = [aPc EXCEPT ![r] = Profile!Idle]
      /\ cache \in [Owners -> Choice \cup {"absent"}] /\ Fresh(r)
  BY DEF ProfileSound, ProfileTypes, Profile!Invalidate, Profile!StoreLanguage, Profile!database,
         Profile!Return
<1>2. aPc[r].user \in Owners /\ aPc[r].seen \in Choice \cup {"absent"}
  BY <1>1 DEF Job
<1>3. PICK u \in Owners : aPc[r].user = u
  BY <1>2
<1>4. AccountTypes' /\ Lang' = Lang /\ Lang' = [Lang EXCEPT ![u] = Lang[u]]
  BY <1>1, RowsKept
<1>5. PICK text \in Choice \cup {"absent"} :
        /\ cache' = [cache EXCEPT ![u] = text]
        /\ reason \ {u} \subseteq reason'
        /\ text \in {"absent", Lang[u]} \/ u \in reason'
  <2>1. CASE Profile!Invalidate(r)
    <3>1. cache' = [cache EXCEPT ![u] = "absent"] /\ reason' = reason \ {u}
      BY <1>3, <2>1 DEF Profile!Invalidate, Profile!Absent
    <3>2. QED
      BY <3>1
  <2>2. CASE Profile!StoreLanguage(r)
    <3>1. /\ cache' = [cache EXCEPT ![u] = aPc[r].seen] /\ aPc[r].at = "store"
          /\ reason' = IF r \in overtaken THEN reason \cup {u} ELSE reason \ {u}
      BY <1>3, <2>2 DEF Profile!StoreLanguage
    <3>2. r \in overtaken \/ aPc[r].seen = Lang[u]
      BY <1>1, <1>3, <3>1 DEF Fresh
    <3>3. QED
      BY <1>2, <3>1, <3>2
  <2>3. QED
    BY <2>1, <2>2
<1>6. cache' \in [Owners -> Choice \cup {"absent"}] /\ cache'[u] = text
  BY <1>1, <1>5
<1>7. aPc' \in [Requests -> Job] /\ aPc'[r].at = "idle"
  BY <1>1, ChoicesAreLanguages
<1>8. \A q \in Requests : Fresh(q)'
  BY <1>1, <1>4, <1>7, FreshWithout, FreshStep
<1>9. ASSUME NEW v \in Owners, Stale(v)'
      PROVE  Excused(v)'
  <2>1. CASE v = u
    BY <1>4, <1>5, <1>6, <1>9, <2>1 DEF Stale, Excused
  <2>2. CASE v # u
    <3>1. cache'[v] = cache[v]
      BY <1>1, <1>5, <2>2
    <3>2. Stale(v)
      BY <1>4, <1>9, <3>1 DEF Stale
    <3>3. v \in reason \/ \E q \in Requests : aPc[q].at = "invalidate" /\ aPc[q].user = v
      BY <3>2 DEF ProfileSound, Excused
    <3>4. CASE v \in reason
      BY <1>5, <2>2, <3>4 DEF Excused
    <3>5. CASE \E q \in Requests : aPc[q].at = "invalidate" /\ aPc[q].user = v
      <4>1. PICK q \in Requests : aPc[q].at = "invalidate" /\ aPc[q].user = v
        BY <3>5
      <4>2. q # r
        BY <1>3, <2>2, <4>1
      <4>3. aPc'[q] = aPc[q]
        BY <1>1, <4>2
      <4>4. QED
        BY <4>1, <4>3 DEF Excused
    <3>6. QED
      BY <3>3, <3>4, <3>5
  <2>3. QED
    BY <2>1, <2>2
<1>10. Identified'
  BY <1>1 DEF ProfileSound, Identified
<1>11. QED
  BY <1>4, <1>6, <1>7, <1>8, <1>9, <1>10 DEF ProfileSound, ProfileTypes
\* A request that dies, or a command that fails; the entry that it was to delete is excused.
LEMMA FailsStep ==
  ASSUME ProfileSound, NEW r \in Requests, Profile!Fails(r)
  PROVE  ProfileSound'
<1>1. /\ UNCHANGED <<accounts, numbers, cache, overtaken>>
      /\ aPc' = [aPc EXCEPT ![r] = Profile!Idle]
      /\ reason' = IF aPc[r].at = "invalidate" THEN reason \cup {aPc[r].user} ELSE reason
      /\ aPc \in [Requests -> Job]
  BY DEF ProfileSound, ProfileTypes, Profile!Fails, Profile!database, Profile!Return
<1>2. aPc'[r].at = "idle"
  BY <1>1, ChoicesAreLanguages
<1>3. Fresh(r)'
  BY <1>2, FreshWithout
<1>4. QED
  BY <1>1, <1>3, ChoicesAreLanguages, RequestMove

\* An administrator is let in.
LEMMA AdmitStep ==
  ASSUME ProfileSound, NEW r \in Requests, Profile!Admit(r)
  PROVE  ProfileSound'
<1> DEFINE j == [at |-> "admitted", user |-> Nobody, arg |-> "keep", seen |-> "absent"]
<1>1. /\ UNCHANGED <<accounts, numbers, cache, overtaken, reason>>
      /\ aPc' = [aPc EXCEPT ![r] = j] /\ aPc[r] = Profile!Idle
      /\ aPc \in [Requests -> Job]
  BY DEF ProfileSound, ProfileTypes, Profile!Admit, Profile!database, Profile!Enter, Profile!Free,
         Profile!Keep, Profile!Absent
<1>2. j \in Job /\ j.at = "admitted"
  BY DEF Job, Ats
<1> HIDE DEF j
<1>3. aPc'[r].at = "admitted" /\ aPc[r].at # "invalidate"
  BY <1>1, <1>2, ChoicesAreLanguages
<1>4. Fresh(r)'
  BY <1>3, FreshWithout
<1>5. QED
  BY <1>1, <1>2, <1>3, <1>4, RequestMove

\* The transaction of an administrator, which writes one row and one number at most.
LEMMA AdminStep ==
  ASSUME ProfileSound, NEW r \in Requests, Profile!AdminNext(r)
  PROVE  ProfileSound'
<1>1. PICK u \in Owners :
        \/ \E newRole \in {"user", "admin"} : Profile!CreateUser(r, u, newRole)
        \/ Profile!UpdateUser(r, u)
        \/ Profile!DeleteUser(r, u)
        \/ \E n \in Numbers, k \in Kinds : Profile!AddIdentity(r, u, k, n)
        \/ \E n \in Numbers : Profile!RemoveIdentity(r, u, n)
  BY DEF Profile!AdminNext
<1>2. Profile!Commit(r) /\ aPc \in [Requests -> Job] /\ AccountTypes /\ Identified
  BY <1>1 DEF Profile!CreateUser, Profile!UpdateUser, Profile!DeleteUser, Profile!AddIdentity,
              Profile!RemoveIdentity, ProfileSound, ProfileTypes
<1>3. aPc' = [aPc EXCEPT ![r] = Profile!Idle] /\ cache' = cache /\ aPc[r].at = "admitted"
  BY <1>2 DEF Profile!Commit, Profile!Return
<1>4. aPc'[r].at = "idle" /\ Profile!Idle \in Job
  BY <1>2, <1>3, ChoicesAreLanguages
<1>5. Fresh(r)' /\ aPc[r].at # "invalidate"
  BY <1>3, <1>4, FreshWithout
<1>6. Lang[u] = (IF u \in DOMAIN accounts THEN accounts[u].language ELSE "")
  BY <1>2, LanguagesAreChoices
<1>7. ASSUME Lang' = [Lang EXCEPT ![u] = Lang[u]], AccountTypes', Identified',
             UNCHANGED <<overtaken, reason>>
      PROVE  ProfileSound'
  BY <1>3, <1>4, <1>5, <1>7, AccountStep
<1>8. CASE \E newRole \in {"user", "admin"} : Profile!CreateUser(r, u, newRole)
  <2>1. PICK newRole \in {"user", "admin"} : Profile!CreateUser(r, u, newRole)
    BY <1>8
  <2>2. /\ AccountTypes' /\ DOMAIN accounts' = DOMAIN accounts \cup {u}
        /\ Lang' = [Lang EXCEPT ![u] = Lang[u]]
    <3>1. CASE u \in DOMAIN accounts
      <4>1. accounts' = accounts
        BY <2>1, <3>1 DEF Profile!CreateUser, Profile!Exists
      <4>2. QED
        BY <1>2, <3>1, <4>1, RowsKept
    <3>2. CASE u \notin DOMAIN accounts
      <4> DEFINE row == [Profile!NewRow("") EXCEPT !.role = newRole]
      <4>1. row \in Profile!Row /\ row.language = ""
        BY ChoicesAreLanguages DEF Profile!NewRow, Profile!Row, Choice
      <4>2. accounts' = Profile!WithRow(u, row)
        BY <2>1, <3>2 DEF Profile!CreateUser, Profile!Exists
      <4> HIDE DEF row
      <4>3. QED
        BY <1>2, <1>6, <3>2, <4>1, <4>2, RowWritten
    <3>3. QED
      BY <3>1, <3>2
  <2>3. Identified'
    <3>1. CASE numbers' = numbers
      BY <1>2, <2>2, <3>1 DEF Identified
    <3>2. CASE \E n \in Numbers : numbers' = Profile!Linked("whatsapp", n, u)
      <4>1. PICK n \in Numbers : numbers' = Profile!Linked("whatsapp", n, u)
        BY <3>2
      <4>2. "whatsapp" \in Kinds /\ u \in DOMAIN accounts' /\ DOMAIN accounts \subseteq DOMAIN accounts'
        BY <2>2, ChoicesAreLanguages
      <4>3. QED
        BY <1>2, <4>1, <4>2, NumberLinked
    <3>3. QED
      BY <2>1, <3>1, <3>2 DEF Profile!CreateUser
  <2>4. QED
    BY <1>7, <2>1, <2>2, <2>3 DEF Profile!CreateUser
<1>9. CASE Profile!UpdateUser(r, u)
  <2>1. u \in DOMAIN accounts /\ UNCHANGED <<numbers, overtaken, reason>>
    BY <1>9 DEF Profile!UpdateUser, Profile!Exists
  <2>2. accounts[u] \in Profile!Row
    BY <1>2, <2>1 DEF AccountTypes
  <2>3. PICK row \in Profile!Row :
          row.language = accounts[u].language /\ accounts' = [accounts EXCEPT ![u] = row]
    <3>1. CASE \E newRole \in {"user", "admin"} : accounts' = [accounts EXCEPT ![u].role = newRole]
      <4>1. PICK newRole \in {"user", "admin"} : accounts' = [accounts EXCEPT ![u].role = newRole]
        BY <3>1
      <4> DEFINE row == [accounts[u] EXCEPT !.role = newRole]
      <4>2. row \in Profile!Row /\ row.language = accounts[u].language
        BY <2>2 DEF Profile!Row
      <4>3. QED
        BY <4>1, <4>2
    <3>2. CASE \E status \in {"active", "disabled"} : accounts' = [accounts EXCEPT ![u].status = status]
      <4>1. PICK status \in {"active", "disabled"} : accounts' = [accounts EXCEPT ![u].status = status]
        BY <3>2
      <4> DEFINE row == [accounts[u] EXCEPT !.status = status]
      <4>2. row \in Profile!Row /\ row.language = accounts[u].language
        BY <2>2 DEF Profile!Row
      <4>3. QED
        BY <4>1, <4>2
    <3>3. QED
      BY <1>9, <3>1, <3>2 DEF Profile!UpdateUser
  <2>4. AccountTypes' /\ DOMAIN accounts' = DOMAIN accounts /\ Lang' = [Lang EXCEPT ![u] = Lang[u]]
    BY <1>2, <1>6, <2>1, <2>3, RowChanged
  <2>5. Identified'
    BY <1>2, <2>1, <2>4 DEF Identified
  <2>6. QED
    BY <1>7, <2>1, <2>4, <2>5
<1>10. CASE Profile!DeleteUser(r, u)
  <2>1. /\ accounts' = Profile!WithoutRow(u)
        /\ numbers' = {identity \in numbers : identity[3] # u}
        /\ reason' = reason \cup {u}
        /\ overtaken' = (overtaken \cup {q \in Requests : aPc[q].user = u}) \ {Nobody}
    BY <1>10 DEF Profile!DeleteUser, Profile!Overtake
  <2>2. /\ AccountTypes' /\ DOMAIN accounts' = DOMAIN accounts \ {u}
        /\ Lang' = [Lang EXCEPT ![u] = ""]
    BY <1>2, <2>1, RowDeleted
  <2>3. Identified'
    <3>1. ASSUME NEW k \in Kinds, NEW n \in Numbers, NEW v \in Owners, <<k, n, v>> \in numbers'
          PROVE  v \in DOMAIN accounts'
      <4>1. <<k, n, v>> \in numbers /\ <<k, n, v>>[3] # u
        BY <2>1, <3>1
      <4>2. v # u
        BY <4>1
      <4>3. QED
        BY <1>2, <2>2, <4>1, <4>2 DEF Identified
    <3>2. numbers' \subseteq numbers
      BY <2>1
    <3>3. QED
      BY <1>2, <3>1, <3>2, NumbersKept
  <2>4. /\ \A q \in Requests : aPc[q].user = u /\ q # r => q \in overtaken'
        /\ (Requests \cap overtaken) \ {r} \subseteq overtaken'
        /\ reason \subseteq reason' /\ u \in reason'
    BY <2>1, ProfilesAssumption
  <2>5. QED
    BY <1>3, <1>4, <1>5, <2>2, <2>3, <2>4, AccountStep
<1>11. CASE \E n \in Numbers, k \in Kinds : Profile!AddIdentity(r, u, k, n)
  <2>1. PICK n \in Numbers, k \in Kinds : Profile!AddIdentity(r, u, k, n)
    BY <1>11
  <2>2. /\ u \in DOMAIN accounts /\ numbers' = Profile!Linked(k, n, u)
        /\ UNCHANGED <<accounts, overtaken, reason>>
    BY <2>1 DEF Profile!AddIdentity, Profile!Exists
  <2>3. Identified'
    BY <1>2, <2>2, NumberLinked
  <2>4. QED
    BY <1>2, <1>7, <2>2, <2>3, RowsKept
<1>12. CASE \E n \in Numbers : Profile!RemoveIdentity(r, u, n)
  <2>1. numbers' \subseteq numbers /\ UNCHANGED <<accounts, overtaken, reason>>
    BY <1>12 DEF Profile!RemoveIdentity
  <2>2. Identified'
    BY <1>2, <2>1 DEF Identified
  <2>3. QED
    BY <1>2, <1>7, <2>1, <2>2, RowsKept
<1>13. QED
  BY <1>1, <1>8, <1>9, <1>10, <1>11, <1>12

\* What changes no language, no request and no cache disturbs nothing.
LEMMA Undisturbed ==
  ASSUME ProfileSound, UNCHANGED <<cache, aPc, overtaken, reason>>, Lang' = Lang,
         AccountTypes', Identified'
  PROVE  ProfileSound'
<1>1. ProfileTypes'
  BY DEF ProfileSound, ProfileTypes
<1>2. ASSUME NEW r \in Requests
      PROVE  Fresh(r)'
  <2>1. Fresh(r)
    BY DEF ProfileSound
  <2>2. QED
    BY <2>1 DEF Fresh
<1>3. ASSUME NEW u \in Owners, Stale(u)'
      PROVE  Excused(u)'
  <2>1. Stale(u)
    BY <1>3 DEF Stale
  <2>2. Excused(u)
    BY <2>1 DEF ProfileSound
  <2>3. QED
    BY <2>2 DEF Excused
<1>4. QED
  BY <1>1, <1>2, <1>3 DEF ProfileSound

\* A profile that is created has no language, as the account that was not there.
LEMMA GetProfileStep ==
  ASSUME ProfileSound, NEW u \in Owners, Profile!GetProfile(u)
  PROVE  ProfileSound'
<1>1. /\ accounts' = Profile!WithRow(u, Profile!NewRow("")) /\ u \notin DOMAIN accounts
      /\ UNCHANGED <<numbers, cache, aPc, overtaken, reason>>
      /\ AccountTypes /\ Identified
  BY DEF Profile!GetProfile, Profile!Exists, ProfileSound, ProfileTypes
<1> DEFINE row == Profile!NewRow("")
<1>2. row \in Profile!Row /\ row.language = ""
  BY ChoicesAreLanguages DEF Profile!NewRow, Profile!Row, Choice
<1> HIDE DEF row
<1>3. /\ AccountTypes' /\ DOMAIN accounts \subseteq DOMAIN accounts'
      /\ Lang' = [Lang EXCEPT ![u] = ""]
  BY <1>1, <1>2, RowWritten DEF row
<1>4. Lang[u] = ""
  BY <1>1, LanguagesAreChoices
<1>5. Lang' = Lang
  BY <1>3, <1>4 DEF Lang
<1>6. Identified'
  BY <1>1, <1>3 DEF Identified
<1>7. QED
  BY <1>1, <1>3, <1>5, <1>6, Undisturbed

\* Entries of the cache that expire are not stale.
LEMMA ExpireStep ==
  ASSUME ProfileSound, Profile!Expire
  PROVE  ProfileSound'
<1>1. /\ UNCHANGED <<accounts, numbers, aPc, overtaken>>
      /\ \E set \in SUBSET Owners :
           cache' = [u \in Owners |-> IF u \in set THEN "absent" ELSE cache[u]]
      /\ reason' = {u \in reason : cache'[u] # "absent"}
      /\ ProfileTypes /\ Identified
  <2>1. UNCHANGED <<accounts, numbers, aPc, overtaken>> /\ ProfileTypes /\ Identified
    BY DEF Profile!Expire, Profile!database, ProfileSound
  <2>2. cache' = [u \in Owners |-> IF u \in {v \in Owners : ttl'[v] = 0} THEN "absent" ELSE cache[u]]
    BY DEF Profile!Expire, Profile!Absent
  <2>3. {v \in Owners : ttl'[v] = 0} \in SUBSET Owners
    OBVIOUS
  <2>4. reason' = {u \in reason : cache'[u] # "absent"}
    BY DEF Profile!Expire, Profile!Absent
  <2>5. QED
    BY <2>1, <2>2, <2>3, <2>4
<1>2. PICK set \in SUBSET Owners :
        cache' = [u \in Owners |-> IF u \in set THEN "absent" ELSE cache[u]]
  BY <1>1
<1>3. cache' \in [Owners -> Choice \cup {"absent"}]
  BY <1>1, <1>2 DEF ProfileTypes
<1>4. AccountTypes' /\ Lang' = Lang
  BY <1>1, RowsKept, ProfilesAssumption DEF ProfileTypes
<1>5. ASSUME NEW u \in Owners, Stale(u)'
      PROVE  Excused(u)'
  <2>1. cache'[u] # "absent" /\ cache'[u] = cache[u]
    BY <1>2, <1>5 DEF Stale
  <2>2. Excused(u)
    BY <1>4, <1>5, <2>1 DEF Stale, ProfileSound
  <2>3. QED
    BY <1>1, <2>1, <2>2 DEF Excused
<1>6. Identified'
  BY <1>1 DEF Identified
<1>7. QED
  BY <1>1, <1>3, <1>4, <1>5, <1>6 DEF ProfileSound, ProfileTypes, Fresh
\* No request, administrator or expiry disturbs it.
LEMMA ProfilesStaySound == ProfileSound /\ [Profile!Next]_(Profile!vars) => ProfileSound'
<1> SUFFICES ASSUME ProfileSound, [Profile!Next]_(Profile!vars)
             PROVE  ProfileSound'
  OBVIOUS
<1>1. ASSUME UNCHANGED <<accounts, numbers, cache, aPc, overtaken, reason>>
      PROVE  ProfileSound'
  <2>1. AccountTypes' /\ Lang' = Lang
    BY <1>1, RowsKept, ProfilesAssumption DEF ProfileSound, ProfileTypes
  <2>2. Identified'
    BY <1>1 DEF ProfileSound, Identified
  <2>3. QED
    BY <1>1, <2>1, <2>2, Undisturbed
<1>2. CASE \E u \in Owners : Profile!Login(u) \/ Profile!GetProfile(u)
  BY <1>1, <1>2, GetProfileStep DEF Profile!Login
<1>3. CASE \E r \in Requests : Profile!RequestNext(r)
  <2>1. PICK r \in Requests : Profile!RequestNext(r)
    BY <1>3
  <2>2. CASE Profile!UserNext(r)
    BY <2>2, SetLanguageStep, EnterStep
       DEF Profile!UserNext, Choice, Profile!Keep, Profile!Without
  <2>3. CASE Profile!WriteProfile(r) \/ Profile!Invalidate(r) \/ Profile!QueryLanguage(r)
             \/ Profile!StoreLanguage(r)
    BY <2>3, WriteProfileStep, CacheStep, QueryStep
  <2>4. CASE Profile!Admit(r) \/ Profile!AdminNext(r) \/ Profile!Fails(r)
    BY <2>4, AdmitStep, AdminStep, FailsStep
  <2>5. QED
    BY <2>1, <2>2, <2>3, <2>4 DEF Profile!RequestNext
<1>4. CASE Profile!Expire
  BY <1>4, ExpireStep
<1>5. CASE UNCHANGED Profile!vars
  BY <1>1, <1>5 DEF Profile!vars, Profile!database
<1>6. QED
  BY <1>2, <1>3, <1>4, <1>5 DEF Profile!Next

\* The platform starts with its administrator, who has chosen no language.
LEMMA ProfilesStartSound == Profile!Init => ProfileSound
<1> SUFFICES ASSUME Profile!Init PROVE ProfileSound
  OBVIOUS
<1>1. /\ accounts = [u \in {FirstAdmin} |-> [role |-> "admin", status |-> "active", language |-> ""]]
      /\ numbers = {} /\ cache = [u \in Owners |-> "absent"]
      /\ aPc = [r \in Requests |-> Profile!Idle]
  BY DEF Profile!Init, Profile!Absent
<1>2. AccountTypes
  BY <1>1, ProfilesAssumption, ChoicesAreLanguages DEF AccountTypes, Profile!Row, Choice
<1>3. ProfileTypes
  BY <1>1, <1>2, ChoicesAreLanguages DEF ProfileTypes
<1>4. Identified
  BY <1>1 DEF Identified
<1>5. QED
  BY <1>1, <1>3, <1>4, ChoicesAreLanguages DEF ProfileSound, Fresh, Stale

\* Identities belong to accounts that exist, and two accounts that a number may open
\* have it under different types, whatever administrators do at the same time.
THEOREM IdentitiesBelong == Profile!Spec => []NumbersBelongToAccounts
<1>1. ASSUME ProfileSound
      PROVE  NumbersBelongToAccounts
  <2>1. Identified
    BY <1>1 DEF ProfileSound
  <2>2. ASSUME NEW identity \in numbers
        PROVE  Profile!Exists(identity[3])
    <3>1. identity \in Kinds \X Numbers \X Owners
      BY <2>1 DEF Identified
    <3>2. PICK k \in Kinds, n \in Numbers, u \in Owners : identity = <<k, n, u>>
      BY <3>1
    <3>3. QED
      BY <2>1, <3>2 DEF Identified, Profile!Exists
  <2>3. ASSUME NEW n \in Numbers, NEW u \in Profile!CheckAccess(n), NEW v \in Profile!CheckAccess(n),
               u # v
        PROVE  \E k, l \in Kinds : k # l /\ {<<k, n, u>>, <<l, n, v>>} \subseteq numbers
    <3> DEFINE byNumber == {w \in Owners : Profile!Active(w) /\ \E k \in Kinds : <<k, n, w>> \in numbers}
    <3>1. Profile!CheckAccess(n) =
            IF byNumber # {} THEN byNumber ELSE {w \in {n} \cap Owners : Profile!Active(w)}
      BY DEF Profile!CheckAccess
    <3>2. u \in byNumber /\ v \in byNumber
      BY <2>3, <3>1
    <3>3. PICK k \in Kinds, l \in Kinds : <<k, n, u>> \in numbers /\ <<l, n, v>> \in numbers
      BY <3>2
    <3>4. k # l
      BY <2>1, <2>3, <3>2, <3>3 DEF Identified
    <3>5. QED
      BY <3>3, <3>4
  <2>4. QED
    BY <2>2, <2>3 DEF NumbersBelongToAccounts, Profile!NumbersBelongToAccounts
<1>2. QED
  BY <1>1, ProfilesStartSound, ProfilesStaySound, PTL DEF Profile!Spec

\* A cached language that is not the one of the profile has one of the five reasons.
THEOREM StaleLanguagesAreExcused == Profile!Spec => []StaleHasReason
<1>1. ASSUME ProfileSound
      PROVE  StaleHasReason
  <2> SUFFICES ASSUME NEW u \in Owners, cache[u] \notin {"absent", Profile!Language(u)}
               PROVE  u \in reason \/ \E r \in Requests : aPc[r].at = "invalidate" /\ aPc[r].user = u
    BY DEF StaleHasReason, Profile!StaleHasReason, Profile!Absent
  <2>1. Stale(u)
    BY DEF Stale, Lang
  <2>2. QED
    BY <1>1, <2>1 DEF ProfileSound, Excused
<1>2. QED
  BY <1>1, ProfilesStartSound, ProfilesStaySound, PTL DEF Profile!Spec

\* Who writes another language into a row that stays: a choice, or an update that was
\* overtaken or replaces all preferences.
LEMMA WhoWrites ==
  ASSUME ProfileSound, [Profile!Next]_(Profile!vars),
         NEW u \in DOMAIN accounts \cap DOMAIN accounts',
         accounts'[u].language # accounts[u].language
  PROVE  \E r \in Requests :
           \/ aPc'[r] # aPc[r] /\ aPc'[r].at = "invalidate" /\ aPc'[r].user = u
           \/ /\ aPc[r].at = "update" /\ aPc'[r] = Profile!Idle /\ aPc[r].user = u
              /\ aPc[r].arg = "without" \/ r \in overtaken
<1>1. aPc \in [Requests -> Job] /\ AccountTypes /\ u \in Owners
  BY DEF ProfileSound, ProfileTypes, AccountTypes
<1>2. accounts' # accounts
  OBVIOUS
<1>3. ASSUME NEW v \in Owners, Profile!GetProfile(v)
      PROVE  FALSE
  BY <1>3 DEF Profile!GetProfile, Profile!WithRow, Profile!Exists
<1>4. ASSUME NEW r \in Requests, NEW v \in Owners, NEW l \in Choice, Profile!SetLanguage(r, v, l)
      PROVE  aPc'[r] # aPc[r] /\ aPc'[r].at = "invalidate" /\ aPc'[r].user = u
  <2>1. aPc'[r] = [at |-> "invalidate", user |-> v, arg |-> l, seen |-> "absent"]
        /\ aPc[r] = Profile!Idle
    BY <1>1, <1>4 DEF Profile!SetLanguage, Profile!Enter, Profile!Free, Profile!Absent
  <2>2. \E row : accounts' = Profile!WithRow(v, row)
    BY <1>4 DEF Profile!SetLanguage
  <2>3. u = v
    BY <2>2 DEF Profile!WithRow
  <2>4. aPc[r].at = "idle"
    BY <2>1, ChoicesAreLanguages
  <2>5. aPc'[r].at = "invalidate" /\ aPc'[r].user = v
    BY <2>1
  <2>6. QED
    BY <2>3, <2>4, <2>5
<1>5. ASSUME NEW r \in Requests, Profile!WriteProfile(r)
      PROVE  \/ aPc'[r] # aPc[r] /\ aPc'[r].at = "invalidate" /\ aPc'[r].user = u
             \/ /\ aPc[r].at = "update" /\ aPc'[r] = Profile!Idle /\ aPc[r].user = u
                /\ aPc[r].arg = "without" \/ r \in overtaken
  <2>1. aPc[r] \in Job /\ aPc[r].at = "update" /\ Fresh(r)
    BY <1>1, <1>5 DEF Profile!WriteProfile, ProfileSound
  <2>2. PICK v \in Owners, arg \in Choice \cup {"keep", "without"}, seen \in Choice \cup {"absent"} :
          aPc[r].user = v /\ aPc[r].arg = arg /\ aPc[r].seen = seen
    BY <2>1 DEF Job
  <2>3. accounts' = IF v \in DOMAIN accounts THEN [accounts EXCEPT ![v].language = Profile!Preferences(r)]
                    ELSE IF seen = "absent" THEN Profile!WithRow(v, Profile!NewRow(Profile!Preferences(r)))
                    ELSE accounts
    BY <1>5, <2>2, ChoicesAreLanguages DEF Profile!WriteProfile, Profile!Exists
  <2>4. CASE v \notin DOMAIN accounts
    BY <1>2, <2>3, <2>4 DEF Profile!WithRow
  <2>5. CASE v \in DOMAIN accounts
    <3>1. u = v
      BY <2>3, <2>5
    <3>2. accounts[u] \in Profile!Row
      BY <1>1 DEF AccountTypes
    <3>3. accounts'[u].language = Profile!Preferences(r)
      BY <2>3, <2>5, <3>1, <3>2 DEF Profile!Row
    <3>4. CASE arg \in Choice
      <4>1. aPc' = [aPc EXCEPT ![r] = [aPc[r] EXCEPT !.at = "invalidate"]]
        BY <1>5, <2>2, <3>4 DEF Profile!WriteProfile, Profile!Go, Choice
      <4>2. aPc'[r] = [aPc[r] EXCEPT !.at = "invalidate"]
        BY <1>1, <4>1
      <4>3. aPc'[r].at = "invalidate" /\ aPc'[r].user = aPc[r].user
        BY <2>1, <4>2 DEF Job
      <4>4. QED
        BY <2>1, <2>2, <3>1, <4>3
    <3>5. CASE arg \notin Choice
      <4>1. aPc'[r] = Profile!Idle
        BY <1>1, <1>5, <2>2, <3>5 DEF Profile!WriteProfile, Profile!Return, Choice
      <4>2. CASE arg = "without"
        BY <2>1, <2>2, <3>1, <4>1, <4>2
      <4>3. CASE arg = "keep"
        <5>1. Profile!Preferences(r) = IF seen = "absent" THEN "" ELSE seen
          BY <2>2, <4>3, ChoicesAreLanguages DEF Profile!Preferences
        <5>2. Lang[u] = accounts[u].language
          BY <1>1, LanguagesAreChoices
        <5>3. r \in overtaken
          BY <2>1, <2>2, <3>1, <3>3, <5>1, <5>2 DEF Fresh
        <5>4. QED
          BY <2>1, <2>2, <3>1, <4>1, <5>3
      <4>4. QED
        BY <3>5, <4>2, <4>3
    <3>6. QED
      BY <3>4, <3>5
  <2>6. QED
    BY <2>4, <2>5
<1>6. ASSUME NEW r \in Requests, NEW v \in Owners, NEW newRole, Profile!CreateUser(r, v, newRole)
      PROVE  FALSE
  BY <1>2, <1>6 DEF Profile!CreateUser, Profile!WithRow, Profile!Exists
<1>7. ASSUME NEW r \in Requests, NEW v \in Owners, Profile!UpdateUser(r, v)
      PROVE  FALSE
  <2>1. v \in DOMAIN accounts /\ accounts[v] \in Profile!Row
    BY <1>1, <1>7 DEF Profile!UpdateUser, Profile!Exists, AccountTypes
  <2>2. \/ \E newRole \in {"user", "admin"} : accounts' = [accounts EXCEPT ![v].role = newRole]
        \/ \E status \in {"active", "disabled"} : accounts' = [accounts EXCEPT ![v].status = status]
    BY <1>7 DEF Profile!UpdateUser
  <2>3. accounts'[v].language = accounts[v].language
    BY <2>1, <2>2 DEF Profile!Row
  <2>4. u # v => accounts'[u] = accounts[u]
    BY <2>2
  <2>5. QED
    BY <2>3, <2>4
<1>8. ASSUME NEW r \in Requests, NEW v \in Owners, Profile!DeleteUser(r, v)
      PROVE  FALSE
  BY <1>8 DEF Profile!DeleteUser, Profile!WithoutRow
<1>9. CASE \E r \in Requests : Profile!UserNext(r)
  <2>1. PICK r \in Requests, v \in Owners, l \in Choice : Profile!SetLanguage(r, v, l)
    BY <1>2, <1>9 DEF Profile!UserNext, Profile!ReadProfile, Profile!AskLanguage, Profile!database,
                      Choice
  <2>2. QED
    BY <1>4, <2>1
<1>10. CASE \E r \in Requests : Profile!AdminNext(r)
  BY <1>2, <1>6, <1>7, <1>8, <1>10
     DEF Profile!AdminNext, Profile!AddIdentity, Profile!RemoveIdentity
<1>11. CASE \E r \in Requests : Profile!WriteProfile(r)
  BY <1>5, <1>11
<1>12. CASE \E r \in Requests : Profile!Invalidate(r) \/ Profile!QueryLanguage(r)
              \/ Profile!StoreLanguage(r) \/ Profile!Admit(r) \/ Profile!Fails(r)
  BY <1>2, <1>12 DEF Profile!Invalidate, Profile!QueryLanguage, Profile!StoreLanguage, Profile!Admit,
                     Profile!Fails, Profile!database
<1>13. CASE (\E v \in Owners : Profile!Login(v)) \/ Profile!Expire \/ UNCHANGED Profile!vars
  BY <1>2, <1>13 DEF Profile!Login, Profile!Expire, Profile!vars, Profile!database
<1>14. QED
  BY <1>3, <1>9, <1>10, <1>11, <1>12, <1>13 DEF Profile!Next, Profile!RequestNext

\* A chosen language is lost only to a newer choice, to a body that replaces all
\* preferences, or to an update that had read the profile before it was chosen.
THEOREM ChoicesAreKept == Profile!Spec => LostOnlyWhenOvertaken
<1>1. ProfileSound /\ [Profile!Next]_(Profile!vars) =>
        [ \A u \in DOMAIN accounts \cap DOMAIN accounts' :
            accounts'[u].language # accounts[u].language =>
              \E r \in Requests :
                \/ aPc'[r] # aPc[r] /\ aPc'[r].at = "invalidate" /\ aPc'[r].user = u
                \/ /\ aPc[r].at = "update" /\ aPc'[r] = Profile!Idle /\ aPc[r].user = u
                   /\ aPc[r].arg = Profile!Without \/ r \in overtaken ]_(Profile!vars)
  BY WhoWrites, ChoicesAreLanguages
<1>2. QED
  BY <1>1, ProfilesStartSound, ProfilesStaySound, PTL
     DEF Profile!Spec, LostOnlyWhenOvertaken, Profile!LostOnlyWhenOvertaken

-----------------------------------------------------------------------------
(* The plan of the day                                                     *)

DayLabels == {"idle", "check", "claim", "list", "next", "organize", "brief"}

DayTypes ==
  /\ claimed \in Nat
  /\ pPc \in [Requests -> DayLabels]
  /\ todo \in [Requests -> SUBSET Planned]
  /\ user \in [Requests -> Planned \cup {"nobody"}]
  /\ briefs \in [Planned -> Nat]
  /\ overlap \in BOOLEAN

\* An attempt that has the window.
Active(r) == pPc[r] \in {"list", "next", "organize", "brief"}

\* What it finds: nobody has a summary before the users are listed, and none has
\* who is still to come or being served.
Ahead(r) ==
  /\ Active(r) => claimed > 0
  /\ pPc[r] = "list" => \A u \in Planned : briefs[u] = 0
  /\ pPc[r] \in {"next", "organize", "brief"} => \A u \in todo[r] : briefs[u] = 0
  /\ pPc[r] \in {"organize", "brief"} =>
       user[r] \in Planned /\ user[r] \notin todo[r] /\ briefs[user[r]] = 0

InOrder ==
  /\ \A r \in Requests : Ahead(r)
  /\ \A r, q \in Requests : Active(r) /\ Active(q) => r = q
  /\ \A u \in Planned : briefs[u] <= 1

DaySound == DayTypes /\ (overlap \/ InOrder)

\* An attempt that goes on and sends nothing: it keeps the window that it has, and
\* whom it has ahead.
LEMMA AttemptStep ==
  ASSUME DaySound, NEW r \in Requests, NEW l \in DayLabels, pPc' = [pPc EXCEPT ![r] = l],
         todo' \in [Requests -> SUBSET Planned], user' \in [Requests -> Planned \cup {"nobody"}],
         \A q \in Requests : q # r => todo'[q] = todo[q] /\ user'[q] = user[q],
         UNCHANGED <<claimed, briefs, overlap>>,
         l \in {"list", "next", "organize", "brief"} => Active(r),
         ~ overlap => Ahead(r)'
  PROVE  DaySound'
<1>1. DayTypes'
  BY DEF DaySound, DayTypes
<1>2. ASSUME ~ overlap'
      PROVE  InOrder'
  <2>1. InOrder /\ Ahead(r)' /\ pPc \in [Requests -> DayLabels]
    BY <1>2 DEF DaySound, DayTypes
  <2>2. pPc'[r] = l /\ \A q \in Requests : q # r => pPc'[q] = pPc[q]
    BY <2>1
  <2>3. ASSUME NEW q \in Requests
        PROVE  Ahead(q)'
    <3>1. CASE q = r
      BY <2>1, <3>1
    <3>2. CASE q # r
      <4>1. Ahead(q) /\ pPc'[q] = pPc[q] /\ todo'[q] = todo[q] /\ user'[q] = user[q]
        BY <2>1, <2>2, <3>2 DEF InOrder
      <4>2. QED
        BY <4>1 DEF Ahead, Active
    <3>3. QED
      BY <3>1, <3>2
  <2>4. \A q \in Requests : Active(q)' => Active(q)
    BY <2>2 DEF Active
  <2>5. QED
    BY <2>1, <2>3, <2>4 DEF InOrder
<1>3. QED
  BY <1>1, <1>2 DEF DaySound

\* The window is claimed in order when it was free and nobody else is at work.
LEMMA ClaimStep ==
  ASSUME DaySound, NEW r \in Requests, Day!Claim(r)
  PROVE  DaySound'
<1>1. /\ pPc \in [Requests -> DayLabels] /\ claimed \in Nat /\ briefs \in [Planned -> Nat]
      /\ DayTypes
  BY DEF DaySound, DayTypes
<1>2. /\ pPc[r] = "claim" /\ pPc' = [pPc EXCEPT ![r] = "list"] /\ claimed' = DayWindow
      /\ overlap' = (claimed > 0 \/ (overlap /\ \E q \in Requests \ {r} : pPc[q] # "idle"))
      /\ briefs' = IF claimed > 0 THEN briefs ELSE [u \in Planned |-> 0]
      /\ UNCHANGED <<todo, user>>
  BY DEF Day!Claim, Day!Goto
<1>3. DayTypes'
  <2>1. claimed' \in Nat
    BY <1>2, PlannerAssumption
  <2>2. pPc' \in [Requests -> DayLabels]
    BY <1>1, <1>2 DEF DayLabels
  <2>3. briefs' \in [Planned -> Nat]
    BY <1>1, <1>2
  <2>4. overlap' \in BOOLEAN
    BY <1>2
  <2>5. QED
    BY <1>1, <1>2, <2>1, <2>2, <2>3, <2>4 DEF DayTypes
<1>4. ASSUME ~ overlap'
      PROVE  InOrder'
  <2>1. claimed = 0 /\ briefs' = [u \in Planned |-> 0]
    <3>1. ~ (claimed > 0)
      BY <1>2, <1>4
    <3>2. QED
      BY <1>1, <1>2, <3>1
  <2>2. pPc'[r] = "list" /\ \A q \in Requests : q # r => pPc'[q] = pPc[q]
    BY <1>1, <1>2
  <2>3. ASSUME NEW q \in Requests, q # r
        PROVE  ~ Active(q) /\ ~ Active(q)'
    <3>1. CASE overlap
      BY <1>2, <1>4, <2>2, <2>3, <3>1 DEF Active
    <3>2. CASE ~ overlap
      <4>1. Ahead(q)
        BY <3>2 DEF DaySound, InOrder
      <4>2. QED
        BY <2>1, <2>2, <2>3, <4>1 DEF Ahead, Active
    <3>3. QED
      BY <3>1, <3>2
  <2>4. ASSUME NEW q \in Requests
        PROVE  Ahead(q)'
    <3>1. CASE q = r
      <4>1. claimed' > 0
        BY <1>2, PlannerAssumption
      <4>2. \A u \in Planned : briefs'[u] = 0
        BY <2>1
      <4>3. QED
        BY <2>2, <3>1, <4>1, <4>2 DEF Ahead
    <3>2. CASE q # r
      BY <2>3, <3>2 DEF Ahead, Active
    <3>3. QED
      BY <3>1, <3>2
  <2>5. \A u \in Planned : briefs'[u] <= 1
    BY <2>1
  <2>6. QED
    BY <2>3, <2>4, <2>5 DEF InOrder
<1>5. QED
  BY <1>3, <1>4 DEF DaySound

\* Redis does not answer: the attempt goes on out of order.
LEMMA CheckFailsStep ==
  ASSUME DaySound, NEW r \in Requests, Day!CheckFails(r)
  PROVE  DaySound'
<1>1. /\ overlap' = TRUE /\ pPc' = [pPc EXCEPT ![r] = "list"]
      /\ UNCHANGED <<claimed, todo, user, briefs>>
  BY DEF Day!CheckFails, Day!Goto
<1>2. QED
  BY <1>1 DEF DaySound, DayTypes, DayLabels

\* A summary is sent, or not, to a user who had none.
LEMMA SendBriefStep ==
  ASSUME DaySound, NEW r \in Requests, Day!SendBrief(r)
  PROVE  DaySound'
<1>1. /\ pPc \in [Requests -> DayLabels] /\ briefs \in [Planned -> Nat] /\ DayTypes
      /\ pPc[r] = "brief" /\ pPc' = [pPc EXCEPT ![r] = "next"]
      /\ UNCHANGED <<claimed, todo, user, overlap>>
  BY DEF DaySound, DayTypes, Day!SendBrief, Day!Goto
<1>2. CASE briefs' = briefs
  <2>1. "next" \in DayLabels /\ Active(r)
    BY <1>1 DEF DayLabels, Active
  <2>2. ASSUME ~ overlap
        PROVE  Ahead(r)'
    <3>1. Ahead(r) /\ pPc'[r] = "next"
      BY <1>1, <2>2 DEF DaySound, InOrder
    <3>2. QED
      BY <1>1, <1>2, <3>1 DEF Ahead, Active
  <2>3. QED
    BY <1>1, <1>2, <2>1, <2>2, AttemptStep DEF DayTypes
<1>3. CASE briefs' = [briefs EXCEPT ![user[r]] = @ + 1]
  <2>1. briefs' \in [Planned -> Nat]
    <3>1. briefs' = [u \in Planned |-> IF u = user[r] THEN briefs[u] + 1 ELSE briefs[u]]
      BY <1>1, <1>3
    <3>2. QED
      BY <1>1, <3>1
  <2>2. DayTypes'
    BY <1>1, <2>1 DEF DayTypes, DayLabels
  <2>3. ASSUME ~ overlap'
        PROVE  InOrder'
    <3>1. InOrder
      BY <1>1, <2>3 DEF DaySound
    <3>2. /\ claimed > 0 /\ user[r] \in Planned /\ user[r] \notin todo[r] /\ briefs[user[r]] = 0
          /\ \A u \in todo[r] : briefs[u] = 0
          /\ todo[r] \subseteq Planned
      BY <1>1, <3>1 DEF InOrder, Ahead, Active, DayTypes
    <3>3. PICK v \in Planned : user[r] = v
      BY <3>2
    <3>4. briefs'[v] = 1 /\ \A u \in Planned : u # v => briefs'[u] = briefs[u]
      BY <1>1, <1>3, <3>2, <3>3
    <3>5. pPc'[r] = "next" /\ \A q \in Requests : q # r => pPc'[q] = pPc[q]
      BY <1>1
    <3>6. ASSUME NEW q \in Requests, q # r
          PROVE  ~ Active(q) /\ ~ Active(q)'
      BY <1>1, <3>1, <3>5, <3>6 DEF InOrder, Active
    <3>7. ASSUME NEW q \in Requests
          PROVE  Ahead(q)'
      <4>1. CASE q = r
        <5>1. \A u \in todo'[r] : briefs'[u] = 0
          BY <1>1, <3>2, <3>3, <3>4
        <5>2. QED
          BY <1>1, <3>2, <3>5, <4>1, <5>1 DEF Ahead
      <4>2. CASE q # r
        BY <3>6, <4>2 DEF Ahead, Active
      <4>3. QED
        BY <4>1, <4>2
    <3>8. \A u \in Planned : briefs'[u] <= 1
      BY <3>1, <3>4 DEF InOrder
    <3>9. QED
      BY <3>6, <3>7, <3>8 DEF InOrder
  <2>4. QED
    BY <2>2, <2>3 DEF DaySound
<1>4. QED
  BY <1>2, <1>3 DEF Day!SendBrief

\* The users are listed, one is taken, and the day of that one is organised.
LEMMA WorkStep ==
  ASSUME DaySound, NEW r \in Requests,
         Day!ListUsers(r) \/ Day!NextUser(r) \/ Day!OrganizeDay(r)
  PROVE  DaySound'
<1>1. /\ pPc \in [Requests -> DayLabels] /\ todo \in [Requests -> SUBSET Planned]
      /\ user \in [Requests -> Planned \cup {"nobody"}]
      /\ UNCHANGED <<claimed, briefs, overlap>>
  BY DEF DaySound, DayTypes, Day!ListUsers, Day!NextUser, Day!OrganizeDay
<1>2. ~ overlap => Ahead(r)
  BY DEF DaySound, InOrder
<1>3. Active(r)
  BY DEF Active, Day!ListUsers, Day!NextUser, Day!OrganizeDay
<1>4. ASSUME pPc' = [pPc EXCEPT ![r] = "idle"], todo' = todo,
             user' \in [Requests -> Planned \cup {"nobody"}],
             \A q \in Requests : q # r => user'[q] = user[q]
      PROVE  DaySound'
  <2>1. "idle" \in DayLabels /\ pPc'[r] = "idle"
    BY <1>1, <1>4 DEF DayLabels
  <2>2. Ahead(r)'
    BY <2>1 DEF Ahead, Active
  <2>3. QED
    BY <1>1, <1>4, <2>1, <2>2, AttemptStep
<1>5. CASE Day!ListUsers(r)
  <2>1. /\ pPc[r] = "list" /\ user' = user
        /\ \/ todo' = [todo EXCEPT ![r] = Planned] /\ pPc' = [pPc EXCEPT ![r] = "next"]
           \/ todo' = todo /\ pPc' = [pPc EXCEPT ![r] = "idle"]
    BY <1>5 DEF Day!ListUsers, Day!Goto
  <2>2. CASE todo' = [todo EXCEPT ![r] = Planned] /\ pPc' = [pPc EXCEPT ![r] = "next"]
    <3>1. "next" \in DayLabels /\ pPc'[r] = "next" /\ todo'[r] = Planned
      BY <1>1, <2>2 DEF DayLabels
    <3>2. todo' \in [Requests -> SUBSET Planned] /\ \A q \in Requests : q # r => todo'[q] = todo[q]
      BY <1>1, <2>2
    <3>3. ~ overlap => Ahead(r)'
      BY <1>1, <1>2, <1>3, <2>1, <3>1 DEF Ahead, Active
    <3>4. QED
      BY <1>1, <1>3, <2>1, <2>2, <3>1, <3>2, <3>3, AttemptStep
  <2>3. CASE todo' = todo /\ pPc' = [pPc EXCEPT ![r] = "idle"]
    BY <1>1, <1>4, <2>1, <2>3
  <2>4. QED
    BY <2>1, <2>2, <2>3
<1>6. CASE Day!NextUser(r)
  <2>1. pPc[r] = "next"
    BY <1>6 DEF Day!NextUser
  <2>2. CASE \E u \in todo[r] : /\ todo' = [todo EXCEPT ![r] = todo[r] \ {u}]
                                /\ user' = [user EXCEPT ![r] = u]
                                /\ pPc' = [pPc EXCEPT ![r] = "organize"]
    <3>1. PICK u \in Planned : /\ u \in todo[r]
                               /\ todo' = [todo EXCEPT ![r] = todo[r] \ {u}]
                               /\ user' = [user EXCEPT ![r] = u]
                               /\ pPc' = [pPc EXCEPT ![r] = "organize"]
      BY <1>1, <2>2
    <3>2. /\ "organize" \in DayLabels /\ pPc'[r] = "organize"
          /\ todo'[r] = todo[r] \ {u} /\ user'[r] = u
      BY <1>1, <3>1 DEF DayLabels
    <3>3. /\ todo' \in [Requests -> SUBSET Planned] /\ user' \in [Requests -> Planned \cup {"nobody"}]
          /\ \A q \in Requests : q # r => todo'[q] = todo[q] /\ user'[q] = user[q]
      BY <1>1, <3>1
    <3>4. ~ overlap => Ahead(r)'
      BY <1>1, <1>2, <1>3, <2>1, <3>1, <3>2 DEF Ahead, Active
    <3>5. QED
      BY <1>1, <1>3, <3>1, <3>2, <3>3, <3>4, AttemptStep
  <2>3. CASE user' = [user EXCEPT ![r] = "nobody"] /\ pPc' = [pPc EXCEPT ![r] = "idle"] /\ todo' = todo
    <3>1. /\ user' \in [Requests -> Planned \cup {"nobody"}]
          /\ \A q \in Requests : q # r => user'[q] = user[q]
      BY <1>1, <2>3
    <3>2. QED
      BY <1>4, <2>3, <3>1
  <2>4. QED
    BY <1>6, <2>2, <2>3 DEF Day!NextUser, Day!Goto, Day!NoUser
<1>7. CASE Day!OrganizeDay(r)
  <2>1. pPc[r] = "organize" /\ pPc' = [pPc EXCEPT ![r] = "brief"] /\ UNCHANGED <<todo, user>>
    BY <1>7 DEF Day!OrganizeDay, Day!Goto
  <2>2. "brief" \in DayLabels /\ pPc'[r] = "brief"
    BY <1>1, <2>1 DEF DayLabels
  <2>3. ~ overlap => Ahead(r)'
    BY <1>1, <1>2, <1>3, <2>1, <2>2 DEF Ahead, Active
  <2>4. QED
    BY <1>1, <1>3, <2>1, <2>2, <2>3, AttemptStep
<1>8. QED
  BY <1>5, <1>6, <1>7

\* A post, the check of the key, and the death of a pod.
LEMMA PostStep ==
  ASSUME DaySound, NEW r \in Requests, Day!Post(r) \/ Day!Check(r) \/ Day!PodDies(r)
  PROVE  DaySound'
<1>1. /\ pPc \in [Requests -> DayLabels] /\ todo \in [Requests -> SUBSET Planned]
      /\ user \in [Requests -> Planned \cup {"nobody"}]
      /\ UNCHANGED <<claimed, briefs, overlap>>
  BY DEF DaySound, DayTypes, Day!Post, Day!Check, Day!PodDies
<1>2. /\ todo' \in [Requests -> SUBSET Planned] /\ user' \in [Requests -> Planned \cup {"nobody"}]
      /\ \A q \in Requests : q # r => todo'[q] = todo[q] /\ user'[q] = user[q]
  <2>1. CASE UNCHANGED <<todo, user>>
    BY <1>1, <2>1
  <2>2. CASE todo' = [todo EXCEPT ![r] = {}] /\ user' = [user EXCEPT ![r] = "nobody"]
    BY <1>1, <2>2
  <2>3. QED
    BY <2>1, <2>2 DEF Day!Post, Day!Check, Day!PodDies, Day!NoUser
<1>3. PICK l \in {"idle", "check", "claim"} : pPc' = [pPc EXCEPT ![r] = l]
  BY DEF Day!Post, Day!Check, Day!PodDies, Day!Goto
<1>4. pPc'[r] = l /\ l \in DayLabels
  BY <1>1, <1>3 DEF DayLabels
<1>5. Ahead(r)'
  BY <1>4 DEF Ahead, Active
<1>6. QED
  BY <1>1, <1>2, <1>3, <1>4, <1>5, AttemptStep

\* No attempt, user or hour disturbs it.
LEMMA DayStaysSound == DaySound /\ [Day!Next]_(Day!vars) => DaySound'
<1> SUFFICES ASSUME DaySound, [Day!Next]_(Day!vars)
             PROVE  DaySound'
  OBVIOUS
<1>1. CASE \E r \in Requests : Day!AttemptNext(r)
  BY <1>1, PostStep, ClaimStep, CheckFailsStep, WorkStep, SendBriefStep DEF Day!AttemptNext
<1>2. CASE UNCHANGED <<claimed, pPc, todo, user, briefs, overlap>>
  BY <1>2 DEF DaySound, DayTypes, InOrder, Ahead, Active
<1>3. CASE Day!Tick
  <2>1. /\ claimed > 0 /\ claimed' = claimed - 1 /\ \A r \in Requests : pPc[r] = "idle"
        /\ UNCHANGED <<pPc, todo, user, briefs, overlap>>
    BY <1>3 DEF Day!Tick, Day!attempt
  <2>2. DayTypes'
    BY <2>1 DEF DaySound, DayTypes
  <2>3. \A r \in Requests : ~ Active(r)' /\ Ahead(r)'
    BY <2>1 DEF Active, Ahead
  <2>4. ~ overlap => InOrder'
    BY <2>1, <2>3 DEF DaySound, InOrder
  <2>5. QED
    BY <2>1, <2>2, <2>4 DEF DaySound
<1>4. CASE (\E u \in Planned : Day!Connect(u)) \/ UNCHANGED Day!vars
  BY <1>2, <1>4 DEF Day!Connect, Day!vars, Day!attempt
<1>5. QED
  BY <1>1, <1>3, <1>4 DEF Day!Next

\* The day starts with nobody at work.
LEMMA DayStartsSound == Day!Init => DaySound
<1> SUFFICES ASSUME Day!Init PROVE DaySound
  OBVIOUS
<1>1. /\ claimed = 0 /\ pPc = [r \in Requests |-> "idle"] /\ todo = [r \in Requests |-> {}]
      /\ user = [r \in Requests |-> "nobody"] /\ briefs = [u \in Planned |-> 0]
  BY DEF Day!Init, Day!NoUser
<1>2. overlap \in BOOLEAN
  BY DEF Day!Init
<1>3. DayTypes
  BY <1>1, <1>2 DEF DayTypes, DayLabels
<1>4. InOrder
  BY <1>1 DEF InOrder, Ahead, Active
<1>5. QED
  BY <1>3, <1>4 DEF DaySound

\* Nobody gets two plans in a window that was claimed in order, whatever dies and is
\* posted again.
THEOREM OneBriefPerWindow == Day!Spec => []BriefedOncePerWindow
<1>1. DaySound => BriefedOncePerWindow
  BY DEF DaySound, InOrder, BriefedOncePerWindow, Day!BriefedOncePerWindow
<1>2. QED
  BY <1>1, DayStartsSound, DayStaysSound, PTL DEF Day!Spec

-----------------------------------------------------------------------------
(* The components together                                                 *)

\* Whichever component a behaviour of MCService is one of, it keeps what each of them
\* promises.
THEOREM ServiceKeepsItsPromises ==
  AllSpec => /\ []AgentNeedsRole /\ []AnsweredIsKept
             /\ []IndexedIsSearchable /\ StaleTextExpires
             /\ []NumbersBelongToAccounts /\ []StaleHasReason /\ LostOnlyWhenOvertaken
             /\ []BriefedOncePerWindow
<1>1. AllInit => Init /\ Docs!Init /\ Profile!Init /\ Day!Init
  BY DEF AllInit
<1>2. [AllNext]_<<part, vars, documents, profiles, planner>> =>
        /\ [Next]_vars /\ [Docs!Next]_(Docs!vars)
        /\ [Profile!Next]_(Profile!vars) /\ [Day!Next]_(Day!vars)
  <2>1. SUFFICES ASSUME [AllNext]_<<part, vars, documents, profiles, planner>>
                 PROVE  /\ [Next]_vars /\ [Docs!Next]_(Docs!vars)
                        /\ [Profile!Next]_(Profile!vars) /\ [Day!Next]_(Day!vars)
    OBVIOUS
  <2>2. Next \/ UNCHANGED vars
    BY <2>1 DEF AllNext, ChatNext, DocumentsNext, ProfilesNext, PlannerNext
  <2>3. Docs!Next \/ UNCHANGED documents
    BY <2>1 DEF AllNext, ChatNext, DocumentsNext, ProfilesNext, PlannerNext
  <2>4. Profile!Next \/ UNCHANGED profiles
    BY <2>1 DEF AllNext, ChatNext, DocumentsNext, ProfilesNext, PlannerNext
  <2>5. Day!Next \/ UNCHANGED planner
    BY <2>1 DEF AllNext, ChatNext, DocumentsNext, ProfilesNext, PlannerNext
  <2>6. UNCHANGED documents => UNCHANGED Docs!vars
    BY DEF documents, Docs!vars, Docs!store, Docs!asking
  <2>7. UNCHANGED profiles => UNCHANGED Profile!vars
    BY DEF profiles, Profile!vars, Profile!database
  <2>8. UNCHANGED planner => UNCHANGED Day!vars
    BY DEF planner, Day!vars, Day!attempt
  <2>9. QED
    BY <2>2, <2>3, <2>4, <2>5, <2>6, <2>7, <2>8
<1>3. AllSpec => Spec /\ Docs!Spec /\ Profile!Spec /\ Day!Spec
  BY <1>1, <1>2, PTL DEF AllSpec, Spec, Docs!Spec, Profile!Spec, Day!Spec
<1>4. QED
  BY <1>3, RolesAreRespected, AnswersStay, IndexedStaysSearchable, StaleTextsExpire,
    IdentitiesBelong, StaleLanguagesAreExcused, ChoicesAreKept, OneBriefPerWindow, PTL
=============================================================================
