----------------------------- MODULE AgentsProofs -----------------------------
(***************************************************************************)
(* What holds around the agents for any number of them, however their      *)
(* steps interleave: of Phanuel's test runs, the answers of the operator,  *)
(* the tasks of Gabriel, the detection of anomalies and the fixes of       *)
(* manifests.                                                              *)
(***************************************************************************)
EXTENDS MCAgents, FiniteSetTheorems, TLAPS

-----------------------------------------------------------------------------
(* Test runs                                                               *)

Status == {"in_progress", "completed"}

RunnerLabels == {"new", "poll", "failed", "timeout", "done"}

TestTypes ==
  /\ runs \in Seq(Status)
  /\ tPc \in [Runners -> RunnerLabels]
  /\ due \in [Runners -> Nat]
  /\ age \in [Runners -> Nat]
  /\ own \in [Runners -> Nat]
  /\ tReported \in [Runners -> Nat]

\* A request that polls has slept, or will; while GitHub owes its run it is young.
Timely(r) ==
  /\ tPc[r] = "new" => age[r] = 0
  /\ tPc[r] = "poll" => age[r] + due[r] >= Sleep
  /\ tPc[r] = "poll" /\ own[r] = 0 => age[r] <= Registering
  /\ own[r] <= Len(runs)
  /\ tReported[r] # 0 => own[r] # 0 /\ own[r] <= tReported[r]

TestsSound == TestTypes /\ \A r \in Runners : Timely(r)

\* The request that goes on is timely, and the others are as they were.
LEMMA RunnerStep ==
  ASSUME TestsSound, NEW r \in Runners, TestTypes', Timely(r)', Len(runs) <= Len(runs'),
         \A q \in Runners : q # r => /\ tPc'[q] = tPc[q] /\ due'[q] = due[q] /\ age'[q] = age[q]
                                     /\ own'[q] = own[q] /\ tReported'[q] = tReported[q]
  PROVE  TestsSound'
<1>1. ASSUME NEW q \in Runners
      PROVE  Timely(q)'
  <2>1. CASE q = r
    BY <2>1
  <2>2. CASE q # r
    <3>1. Timely(q) /\ own[q] \in Nat /\ runs \in Seq(Status) /\ runs' \in Seq(Status)
      BY DEF TestsSound, TestTypes
    <3>2. Len(runs) \in Nat /\ Len(runs') \in Nat
      BY <3>1
    <3>3. QED
      BY <2>2, <3>1, <3>2 DEF Timely
  <2>3. QED
    BY <2>1, <2>2
<1>2. QED
  BY <1>1 DEF TestsSound

\* The sleep begins with the dispatch.
LEMMA DispatchStep ==
  ASSUME TestsSound, NEW r \in Runners, Tests!Dispatch(r)
  PROVE  TestsSound'
<1>1. /\ TestsSound /\ TestTypes /\ Timely(r) /\ tPc[r] = "new" /\ Sleep \in Nat /\ Registering \in Nat
      /\ UNCHANGED <<runs, age, own, tReported>>
  BY TestsAssumption DEF TestsSound, Tests!Dispatch
<1>2. Len(runs) \in Nat
  BY <1>1 DEF TestTypes
<1>3. CASE tPc' = [tPc EXCEPT ![r] = "poll"] /\ due' = [due EXCEPT ![r] = Sleep]
  <2>1. TestTypes'
    BY <1>1, <1>3 DEF TestTypes, RunnerLabels
  <2>2. tPc'[r] = "poll" /\ due'[r] = Sleep
    BY <1>1, <1>3 DEF TestTypes
  <2>3. Timely(r)'
    BY <1>1, <2>2 DEF Timely
  <2>4. \A q \in Runners : q # r => /\ tPc'[q] = tPc[q] /\ due'[q] = due[q] /\ age'[q] = age[q]
                                     /\ own'[q] = own[q] /\ tReported'[q] = tReported[q]
    BY <1>1, <1>3 DEF TestTypes
  <2>5. Len(runs) <= Len(runs')
    BY <1>1, <1>2
  <2>6. QED
    BY <2>1, <2>3, <2>4, <2>5, RunnerStep
<1>4. CASE tPc' = [tPc EXCEPT ![r] = "failed"] /\ due' = due
  <2>1. TestTypes'
    BY <1>1, <1>4 DEF TestTypes, RunnerLabels
  <2>2. tPc'[r] = "failed"
    BY <1>1, <1>4 DEF TestTypes
  <2>3. Timely(r)'
    BY <1>1, <2>2 DEF Timely
  <2>4. \A q \in Runners : q # r => /\ tPc'[q] = tPc[q] /\ due'[q] = due[q] /\ age'[q] = age[q]
                                     /\ own'[q] = own[q] /\ tReported'[q] = tReported[q]
    BY <1>1, <1>4 DEF TestTypes
  <2>5. Len(runs) <= Len(runs')
    BY <1>1, <1>2
  <2>6. QED
    BY <2>1, <2>3, <2>4, <2>5, RunnerStep
<1>5. QED
  BY <1>3, <1>4 DEF Tests!Dispatch

\* A poll at its time finds a run that is not older than that of the request.
LEMMA PollStep ==
  ASSUME TestsSound, Registering < Sleep, NEW r \in Runners, Tests!Poll(r) \/ Tests!GiveUp(r)
  PROVE  TestsSound'
<1>1. /\ TestsSound /\ TestTypes /\ Timely(r) /\ tPc[r] = "poll" /\ due[r] = 0
      /\ UNCHANGED <<runs, age, own>>
  BY DEF TestsSound, Tests!Poll, Tests!GiveUp, Tests!Due
<1>2. Sleep \in Nat /\ Interval \in Nat /\ Registering \in Nat
  BY TestsAssumption
<1>3. /\ age[r] \in Nat /\ due[r] \in Nat /\ own[r] \in Nat /\ Len(runs) \in Nat
      /\ tReported[r] \in Nat
  BY <1>1 DEF TestTypes
<1>4. own[r] # 0 /\ own[r] <= Len(runs)
  BY <1>1, <1>2, <1>3 DEF Timely
<1>5. CASE tReported' = [tReported EXCEPT ![r] = Len(runs)] /\ tPc' = [tPc EXCEPT ![r] = "done"]
           /\ due' = due
  <2>1. TestTypes'
    BY <1>1, <1>3, <1>5 DEF TestTypes, RunnerLabels
  <2>2. tPc'[r] = "done" /\ tReported'[r] = Len(runs)
    BY <1>1, <1>5 DEF TestTypes
  <2>3. Timely(r)'
    BY <1>1, <1>4, <2>2 DEF Timely
  <2>4. \A q \in Runners : q # r => /\ tPc'[q] = tPc[q] /\ due'[q] = due[q] /\ age'[q] = age[q]
                                     /\ own'[q] = own[q] /\ tReported'[q] = tReported[q]
    BY <1>1, <1>5 DEF TestTypes
  <2>5. Len(runs) <= Len(runs')
    BY <1>1, <1>3
  <2>6. QED
    BY <2>1, <2>3, <2>4, <2>5, RunnerStep
<1>6. CASE due' = [due EXCEPT ![r] = Interval] /\ UNCHANGED <<tPc, tReported>>
  <2>1. TestTypes'
    BY <1>1, <1>2, <1>6 DEF TestTypes
  <2>2. due'[r] = Interval
    BY <1>1, <1>6 DEF TestTypes
  <2>3. Timely(r)'
    BY <1>1, <1>2, <1>3, <1>6, <2>2 DEF Timely
  <2>4. \A q \in Runners : q # r => /\ tPc'[q] = tPc[q] /\ due'[q] = due[q] /\ age'[q] = age[q]
                                     /\ own'[q] = own[q] /\ tReported'[q] = tReported[q]
    BY <1>1, <1>6 DEF TestTypes
  <2>5. Len(runs) <= Len(runs')
    BY <1>1, <1>3
  <2>6. QED
    BY <2>1, <2>3, <2>4, <2>5, RunnerStep
<1>7. CASE tPc' = [tPc EXCEPT ![r] = "timeout"] /\ UNCHANGED <<due, tReported>>
  <2>1. TestTypes'
    BY <1>1, <1>7 DEF TestTypes, RunnerLabels
  <2>2. tPc'[r] = "timeout"
    BY <1>1, <1>7 DEF TestTypes
  <2>3. Timely(r)'
    BY <1>1, <1>7, <2>2 DEF Timely
  <2>4. \A q \in Runners : q # r => /\ tPc'[q] = tPc[q] /\ due'[q] = due[q] /\ age'[q] = age[q]
                                     /\ own'[q] = own[q] /\ tReported'[q] = tReported[q]
    BY <1>1, <1>7 DEF TestTypes
  <2>5. Len(runs) <= Len(runs')
    BY <1>1, <1>3
  <2>6. QED
    BY <2>1, <2>3, <2>4, <2>5, RunnerStep
<1>8. QED
  BY <1>5, <1>6, <1>7 DEF Tests!Poll, Tests!GiveUp, Tests!Conclude

\* A run that GitHub makes of a dispatch is the youngest.
LEMMA RegisterStep ==
  ASSUME TestsSound, NEW r \in Runners, Tests!Register(r)
  PROVE  TestsSound'
<1>1. /\ TestsSound /\ TestTypes /\ Timely(r) /\ own[r] = 0 /\ runs' = Append(runs, "in_progress")
      /\ own' = [own EXCEPT ![r] = Len(runs')]
      /\ UNCHANGED <<tPc, due, age, tReported>>
  BY DEF TestsSound, Tests!Register, Tests!Owed, Tests!NoRun
<1>2. /\ runs' \in Seq(Status) /\ Len(runs') = Len(runs) + 1 /\ Len(runs) \in Nat
      /\ Len(runs') \in Nat
  BY <1>1 DEF TestTypes, Status
<1>3. TestTypes' /\ own'[r] = Len(runs')
  BY <1>1, <1>2 DEF TestTypes
<1>4. Timely(r)'
  BY <1>1, <1>2, <1>3 DEF Timely
<1>5. \A q \in Runners : q # r => /\ tPc'[q] = tPc[q] /\ due'[q] = due[q] /\ age'[q] = age[q]
                                   /\ own'[q] = own[q] /\ tReported'[q] = tReported[q]
  BY <1>1 DEF TestTypes
<1>6. Len(runs) <= Len(runs')
  BY <1>2
<1>7. QED
  BY <1>1, <1>3, <1>4, <1>5, <1>6, RunnerStep

\* Runs that others start, and runs that end.
LEMMA RunsStep ==
  ASSUME TestsSound, Tests!Push \/ \E run \in DOMAIN runs : Tests!Complete(run)
  PROVE  TestsSound'
<1>1. TestTypes /\ UNCHANGED <<tPc, due, age, own, tReported>> /\ Len(runs) \in Nat
  BY DEF TestsSound, TestTypes, Tests!Push, Tests!Complete
<1>2. runs' \in Seq(Status) /\ Len(runs') \in Nat /\ Len(runs) <= Len(runs')
  <2>1. CASE Tests!Push
    BY <1>1, <2>1 DEF Tests!Push, TestTypes, Status
  <2>2. CASE \E run \in DOMAIN runs : Tests!Complete(run)
    <3>1. PICK run \in DOMAIN runs : runs' = [runs EXCEPT ![run] = "completed"]
      BY <2>2 DEF Tests!Complete
    <3>2. QED
      BY <1>1, <3>1 DEF TestTypes, Status
  <2>3. QED
    BY <2>1, <2>2
<1>3. ASSUME NEW r \in Runners
      PROVE  Timely(r)'
  BY <1>1, <1>2 DEF TestsSound, TestTypes, Timely
<1>4. QED
  BY <1>1, <1>2, <1>3 DEF TestsSound, TestTypes

\* Time passes for those who poll.
LEMMA TestTickStep ==
  ASSUME TestsSound, Tests!Tick
  PROVE  TestsSound'
<1>1. /\ TestTypes /\ UNCHANGED <<runs, tPc, own, tReported>>
      /\ age' = [r \in Runners |-> IF tPc[r] = "poll" THEN age[r] + 1 ELSE age[r]]
      /\ due' = [r \in Runners |-> IF tPc[r] = "poll" THEN due[r] - 1 ELSE due[r]]
  BY DEF TestsSound, Tests!Tick
<1>2. \A r \in Runners : tPc[r] = "poll" => due[r] # 0 /\ (own[r] = 0 => age[r] < Registering)
  BY DEF Tests!Tick, Tests!Due, Tests!Owed, Tests!NoRun
<1>3. \A r \in Runners : age[r] \in Nat /\ due[r] \in Nat
  BY <1>1 DEF TestTypes
<1>4. age' \in [Runners -> Nat] /\ due' \in [Runners -> Nat]
  BY <1>1, <1>2, <1>3
<1>5. ASSUME NEW r \in Runners
      PROVE  Timely(r)'
  <2>1. Timely(r) /\ Registering \in Nat /\ Sleep \in Nat
    BY TestsAssumption DEF TestsSound
  <2>2. CASE tPc[r] = "poll"
    <3>1. age'[r] = age[r] + 1 /\ due'[r] = due[r] - 1
      BY <1>1, <2>2
    <3>2. QED
      BY <1>1, <1>2, <1>3, <2>1, <2>2, <3>1 DEF Timely
  <2>3. CASE tPc[r] # "poll"
    BY <1>1, <2>1, <2>3 DEF Timely
  <2>4. QED
    BY <2>2, <2>3
<1>6. QED
  BY <1>1, <1>4, <1>5 DEF TestsSound, TestTypes

\* No request, push or tick disturbs it.
LEMMA TestsStaySound ==
  ASSUME Registering < Sleep
  PROVE  TestsSound /\ [Tests!Next]_(Tests!vars) => TestsSound'
<1> SUFFICES ASSUME TestsSound, [Tests!Next]_(Tests!vars)
             PROVE  TestsSound'
  OBVIOUS
<1>1. CASE \E r \in Runners : Tests!Dispatch(r) \/ Tests!Poll(r) \/ Tests!GiveUp(r) \/ Tests!Register(r)
  BY <1>1, DispatchStep, PollStep, RegisterStep
<1>2. CASE Tests!Push \/ \E run \in DOMAIN runs : Tests!Complete(run)
  BY <1>2, RunsStep
<1>3. CASE Tests!Tick
  BY <1>3, TestTickStep
<1>4. CASE UNCHANGED Tests!vars
  BY <1>4 DEF Tests!vars, TestsSound, TestTypes, Timely
<1>5. QED
  BY <1>1, <1>2, <1>3, <1>4 DEF Tests!Next

\* Nobody has asked for a run at first.
LEMMA TestsStartSound == Tests!Init => TestsSound
<1> SUFFICES ASSUME Tests!Init PROVE TestsSound
  OBVIOUS
<1>1. /\ tPc = [r \in Runners |-> "new"] /\ due = [r \in Runners |-> 0]
      /\ age = [r \in Runners |-> 0] /\ own = [r \in Runners |-> 0]
      /\ tReported = [r \in Runners |-> 0]
  BY DEF Tests!Init, Tests!NoRun
<1>2. runs \in Seq(Status)
  <2>1. << >> \in Seq(Status) /\ <<"completed">> \in Seq(Status) /\ <<"in_progress">> \in Seq(Status)
    BY DEF Status
  <2>2. QED
    BY <2>1 DEF Tests!Init
<1>3. TestTypes
  BY <1>1, <1>2 DEF TestTypes, RunnerLabels
<1>4. Len(runs) \in Nat
  BY <1>2
<1>5. \A r \in Runners : Timely(r)
  BY <1>1, <1>4 DEF Timely
<1>6. QED
  BY <1>3, <1>5 DEF TestsSound

\* When GitHub makes the run of a dispatch within the sleep that follows it, no verdict
\* is that of a run older than the request, whoever else asks, pushes or is slow.
THEOREM VerdictsAreFresh ==
  ASSUME Registering < Sleep
  PROVE  Tests!Spec => []VerdictIsFresh
<1>1. TestsSound => VerdictIsFresh
  BY DEF TestsSound, Timely, VerdictIsFresh, Tests!VerdictIsFresh, Tests!NoRun
<1>2. QED
  BY <1>1, TestsStartSound, TestsStaySound, PTL DEF Tests!Spec

-----------------------------------------------------------------------------
(* Answers of the operator                                                 *)

Places == {"idle", "keys", "match", "get", "act", "untrack"}

Record ==
  [at : Places, way : Choice!Ways, verb : {"aprobar", "rechazar"}, meant : 0..prs,
   keys : SUBSET Incidents, key : Incidents \cup {none}, pr : 0..prs]

ChoiceTypes ==
  /\ prs \in Nat
  /\ home = [n \in Choice!PRs |-> home[n]]
  /\ pending \in [Incidents -> 0..prs]
  /\ draft \in [Incidents -> 0..prs]
  /\ told \subseteq 1..prs
  /\ req \in [Handlers -> Record]
  /\ waited = [h \in Handlers |-> waited[h]]
  /\ newer = [h \in Handlers |-> newer[h]]

\* A pull request that the answer may be taken to be about.
Found(h, n) ==
  \/ n = req[h].meant
  \/ n \in newer[h]
  \/ req[h].way = "numbered" /\ Choice!Number(n) = Choice!Number(req[h].meant)
  \/ req[h].way = "bare" /\ waited[h] = {n}
  \/ req[h].way = "chat" /\ n \in waited[h]

Chosen == {"get", "act", "untrack"}

\* What is under the key that was chosen, and what was read there.
AnswerSound(h) ==
  /\ req[h].at = "match" => req[h].way = "numbered"
  /\ req[h].at \in Chosen =>
       /\ req[h].key \in Incidents
       /\ \A n \in 1..prs :
            pending[req[h].key] = n \/ (req[h].at # "get" /\ req[h].pr = n) => Found(h, n)

ChoiceSound == ChoiceTypes /\ \A h \in Handlers : AnswerSound(h)

\* A pull request keeps its number.
LEMMA NumbersStay ==
  ASSUME prs \in Nat, \A m \in 1..prs : home'[m] = home[m], NEW n \in 0..prs
  PROVE  Choice!Number(n)' = Choice!Number(n)
<1>1. \A m \in 1..n : m \in 1..prs /\ n \in 1..prs
  OBVIOUS
<1>2. {m \in 1..n : home'[m] = home'[n]} = {m \in 1..n : home[m] = home[n]}
  BY <1>1
<1>3. QED
  BY <1>2 DEF Choice!Number

\* What an answer may be about stays so.
LEMMA FoundStays ==
  ASSUME ChoiceTypes, \A m \in 1..prs : home'[m] = home[m], NEW h \in Handlers, NEW n \in 0..prs,
         Found(h, n), req'[h].way = req[h].way, req'[h].meant = req[h].meant,
         waited'[h] = waited[h], newer[h] \subseteq newer'[h]
  PROVE  Found(h, n)'
<1>1. prs \in Nat /\ req[h].meant \in 0..prs
  BY DEF ChoiceTypes, Record
<1>2. PICK m \in 0..prs : m = req[h].meant
  BY <1>1
<1>3. Choice!Number(n)' = Choice!Number(n) /\ Choice!Number(m)' = Choice!Number(m)
  BY <1>1, NumbersStay
<1>4. Choice!Number(req[h].meant)' = Choice!Number(m)' /\ Choice!Number(req[h].meant) = Choice!Number(m)
  BY <1>2 DEF Choice!Number
<1>5. QED
  BY <1>3, <1>4 DEF Found

\* An answer that waits while others go on: the entry under its key goes, or is replaced
\* by a newer one.
LEMMA WaitingStep ==
  ASSUME ChoiceSound, prs' \in Nat, prs <= prs', \A m \in 1..prs : home'[m] = home[m],
         NEW h \in Handlers, req'[h] = req[h], waited'[h] = waited[h], newer[h] \subseteq newer'[h],
         req[h].key \in Incidents =>
           pending'[req[h].key] \in {0, pending[req[h].key]} \cup newer'[h]
  PROVE  AnswerSound(h)'
<1>1. /\ ChoiceTypes /\ AnswerSound(h) /\ prs \in Nat /\ req[h] \in Record
  BY DEF ChoiceSound, ChoiceTypes
<1>2. SUFFICES ASSUME req[h].at \in Chosen, NEW n \in 1..prs',
                      pending'[req[h].key] = n \/ (req[h].at # "get" /\ req[h].pr = n)
               PROVE  Found(h, n)'
  BY <1>1 DEF AnswerSound
<1>3. req[h].key \in Incidents /\ pending[req[h].key] \in 0..prs /\ req[h].pr \in 0..prs
  BY <1>1, <1>2 DEF AnswerSound, ChoiceTypes, Record
<1>4. CASE n \in newer'[h]
  BY <1>4 DEF Found
<1>5. CASE n \notin newer'[h]
  <2>1. /\ n \in 1..prs
        /\ pending[req[h].key] = n \/ (req[h].at # "get" /\ req[h].pr = n)
    BY <1>1, <1>2, <1>3, <1>5
  <2>2. Found(h, n)
    BY <1>1, <1>2, <2>1 DEF AnswerSound
  <2>3. n \in 0..prs
    BY <2>1
  <2>4. QED
    BY <1>1, <2>2, <2>3, FoundStays
<1>6. QED
  BY <1>4, <1>5

\* Camael, Bitbucket and the messages.
LEMMA CamaelStep ==
  ASSUME ChoiceSound,
         \/ \E i \in Incidents :
              \/ Choice!CreatePR(i) \/ Choice!SavePending(i)
              \/ Choice!AbandonFix(i) \/ Choice!ExpirePending(i)
         \/ \E n \in Choice!PRs : Choice!CloseInBitbucket(n) \/ Choice!Webhook(n)
         \/ Choice!AskWhatWaits
  PROVE  ChoiceSound'
<1>1. ChoiceTypes /\ MaxPRs \in Nat /\ prs \in Nat
  BY ChoiceAssumption DEF ChoiceSound, ChoiceTypes
<1>2. ASSUME ChoiceTypes', prs <= prs', \A m \in 1..prs : home'[m] = home[m], UNCHANGED <<req, waited>>,
             \A h \in Handlers :
               /\ newer[h] \subseteq newer'[h]
               /\ req[h].key \in Incidents =>
                    pending'[req[h].key] \in {0, pending[req[h].key]} \cup newer'[h]
      PROVE  ChoiceSound'
  <2>1. prs' \in Nat
    BY <1>2 DEF ChoiceTypes
  <2>2. \A h \in Handlers : AnswerSound(h)'
    BY <1>2, <2>1, WaitingStep
  <2>3. QED
    BY <1>2, <2>2 DEF ChoiceSound
<1>3. CASE \E i \in Incidents : Choice!CreatePR(i)
  <2>1. PICK i \in Incidents : Choice!CreatePR(i)
    BY <1>3
  <2>2. PICK repo : home' = [home EXCEPT ![prs + 1] = repo]
    BY <2>1 DEF Choice!CreatePR
  <2>3. /\ prs' = prs + 1 /\ draft' = [draft EXCEPT ![i] = prs + 1]
        /\ UNCHANGED <<pending, told, req, waited, newer>>
    BY <2>1 DEF Choice!CreatePR, Choice!history
  <2>4. 0..prs \subseteq 0..prs' /\ 1..prs \subseteq 1..prs' /\ prs' \in 0..prs' /\ prs' \in Nat
    BY <1>1, <2>3
  <2>5. Record \subseteq Record'
    BY <2>4 DEF Record
  <2>6. ChoiceTypes'
    <3>1. home' = [n \in Choice!PRs |-> home'[n]]
      BY <1>1, <2>2 DEF ChoiceTypes, Choice!PRs
    <3>2. pending' \in [Incidents -> 0..prs'] /\ told' \subseteq 1..prs'
      BY <1>1, <2>3, <2>4 DEF ChoiceTypes
    <3>3. draft' \in [Incidents -> 0..prs']
      BY <1>1, <2>3, <2>4 DEF ChoiceTypes
    <3>4. req' \in [Handlers -> Record']
      BY <1>1, <2>3, <2>5 DEF ChoiceTypes
    <3>5. QED
      BY <1>1, <2>3, <2>4, <3>1, <3>2, <3>3, <3>4 DEF ChoiceTypes
  <2>7. \A m \in 1..prs : home'[m] = home[m]
    BY <1>1, <2>2 DEF ChoiceTypes
  <2>8. QED
    BY <1>1, <1>2, <2>3, <2>6, <2>7
<1>4. CASE \E i \in Incidents : Choice!SavePending(i)
  <2>1. PICK i \in Incidents : Choice!SavePending(i)
    BY <1>4
  <2>2. /\ pending' = [pending EXCEPT ![i] = draft[i]] /\ draft' = [draft EXCEPT ![i] = 0]
        /\ newer' = [h \in Handlers |-> IF req[h].key = i THEN newer[h] \cup {draft[i]} ELSE newer[h]]
        /\ UNCHANGED <<prs, home, told, req, waited>>
    BY <2>1 DEF Choice!SavePending, Choice!NoPR
  <2>3. ChoiceTypes'
    <3>1. pending' \in [Incidents -> 0..prs] /\ draft' \in [Incidents -> 0..prs]
      BY <1>1, <2>2 DEF ChoiceTypes
    <3>2. newer' = [h \in Handlers |-> newer'[h]]
      BY <2>2
    <3>3. QED
      BY <1>1, <2>2, <3>1, <3>2 DEF ChoiceTypes, Record
  <2>4. ASSUME NEW h \in Handlers
        PROVE  /\ newer[h] \subseteq newer'[h]
               /\ req[h].key \in Incidents =>
                    pending'[req[h].key] \in {0, pending[req[h].key]} \cup newer'[h]
    BY <1>1, <2>2 DEF ChoiceTypes
  <2>5. QED
    BY <1>1, <1>2, <2>2, <2>3, <2>4
<1>5. ASSUME ChoiceTypes', UNCHANGED <<prs, home, req, waited, newer>>,
             \A i \in Incidents : pending'[i] \in {0, pending[i]}
      PROVE  ChoiceSound'
  BY <1>1, <1>2, <1>5
<1>6. CASE \E i \in Incidents : Choice!ExpirePending(i) \/ Choice!AbandonFix(i)
  <2>1. PICK i \in Incidents : Choice!ExpirePending(i) \/ Choice!AbandonFix(i)
    BY <1>6
  <2>2. /\ UNCHANGED <<prs, home, told, req, waited, newer>>
        /\ \/ pending' = [pending EXCEPT ![i] = 0] /\ draft' = draft
           \/ pending' = pending /\ draft' = [draft EXCEPT ![i] = 0]
    BY <2>1 DEF Choice!ExpirePending, Choice!AbandonFix, Choice!camael, Choice!history, Choice!NoPR
  <2>3. /\ pending' \in [Incidents -> 0..prs] /\ draft' \in [Incidents -> 0..prs]
        /\ \A j \in Incidents : pending'[j] \in {0, pending[j]}
    BY <1>1, <2>2 DEF ChoiceTypes
  <2>4. ChoiceTypes'
    BY <1>1, <2>2, <2>3 DEF ChoiceTypes, Record
  <2>5. QED
    BY <1>5, <2>2, <2>3, <2>4
<1>7. ASSUME UNCHANGED <<prs, home, pending, draft, req, waited, newer>>, told' \subseteq 1..prs
      PROVE  ChoiceSound'
  <2>1. ChoiceTypes'
    BY <1>1, <1>7 DEF ChoiceTypes, Record
  <2>2. QED
    BY <1>5, <1>7, <2>1
<1>8. CASE \E n \in Choice!PRs : Choice!CloseInBitbucket(n) \/ Choice!Webhook(n)
  <2>1. PICK n \in Choice!PRs : Choice!CloseInBitbucket(n) \/ Choice!Webhook(n)
    BY <1>8
  <2>2. /\ UNCHANGED <<prs, home, pending, draft, req, waited, newer>>
        /\ told' = told \/ (n <= prs /\ told' = told \cup {n}) \/ told' = told \ {n}
    BY <2>1 DEF Choice!CloseInBitbucket, Choice!Webhook, Choice!Announce, Choice!Report,
      Choice!camael, Choice!history
  <2>3. n \in 1..MaxPRs
    BY <2>1 DEF Choice!PRs
  <2>4. told' \subseteq 1..prs
    BY <1>1, <2>2, <2>3 DEF ChoiceTypes
  <2>5. QED
    BY <1>7, <2>2, <2>4
<1>9. CASE Choice!AskWhatWaits
  <2>1. /\ UNCHANGED <<prs, home, pending, draft, req, waited, newer>>
        /\ told' = {pending[i] : i \in Choice!Waiting}
    BY <1>9 DEF Choice!AskWhatWaits, Choice!camael, Choice!history
  <2>2. \A i \in Choice!Waiting : pending[i] \in 1..prs
    BY <1>1 DEF ChoiceTypes, Choice!Waiting, Choice!NoPR
  <2>3. QED
    BY <1>7, <2>1, <2>2
<1>10. QED
  BY <1>3, <1>4, <1>6, <1>8, <1>9

\* An answer takes a step while the entries are as they were or fewer.
LEMMA OneAnswerStep ==
  ASSUME ChoiceSound, ChoiceTypes', NEW h \in Handlers, AnswerSound(h)', UNCHANGED <<prs, home>>,
         \A g \in Handlers : g # h =>
           req'[g] = req[g] /\ waited'[g] = waited[g] /\ newer'[g] = newer[g],
         \A i \in Incidents : pending'[i] \in {0, pending[i]}
  PROVE  ChoiceSound'
<1>1. prs \in Nat
  BY DEF ChoiceSound, ChoiceTypes
<1>2. ASSUME NEW g \in Handlers, g # h
      PROVE  AnswerSound(g)'
  BY <1>1, <1>2, WaitingStep
<1>3. QED
  BY <1>2 DEF ChoiceSound

\* An answer is over.
LEMMA OverStep ==
  ASSUME ChoiceSound, NEW h \in Handlers, Choice!Answer(h), UNCHANGED <<prs, home, draft>>,
         told' \subseteq 1..prs, pending' \in [Incidents -> 0..prs],
         \A i \in Incidents : pending'[i] \in {0, pending[i]}
  PROVE  ChoiceSound'
<1>1. ChoiceTypes /\ Choice!NoRequest \in Record /\ Choice!NoRequest.at = "idle"
  BY DEF ChoiceSound, ChoiceTypes, Choice!NoRequest, Record, Places, Choice!Ways, Choice!NoPR
<1>2. /\ req' = [req EXCEPT ![h] = Choice!NoRequest]
      /\ waited' = [waited EXCEPT ![h] = {}] /\ newer' = [newer EXCEPT ![h] = {}]
  BY DEF Choice!Answer
<1>3. req' \in [Handlers -> Record] /\ req'[h].at = "idle"
  BY <1>1, <1>2 DEF ChoiceTypes
<1>4. waited' = [g \in Handlers |-> waited'[g]] /\ newer' = [g \in Handlers |-> newer'[g]]
  BY <1>1, <1>2 DEF ChoiceTypes
<1>5. ChoiceTypes'
  BY <1>1, <1>3, <1>4 DEF ChoiceTypes, Record
<1>6. AnswerSound(h)'
  BY <1>3 DEF AnswerSound, Chosen
<1>7. \A g \in Handlers : g # h =>
        req'[g] = req[g] /\ waited'[g] = waited[g] /\ newer'[g] = newer[g]
  BY <1>1, <1>2 DEF ChoiceTypes
<1>8. QED
  BY <1>5, <1>6, <1>7, OneAnswerStep

\* An answer goes on as `next`.
LEMMA GoesOnStep ==
  ASSUME ChoiceSound, NEW h \in Handlers, NEW next \in Record, req' = [req EXCEPT ![h] = next],
         UNCHANGED <<prs, home, draft, pending, newer>>, told' \subseteq 1..prs,
         waited' = waited \/ \E set : waited' = [waited EXCEPT ![h] = set],
         next.at = "match" => next.way = "numbered",
         next.at \in Chosen =>
           /\ next.key \in Incidents
           /\ \A n \in 1..prs :
                pending[next.key] = n \/ (next.at # "get" /\ next.pr = n) => Found(h, n)'
  PROVE  ChoiceSound'
<1>1. ChoiceTypes
  BY DEF ChoiceSound
<1>2. req' \in [Handlers -> Record] /\ req'[h] = next
  BY <1>1 DEF ChoiceTypes
<1>3. waited' = [g \in Handlers |-> waited'[g]]
  BY <1>1 DEF ChoiceTypes
<1>4. ChoiceTypes'
  BY <1>1, <1>2, <1>3 DEF ChoiceTypes, Record
<1>5. AnswerSound(h)'
  BY <1>2 DEF AnswerSound
<1>6. \A g \in Handlers : g # h =>
        req'[g] = req[g] /\ waited'[g] = waited[g] /\ newer'[g] = newer[g]
  BY <1>1 DEF ChoiceTypes
<1>7. \A i \in Incidents : pending'[i] \in {0, pending[i]}
  OBVIOUS
<1>8. QED
  BY <1>4, <1>5, <1>6, <1>7, OneAnswerStep

\* The keys are read: the answer is over, looks for its number, or takes an entry.
LEMMA ReadKeysStep ==
  ASSUME ChoiceSound, NEW h \in Handlers, Choice!ReadKeys(h)
  PROVE  ChoiceSound'
<1>1. /\ ChoiceTypes /\ req[h] \in Record /\ prs \in Nat /\ req[h].at = "keys"
      /\ UNCHANGED <<prs, home, draft, pending>>
  BY DEF ChoiceSound, ChoiceTypes, Choice!ReadKeys, Choice!camael
<1>2. pending' \in [Incidents -> 0..prs] /\ \A i \in Incidents : pending'[i] \in {0, pending[i]}
  BY <1>1 DEF ChoiceTypes
<1>3. \A i \in Choice!Waiting : i \in Incidents /\ pending[i] \in 1..prs
  BY <1>1 DEF ChoiceTypes, Choice!Waiting, Choice!NoPR
<1>4. CASE Choice!Answer(h) /\ UNCHANGED told
  BY <1>1, <1>2, <1>4, OverStep DEF ChoiceTypes
<1>5. CASE Choice!AnswerList(h)
  <2>1. Choice!Answer(h) /\ told' \subseteq 1..prs
    BY <1>1, <1>3, <1>5 DEF ChoiceTypes, Choice!AnswerList
  <2>2. QED
    BY <1>1, <1>2, <2>1, OverStep
<1>6. CASE /\ req[h].way = "numbered"
           /\ req' = [req EXCEPT ![h].at = "match", ![h].keys = Choice!Waiting]
           /\ UNCHANGED <<told, waited, newer>>
  <2>1. PICK next \in Record : next = [req[h] EXCEPT !.at = "match", !.keys = Choice!Waiting]
    BY <1>1 DEF Record, Places, Choice!Waiting
  <2>2. next.at \notin Chosen /\ next.way = "numbered" /\ req' = [req EXCEPT ![h] = next]
    BY <1>1, <1>6, <2>1 DEF ChoiceTypes, Record, Chosen
  <2>3. told' \subseteq 1..prs
    BY <1>1, <1>6 DEF ChoiceTypes
  <2>4. QED
    BY <1>1, <1>6, <2>2, <2>3, GoesOnStep
<1>7. ASSUME req[h].way # "numbered", UNCHANGED <<told, newer>>,
             waited' = [waited EXCEPT ![h] = {pending[j] : j \in Choice!Waiting}],
             NEW i \in Choice!Choices(req[h].way),
             req' = [req EXCEPT ![h].at = "get", ![h].key = i]
      PROVE  ChoiceSound'
  <2>1. i \in Choice!Waiting /\ i \in Incidents
    BY <1>3, <1>7 DEF Choice!Choices, Choice!OnlyOf
  <2>2. PICK next \in Record : next = [req[h] EXCEPT !.at = "get", !.key = i]
    BY <1>1, <2>1 DEF Record, Places
  <2>3. /\ next.at = "get" /\ next.key = i /\ next.way = req[h].way
        /\ req' = [req EXCEPT ![h] = next] /\ req'[h] = next
    BY <1>1, <1>7, <2>2 DEF ChoiceTypes, Record
  <2>4. waited'[h] = {pending[j] : j \in Choice!Waiting}
    BY <1>1, <1>7 DEF ChoiceTypes
  <2>5. ASSUME NEW n \in 1..prs, pending[i] = n
        PROVE  Found(h, n)'
    <3>1. CASE req[h].way = "chat"
      BY <2>1, <2>3, <2>4, <2>5, <3>1 DEF Found
    <3>2. CASE req[h].way = "bare"
      <4>1. \A j \in Choice!Waiting : j = i
        BY <1>7, <3>2 DEF Choice!Choices, Choice!OnlyOf
      <4>2. waited'[h] = {n}
        BY <2>1, <2>4, <2>5, <4>1
      <4>3. QED
        BY <2>3, <3>2, <4>2 DEF Found
    <3>3. QED
      BY <1>1, <1>7, <3>1, <3>2 DEF Record, Choice!Ways
  <2>6. told' \subseteq 1..prs
    BY <1>1, <1>7 DEF ChoiceTypes
  <2>7. QED
    BY <1>1, <1>7, <2>1, <2>3, <2>5, <2>6, GoesOnStep
<1>8. QED
  BY <1>4, <1>5, <1>6, <1>7 DEF Choice!ReadKeys, Choice!history

\* An entry that has the number or has not.
LEMMA MatchStep ==
  ASSUME ChoiceSound, NEW h \in Handlers, Choice!Match(h)
  PROVE  ChoiceSound'
<1>1. /\ ChoiceTypes /\ req[h] \in Record /\ prs \in Nat
      /\ req[h].at = "match" /\ req[h].way = "numbered"
      /\ UNCHANGED <<prs, home, draft, pending>>
  BY DEF ChoiceSound, ChoiceTypes, AnswerSound, Choice!Match, Choice!camael
<1>2. CASE Choice!AnswerList(h)
  <2>1. \A i \in Choice!Waiting : pending[i] \in 1..prs
    BY <1>1 DEF ChoiceTypes, Choice!Waiting, Choice!NoPR
  <2>2. Choice!Answer(h) /\ told' \subseteq 1..prs
    BY <1>1, <1>2, <2>1 DEF ChoiceTypes, Choice!AnswerList
  <2>3. pending' \in [Incidents -> 0..prs] /\ \A i \in Incidents : pending'[i] \in {0, pending[i]}
    BY <1>1 DEF ChoiceTypes
  <2>4. QED
    BY <1>1, <2>2, <2>3, OverStep
<1>3. ASSUME NEW i \in req[h].keys, Choice!HasNumber(i, req[h].meant), UNCHANGED <<told, waited, newer>>,
             req' = [req EXCEPT ![h].at = "get", ![h].key = i, ![h].keys = {}]
      PROVE  ChoiceSound'
  <2>1. i \in Incidents
    BY <1>1, <1>3 DEF Record
  <2>2. PICK next \in Record : next = [req[h] EXCEPT !.at = "get", !.key = i, !.keys = {}]
    BY <1>1, <2>1 DEF Record, Places
  <2>3. /\ next.at = "get" /\ next.key = i /\ next.meant = req[h].meant /\ next.way = req[h].way
        /\ req' = [req EXCEPT ![h] = next] /\ req'[h] = next
    BY <1>1, <1>3, <2>2 DEF ChoiceTypes, Record
  <2>4. told' \subseteq 1..prs
    BY <1>1, <1>3 DEF ChoiceTypes
  <2>5. ASSUME NEW n \in 1..prs, pending[i] = n
        PROVE  Found(h, n)'
    <3>1. Choice!Number(n) = Choice!Number(req[h].meant)
      BY <1>3, <2>5 DEF Choice!HasNumber
    <3>2. Found(h, n)
      BY <1>1, <3>1 DEF Found
    <3>3. n \in 0..prs
      BY <1>1
    <3>4. QED
      BY <1>1, <1>3, <2>3, <3>2, <3>3, FoundStays
  <2>6. QED
    BY <1>1, <1>3, <2>1, <2>3, <2>4, <2>5, GoesOnStep
<1>4. ASSUME NEW i, req' = [req EXCEPT ![h].keys = @ \ {i}], UNCHANGED <<told, waited, newer>>
      PROVE  ChoiceSound'
  <2>1. PICK next \in Record : next = [req[h] EXCEPT !.keys = req[h].keys \ {i}]
    BY <1>1 DEF Record
  <2>2. next.at \notin Chosen /\ next.way = "numbered" /\ req' = [req EXCEPT ![h] = next]
    BY <1>1, <1>4, <2>1 DEF ChoiceTypes, Record, Chosen
  <2>3. told' \subseteq 1..prs
    BY <1>1, <1>4 DEF ChoiceTypes
  <2>4. QED
    BY <1>1, <1>4, <2>2, <2>3, GoesOnStep
<1>5. QED
  BY <1>2, <1>3, <1>4 DEF Choice!Match, Choice!history

\* The entry is read again.
LEMMA GetPendingStep ==
  ASSUME ChoiceSound, NEW h \in Handlers, Choice!GetPending(h)
  PROVE  ChoiceSound'
<1>1. /\ ChoiceTypes /\ req[h] \in Record /\ prs \in Nat /\ AnswerSound(h) /\ req[h].at = "get"
      /\ UNCHANGED <<prs, home, draft, pending, told>>
  BY DEF ChoiceSound, ChoiceTypes, Choice!GetPending, Choice!camael
<1>2. CASE Choice!Answer(h)
  BY <1>1, <1>2, OverStep DEF ChoiceTypes
<1>3. ASSUME NEW n, n = pending[req[h].key], n # 0, NEW place \in {"act", "untrack"},
             req' = [req EXCEPT ![h].pr = n, ![h].at = place], UNCHANGED <<waited, newer>>
      PROVE  ChoiceSound'
  <2>1. req[h].key \in Incidents /\ n \in 1..prs
    BY <1>1, <1>3 DEF AnswerSound, Chosen, ChoiceTypes
  <2>2. PICK next \in Record : next = [req[h] EXCEPT !.pr = n, !.at = place]
    <3>1. n \in 0..prs /\ place \in Places
      BY <1>1, <1>3, <2>1 DEF Places
    <3>2. [req[h] EXCEPT !.pr = n, !.at = place] \in Record
      BY <1>1, <3>1 DEF Record
    <3>3. QED
      BY <3>2
  <2>3. /\ next.at = place /\ next.key = req[h].key /\ next.meant = req[h].meant
        /\ next.way = req[h].way /\ next.pr = n
        /\ req' = [req EXCEPT ![h] = next] /\ req'[h] = next
    BY <1>1, <1>3, <2>2 DEF ChoiceTypes, Record
  <2>4. Found(h, n)
    BY <1>1, <1>3, <2>1 DEF AnswerSound, Chosen
  <2>5. Found(h, n)'
    <3>1. n \in 0..prs
      BY <1>1, <2>1
    <3>2. QED
      BY <1>1, <1>3, <2>3, <2>4, <3>1, FoundStays
  <2>6. ASSUME NEW m \in 1..prs, pending[req[h].key] = m \/ n = m
        PROVE  Found(h, m)'
    <3>1. m = n
      BY <1>3, <2>6
    <3>2. QED
      BY <2>5, <3>1
  <2>7. told' \subseteq 1..prs
    BY <1>1 DEF ChoiceTypes
  <2>8. /\ next.at # "match" /\ next.key \in Incidents
        /\ \A m \in 1..prs :
             pending[next.key] = m \/ (next.at # "get" /\ next.pr = m) => Found(h, m)'
    BY <1>3, <2>1, <2>3, <2>6
  <2>9. QED
    BY <1>1, <1>3, <2>3, <2>7, <2>8, GoesOnStep
<1>4. QED
  BY <1>2, <1>3 DEF Choice!GetPending, Choice!NoPR, Choice!history

\* The pull request is merged or declined, or was closed before, or the call fails.
LEMMA ActStep ==
  ASSUME ChoiceSound, NEW h \in Handlers, Choice!Act(h)
  PROVE  ChoiceSound'
<1>1. /\ ChoiceTypes /\ req[h] \in Record /\ prs \in Nat /\ AnswerSound(h) /\ req[h].at = "act"
      /\ UNCHANGED <<prs, home, draft, pending, told>>
  BY DEF ChoiceSound, ChoiceTypes, Choice!Act, Choice!camael
<1>2. CASE Choice!Answer(h)
  BY <1>1, <1>2, OverStep DEF ChoiceTypes
<1>3. CASE req' = [req EXCEPT ![h].at = "untrack"] /\ UNCHANGED <<waited, newer>>
  <2>1. PICK next \in Record : next = [req[h] EXCEPT !.at = "untrack"]
    BY <1>1 DEF Record, Places
  <2>2. /\ next.at = "untrack" /\ next.key = req[h].key /\ next.meant = req[h].meant
        /\ next.way = req[h].way /\ next.pr = req[h].pr
        /\ req' = [req EXCEPT ![h] = next] /\ req'[h] = next
    BY <1>1, <1>3, <2>1 DEF ChoiceTypes, Record
  <2>3. req[h].key \in Incidents
    BY <1>1 DEF AnswerSound, Chosen
  <2>4. ASSUME NEW n \in 1..prs, pending[req[h].key] = n \/ req[h].pr = n
        PROVE  Found(h, n)'
    <3>1. Found(h, n)
      BY <1>1, <2>4 DEF AnswerSound, Chosen
    <3>2. n \in 0..prs
      BY <1>1
    <3>3. QED
      BY <1>1, <1>3, <2>2, <3>1, <3>2, FoundStays
  <2>5. told' \subseteq 1..prs
    BY <1>1 DEF ChoiceTypes
  <2>6. /\ next.at # "match" /\ next.key \in Incidents
        /\ \A n \in 1..prs :
             pending[next.key] = n \/ (next.at # "get" /\ next.pr = n) => Found(h, n)'
    BY <2>2, <2>3, <2>4
  <2>7. QED
    BY <1>1, <1>3, <2>2, <2>5, <2>6, GoesOnStep
<1>4. QED
  BY <1>2, <1>3 DEF Choice!Act, Choice!GoesOn, Choice!history

\* An operator asks; an entry is deleted.
LEMMA AskStep ==
  ASSUME ChoiceSound, NEW h \in Handlers, Choice!Ask(h) \/ Choice!Untrack(h)
  PROVE  ChoiceSound'
<1>1. ChoiceTypes /\ prs \in Nat /\ UNCHANGED <<prs, home, draft, told>>
  BY DEF ChoiceSound, ChoiceTypes, Choice!Ask, Choice!Untrack, Choice!camael
<1>2. CASE Choice!Ask(h)
  <2>1. PICK n \in told, way \in Choice!Ways, verb \in {"aprobar", "rechazar"} :
          req' = [req EXCEPT ![h] = [Choice!NoRequest EXCEPT !.at = "keys", !.way = way,
                                                             !.verb = verb, !.meant = n]]
    BY <1>2 DEF Choice!Ask
  <2>2. n \in 0..prs
    BY <1>1 DEF ChoiceTypes
  <2>3. PICK next \in Record : next = [Choice!NoRequest EXCEPT !.at = "keys", !.way = way,
                                                               !.verb = verb, !.meant = n]
    <3>1. Choice!NoRequest \in Record
      BY <1>1 DEF Record, Places, Choice!Ways, Choice!NoRequest, Choice!NoPR
    <3>2. "keys" \in Places
      BY DEF Places
    <3>3. [Choice!NoRequest EXCEPT !.at = "keys", !.way = way, !.verb = verb, !.meant = n]
            \in Record
      BY <2>2, <3>1, <3>2 DEF Record
    <3>4. QED
      BY <3>3
  <2>4. next.at \notin Chosen /\ next.at # "match"
    BY <2>3 DEF Choice!NoRequest, Chosen
  <2>5. UNCHANGED <<pending, waited, newer>> /\ told' \subseteq 1..prs
    BY <1>1, <1>2 DEF Choice!Ask, Choice!history, ChoiceTypes
  <2>6. QED
    BY <1>1, <2>1, <2>3, <2>4, <2>5, GoesOnStep
<1>3. CASE Choice!Untrack(h)
  <2>1. pending' \in [Incidents -> 0..prs] /\ \A i \in Incidents : pending'[i] \in {0, pending[i]}
    <3>1. pending \in [Incidents -> 0..prs] /\ 0 \in 0..prs
      BY <1>1 DEF ChoiceTypes
    <3>2. pending' = [pending EXCEPT ![req[h].key] = 0]
      BY <1>3 DEF Choice!Untrack, Choice!NoPR
    <3>3. QED
      BY <3>1, <3>2
  <2>2. Choice!Answer(h) /\ told' \subseteq 1..prs
    BY <1>1, <1>3 DEF Choice!Untrack, ChoiceTypes
  <2>3. QED
    BY <1>1, <2>1, <2>2, OverStep
<1>4. QED
  BY <1>2, <1>3

\* No step disturbs it.
LEMMA ChoiceStaysSound == ChoiceSound /\ [Choice!Next]_(Choice!vars) => ChoiceSound'
<1> SUFFICES ASSUME ChoiceSound, [Choice!Next]_(Choice!vars)
             PROVE  ChoiceSound'
  OBVIOUS
<1>1. CASE \E h \in Handlers : Choice!Ask(h) \/ Choice!Serving(h)
  BY <1>1, AskStep, ReadKeysStep, MatchStep, GetPendingStep, ActStep DEF Choice!Serving
<1>2. CASE UNCHANGED Choice!vars
  <2>1. UNCHANGED <<prs, home, draft, pending, told, req, waited, newer>>
    BY <1>2 DEF Choice!vars, Choice!camael, Choice!history
  <2>2. ChoiceTypes'
    BY <2>1 DEF ChoiceSound, ChoiceTypes, Record
  <2>3. \A h \in Handlers : AnswerSound(h)'
    BY <2>1, WaitingStep DEF ChoiceSound, ChoiceTypes
  <2>4. QED
    BY <2>2, <2>3 DEF ChoiceSound
<1>3. QED
  BY <1>1, <1>2, CamaelStep DEF Choice!Next

\* Whatever the operator is told, late, again or never, however many answers are served
\* at once and whatever Camael saves and people merge meanwhile: what is merged,
\* declined or forgotten is what he means, or has his number in another repository,
\* was all that waited when he gave none, waited with others when he wrote in the
\* chat, or was saved under the same key since.
THEOREM AnswersActOnMeant == Choice!Spec => []ActsOnMeant
<1>1. Choice!Init => ChoiceSound
  <2>1. SUFFICES ASSUME Choice!Init PROVE ChoiceSound
    OBVIOUS
  <2>2. prs = 0 /\ 0 \in 0..prs
    BY <2>1 DEF Choice!Init
  <2>3. Choice!NoRequest \in Record /\ Choice!NoRequest.at = "idle"
    BY <2>2 DEF Choice!NoRequest, Record, Places, Choice!Ways, Choice!NoPR
  <2>4. ChoiceTypes
    BY <2>1, <2>2, <2>3 DEF Choice!Init, ChoiceTypes, Choice!NoPR
  <2>5. \A h \in Handlers : req[h] = Choice!NoRequest
    BY <2>1 DEF Choice!Init
  <2>6. QED
    BY <2>3, <2>4, <2>5 DEF ChoiceSound, AnswerSound, Chosen
<1>2. ChoiceSound => ActsOnMeant
  <2>1. SUFFICES ASSUME ChoiceSound, NEW h \in Handlers, NEW n \in Choice!Touched(h) \ {0}
                 PROVE  \/ n = req[h].meant
                        \/ n \in newer[h]
                        \/ CASE req[h].way = "numbered" -> Choice!Number(n) = Choice!Number(req[h].meant)
                             [] req[h].way = "bare" -> waited[h] = {n}
                             [] req[h].way = "chat" -> n \in waited[h]
    BY DEF ActsOnMeant, Choice!ActsOnMeant, Choice!NoPR
  <2>2. /\ ChoiceTypes /\ AnswerSound(h) /\ req[h] \in Record /\ prs \in Nat
        /\ req[h].at \in {"act", "untrack"}
    BY <2>1 DEF ChoiceSound, ChoiceTypes, Choice!Touched
  <2>3. req[h].key \in Incidents /\ pending[req[h].key] \in 0..prs /\ req[h].pr \in 0..prs
    BY <2>2 DEF AnswerSound, Chosen, ChoiceTypes, Record
  <2>4. n \in {req[h].pr, pending[req[h].key]} /\ n \in 1..prs
    BY <2>1, <2>2, <2>3 DEF Choice!Touched
  <2>5. Found(h, n)
    BY <2>2, <2>3, <2>4 DEF AnswerSound, Chosen
  <2>6. QED
    BY <2>2, <2>5 DEF Found, Record, Choice!Ways
<1>3. QED
  BY <1>1, <1>2, ChoiceStaysSound, PTL DEF Choice!Spec

-----------------------------------------------------------------------------
(* The tasks of Gabriel                                                    *)

Plans == [file : Files, branch : Branches]

Forks == [from : Code!Tree, tree : Code!Tree]

\* A branch has what it was made from, and so has the base branch.
Grown(b) ==
  /\ branches[b] \in Forks
  /\ \A f \in Files : branches[b].from[f] \subseteq branches[b].tree[f] \cap base[f]

BranchSound(b) ==
  /\ Grown(b) \/ branches[b] = Code!NoBranch
  /\ b \in open => Grown(b)

\* A task that has committed finds its change, and one that is reported finds it where
\* it was reported, unless another task has reset the branch.
Kept(t) ==
  \/ t \in reset
  \/ t \in base[plan[t].file]
  \/ /\ t \in branches[plan[t].branch].tree[plan[t].file]
     /\ t \in gReported => plan[t].branch \in open

TaskSound(t) ==
  /\ gPc[t] \notin {"analyze", "done"} \/ t \in gReported => plan[t] \in Plans
  /\ gPc[t] \in {"branch", "reset"} =>
       head[t] \in Code!Tree /\ \A f \in Files : head[t][f] \subseteq base[f]
  /\ gPc[t] \in {"commit", "pull"} => Grown(plan[t].branch)
  /\ t \in gReported => gPc[t] = "done"
  /\ gPc[t] = "pull" \/ t \in gReported => Kept(t)

TasksSound ==
  /\ Code!TypeOK
  /\ \A b \in Branches : BranchSound(b)
  /\ \A t \in Tasks : TaskSound(t)

\* What a step may do to the repository: nothing that a branch or the base branch has
\* gets lost but by a reset.
Onward ==
  /\ \A f \in Files : base[f] \subseteq base'[f]
  /\ \A b \in Branches : Grown(b) => Grown(b)'
  /\ reset \subseteq reset'
  /\ \A b \in Branches, f \in Files, t \in Tasks :
       Grown(b) /\ t \in branches[b].tree[f] =>
         \/ t \in reset'
         \/ t \in base'[f]
         \/ t \in branches'[b].tree[f] /\ (b \in open => b \in open')

\* Such a step does not disturb a task that does nothing.
LEMMA OthersStay ==
  ASSUME TasksSound, Onward, NEW t \in Tasks, gPc'[t] = gPc[t], plan'[t] = plan[t],
         head'[t] = head[t], t \in gReported' <=> t \in gReported
  PROVE  TaskSound(t)'
<1>1. TaskSound(t) /\ \A b \in Branches : b \in open => Grown(b)
  BY DEF TasksSound, BranchSound
<1>2. gPc[t] \in {"branch", "reset"} =>
        head'[t] \in Code!Tree /\ \A f \in Files : head'[t][f] \subseteq base'[f]
  BY <1>1 DEF TaskSound, Onward
<1>3. gPc[t] \in {"commit", "pull"} => Grown(plan[t].branch)'
  BY <1>1 DEF TaskSound, Onward, Plans
<1>4. ASSUME gPc[t] = "pull" \/ t \in gReported
      PROVE  Kept(t)'
  <2>1. PICK f \in Files, b \in Branches : plan[t].file = f /\ plan[t].branch = b
    BY <1>1, <1>4 DEF TaskSound, Plans
  <2>2. Kept(t) /\ (gPc[t] = "pull" => Grown(b))
    BY <1>1, <1>4, <2>1 DEF TaskSound
  <2>3. CASE t \in reset \/ t \in base[f]
    BY <2>1, <2>3 DEF Kept, Onward
  <2>4. CASE t \in branches[b].tree[f] /\ (t \in gReported => b \in open)
    <3>1. Grown(b)
      BY <1>1, <1>4, <2>2, <2>4
    <3>2. \/ t \in reset'
          \/ t \in base'[f]
          \/ t \in branches'[b].tree[f] /\ (b \in open => b \in open')
      BY <2>4, <3>1 DEF Onward
    <3>3. QED
      BY <2>1, <2>4, <3>2 DEF Kept
  <2>5. QED
    BY <2>1, <2>2, <2>3, <2>4 DEF Kept
<1>5. QED
  BY <1>1, <1>2, <1>3, <1>4 DEF TaskSound

\* Steps that leave the repository alone.
LEMMA QuietStep ==
  ASSUME TasksSound, NEW t \in Tasks,
         \/ Code!Analyze(t) \/ Code!ReadFile(t) \/ Code!Generate(t)
         \/ Code!ResolveBase(t) \/ Code!Fails(t)
  PROVE  TasksSound' /\ Onward
<1>1. /\ UNCHANGED <<base, branches, open, reset, gReported>>
      /\ Code!TypeOK /\ TaskSound(t)
  BY DEF TasksSound, Code!Analyze, Code!ReadFile, Code!Generate, Code!ResolveBase, Code!Fails,
    Code!github
<1>2. \A b \in Branches : (Grown(b) => Grown(b)') /\ BranchSound(b)'
  BY <1>1 DEF TasksSound, BranchSound, Grown
<1>3. Onward
  BY <1>1, <1>2 DEF Onward
<1>4. ASSUME NEW q \in Tasks, q # t
      PROVE  TaskSound(q)'
  <2>1. gPc'[q] = gPc[q] /\ plan'[q] = plan[q] /\ head'[q] = head[q]
    BY <1>1, <1>4 DEF Code!TypeOK, Code!Analyze, Code!ReadFile, Code!Generate,
      Code!ResolveBase, Code!Fails, Code!Go
  <2>2. QED
    BY <1>1, <1>3, <2>1, OthersStay
<1>5. Code!TypeOK' /\ TaskSound(t)'
  <2>1. CASE Code!Analyze(t)
    <3>1. PICK f \in Files, b \in Branches :
            plan' = [plan EXCEPT ![t] = [file |-> f, branch |-> b]]
      BY <2>1 DEF Code!Analyze
    <3>2. Code!TypeOK'
      BY <1>1, <2>1, <3>1 DEF Code!TypeOK, Code!Analyze, Code!Go
    <3>3. gPc'[t] = "read" /\ plan'[t] \in Plans
      BY <1>1, <2>1, <3>1 DEF Code!TypeOK, Code!Analyze, Code!Go, Plans
    <3>4. t \notin gReported
      BY <1>1, <2>1 DEF TaskSound, Code!Analyze
    <3>5. QED
      BY <1>1, <3>2, <3>3, <3>4 DEF TaskSound
  <2>2. CASE Code!ReadFile(t)
    <3>1. plan[t] \in Plans /\ t \notin gReported
      BY <1>1, <2>2 DEF TaskSound, Code!ReadFile
    <3>2. base[plan[t].file] \in Code!Text
      BY <1>1, <3>1 DEF Code!TypeOK, Code!Tree, Plans
    <3>3. Code!TypeOK'
      BY <1>1, <2>2, <3>2 DEF Code!TypeOK, Code!ReadFile, Code!Go
    <3>4. gPc'[t] = "generate" /\ plan' = plan
      BY <1>1, <2>2 DEF Code!TypeOK, Code!ReadFile, Code!Go
    <3>5. QED
      BY <1>1, <3>1, <3>3, <3>4 DEF TaskSound
  <2>3. CASE Code!Generate(t)
    <3>1. plan[t] \in Plans /\ t \notin gReported
      BY <1>1, <2>3 DEF TaskSound, Code!Generate
    <3>2. Code!TypeOK'
      BY <1>1, <2>3 DEF Code!TypeOK, Code!Generate, Code!Go
    <3>3. gPc'[t] \in {"resolve", "done"} /\ plan' = plan
      BY <1>1, <2>3 DEF Code!TypeOK, Code!Generate, Code!Go
    <3>4. QED
      BY <1>1, <3>1, <3>2, <3>3 DEF TaskSound
  <2>4. CASE Code!ResolveBase(t)
    <3>1. plan[t] \in Plans /\ t \notin gReported
      BY <1>1, <2>4 DEF TaskSound, Code!ResolveBase
    <3>2. Code!TypeOK'
      BY <1>1, <2>4 DEF Code!TypeOK, Code!ResolveBase, Code!Go
    <3>3. gPc'[t] = "branch" /\ plan' = plan /\ head'[t] = base
      BY <1>1, <2>4 DEF Code!TypeOK, Code!ResolveBase, Code!Go
    <3>4. base \in Code!Tree
      BY <1>1 DEF Code!TypeOK
    <3>5. QED
      BY <1>1, <3>1, <3>2, <3>3, <3>4 DEF TaskSound
  <2>5. CASE Code!Fails(t)
    <3>1. t \notin gReported
      BY <1>1, <2>5 DEF TaskSound, Code!Fails
    <3>2. Code!TypeOK'
      BY <1>1, <2>5 DEF Code!TypeOK, Code!Fails, Code!Go, Code!github
    <3>3. gPc'[t] = "done"
      BY <1>1, <2>5 DEF Code!TypeOK, Code!Fails, Code!Go
    <3>4. QED
      BY <1>1, <3>1, <3>2, <3>3 DEF TaskSound
  <2>6. QED
    BY <2>1, <2>2, <2>3, <2>4, <2>5
<1>6. QED
  BY <1>2, <1>3, <1>4, <1>5 DEF TasksSound

\* A step of one task that is Onward: the other tasks are as they were.
LEMMA TaskStep ==
  ASSUME TasksSound, Onward, NEW t \in Tasks, Code!TypeOK', \A b \in Branches : BranchSound(b)',
         TaskSound(t)', UNCHANGED <<plan, head>>,
         NEW label, gPc' = [gPc EXCEPT ![t] = label],
         gReported' = gReported \/ gReported' = gReported \cup {t}
  PROVE  TasksSound'
<1>1. ASSUME NEW q \in Tasks, q # t
      PROVE  TaskSound(q)'
  <2>1. gPc'[q] = gPc[q]
    BY <1>1 DEF TasksSound, Code!TypeOK
  <2>2. QED
    BY <1>1, <2>1, OthersStay
<1>2. QED
  BY <1>1 DEF TasksSound

\* A branch is made of the base branch as it was, or reset to it.
LEMMA ForkStep ==
  ASSUME TasksSound, NEW t \in Tasks, Code!CreateBranch(t) \/ Code!ResetBranch(t)
  PROVE  TasksSound' /\ Onward
<1>1. Code!TypeOK /\ TaskSound(t) /\ UNCHANGED <<base, gReported, plan, head, seen>>
  BY DEF TasksSound, Code!CreateBranch, Code!ResetBranch
<1>2. /\ t \notin gReported /\ plan[t] \in Plans /\ head[t] \in Code!Tree
      /\ \A f \in Files : head[t][f] \subseteq base[f]
  BY <1>1 DEF TaskSound, Code!CreateBranch, Code!ResetBranch
<1>3. PICK b \in Branches : b = plan[t].branch
  BY <1>2 DEF Plans
<1>4. PICK tree \in Code!Tree : tree = head[t]
  BY <1>2
<1>5. CASE Code!CreateBranch(t) /\ branches[b] # Code!NoBranch
  <2>1. UNCHANGED <<branches, open, reset>> /\ gPc' = [gPc EXCEPT ![t] = "reset"]
    BY <1>3, <1>5 DEF Code!CreateBranch, Code!Branch, Code!Go
  <2>2. gPc'[t] = "reset" /\ Code!TypeOK'
    BY <1>1, <2>1 DEF Code!TypeOK
  <2>3. \A c \in Branches : (Grown(c) => Grown(c)') /\ BranchSound(c)'
    BY <1>1, <2>1 DEF TasksSound, BranchSound, Grown
  <2>4. Onward
    BY <1>1, <2>1, <2>3 DEF Onward
  <2>5. TaskSound(t)'
    BY <1>1, <1>2, <2>2 DEF TaskSound
  <2>6. QED
    BY <1>1, <2>1, <2>2, <2>3, <2>4, <2>5, TaskStep
<1>6. CASE \/ Code!CreateBranch(t) /\ branches[b] = Code!NoBranch
           \/ Code!ResetBranch(t)
  <2>1. branches' = [branches EXCEPT ![b] = [from |-> tree, tree |-> tree]]
    BY <1>3, <1>4, <1>6 DEF Code!CreateBranch, Code!ResetBranch, Code!Branch, Code!SetBranch
  <2>2. PICK label \in {"commit", "done"} : gPc' = [gPc EXCEPT ![t] = label]
    BY <1>3, <1>6 DEF Code!CreateBranch, Code!ResetBranch, Code!Branch, Code!Answered, Code!Go
  <2>3. /\ [from |-> tree, tree |-> tree] \in Forks
        /\ branches'[b] = [from |-> tree, tree |-> tree]
        /\ \A c \in Branches : c # b => branches'[c] = branches[c]
    BY <1>1, <2>1 DEF Code!TypeOK, Forks
  <2>4. open' = open \/ open' = open \ {b}
    BY <1>3, <1>6 DEF Code!CreateBranch, Code!ResetBranch
  <2>5. reset \subseteq reset' /\ reset' \subseteq Tasks
    BY <1>1, <1>6 DEF Code!CreateBranch, Code!ResetBranch, Code!TypeOK
  <2>6. Code!TypeOK'
    BY <1>1, <2>1, <2>2, <2>3, <2>4, <2>5 DEF Code!TypeOK, Forks
  <2>7. Grown(b)'
    BY <1>1, <1>2, <1>4, <2>3 DEF Grown
  <2>8. \A c \in Branches : (Grown(c) => Grown(c)') /\ BranchSound(c)'
    BY <1>1, <2>3, <2>4, <2>7 DEF TasksSound, BranchSound, Grown
  <2>9. ASSUME NEW c \in Branches, NEW f \in Files, NEW q \in Tasks, Grown(c),
               q \in branches[c].tree[f]
        PROVE  \/ q \in reset'
               \/ q \in base'[f]
               \/ q \in branches'[c].tree[f] /\ (c \in open => c \in open')
    <3>1. CASE c # b
      BY <2>3, <2>4, <2>9, <3>1
    <3>2. CASE c = b /\ branches[b] = Code!NoBranch
      <4>1. branches[c].tree = branches[c].from
        BY <3>2 DEF Code!NoBranch
      <4>2. QED
        BY <1>1, <2>9, <4>1 DEF Grown
    <3>3. CASE c = b /\ Code!ResetBranch(t)
      BY <1>3, <2>9, <3>3 DEF Code!ResetBranch, Code!Branch
    <3>4. QED
      BY <1>6, <3>1, <3>2, <3>3
  <2>10. Onward
    BY <1>1, <2>5, <2>8, <2>9 DEF Onward
  <2>11. TaskSound(t)'
    <3>1. gPc'[t] \in {"commit", "done"}
      BY <1>1, <2>2 DEF Code!TypeOK
    <3>2. QED
      BY <1>1, <1>2, <1>3, <2>7, <3>1 DEF TaskSound
  <2>12. QED
    BY <1>1, <2>2, <2>6, <2>8, <2>10, <2>11, TaskStep
<1>7. QED
  BY <1>5, <1>6

\* A commit adds the change to the file that was read, if that is still the file.
LEMMA CommitStep ==
  ASSUME TasksSound, NEW t \in Tasks, Code!Commit(t)
  PROVE  TasksSound' /\ Onward
<1>1. /\ Code!TypeOK /\ TaskSound(t)
      /\ UNCHANGED <<base, open, plan, seen, head, gReported, reset>>
  BY DEF TasksSound, Code!Commit
<1>2. t \notin gReported /\ plan[t] \in Plans /\ Grown(plan[t].branch)
  BY <1>1 DEF TaskSound, Code!Commit
<1>3. PICK b \in Branches, file \in Files : b = plan[t].branch /\ file = plan[t].file
  BY <1>2 DEF Plans
<1>4. CASE branches[b].tree[file] # seen[t]
  <2>1. branches' = branches /\ gPc' = [gPc EXCEPT ![t] = "done"]
    BY <1>3, <1>4 DEF Code!Commit, Code!Branch, Code!Go
  <2>2. gPc'[t] = "done" /\ Code!TypeOK'
    BY <1>1, <2>1 DEF Code!TypeOK
  <2>3. \A c \in Branches : (Grown(c) => Grown(c)') /\ BranchSound(c)'
    BY <1>1, <2>1 DEF TasksSound, BranchSound, Grown
  <2>4. Onward
    BY <1>1, <2>1, <2>3 DEF Onward
  <2>5. TaskSound(t)'
    BY <1>1, <1>2, <2>2 DEF TaskSound
  <2>6. QED
    BY <1>1, <2>1, <2>2, <2>3, <2>4, <2>5, TaskStep
<1>5. CASE branches[b].tree[file] = seen[t]
  <2>1. PICK new : new = [branches[b] EXCEPT !.tree[file] = seen[t] \cup {t}]
    OBVIOUS
  <2>2. branches' = [branches EXCEPT ![b] = new]
    BY <1>3, <1>5, <2>1 DEF Code!Commit, Code!Branch, Code!SetBranch
  <2>3. PICK label \in {"pull", "done"} : gPc' = [gPc EXCEPT ![t] = label]
    BY <1>3, <1>5 DEF Code!Commit, Code!Branch, Code!Answered, Code!Go
  <2>4. branches[b] \in Forks /\ seen[t] \cup {t} \in Code!Text
    BY <1>1, <1>2, <1>3 DEF Grown, Code!TypeOK, Code!Text, Code!Changes
  <2>5. /\ new \in Forks /\ new.from = branches[b].from /\ t \in new.tree[file]
        /\ \A f \in Files : branches[b].tree[f] \subseteq new.tree[f]
    BY <1>5, <2>1, <2>4 DEF Forks, Code!Tree
  <2>6. branches'[b] = new /\ \A c \in Branches : c # b => branches'[c] = branches[c]
    BY <1>1, <2>2 DEF Code!TypeOK
  <2>7. Code!TypeOK'
    BY <1>1, <2>2, <2>3, <2>5 DEF Code!TypeOK, Forks
  <2>8. Grown(b)'
    BY <1>1, <1>2, <1>3, <2>5, <2>6 DEF Grown
  <2>9. \A c \in Branches : (Grown(c) => Grown(c)') /\ BranchSound(c)'
    BY <1>1, <2>6, <2>8 DEF TasksSound, BranchSound, Grown
  <2>10. Onward
    BY <1>1, <2>5, <2>6, <2>9 DEF Onward
  <2>11. TaskSound(t)'
    <3>1. gPc'[t] \in {"pull", "done"}
      BY <1>1, <2>3 DEF Code!TypeOK
    <3>2. Kept(t)'
      BY <1>1, <1>2, <1>3, <2>5, <2>6 DEF Kept
    <3>3. QED
      BY <1>1, <1>2, <1>3, <2>8, <3>1, <3>2 DEF TaskSound
  <2>12. QED
    BY <1>1, <2>3, <2>7, <2>9, <2>10, <2>11, TaskStep
<1>6. QED
  BY <1>4, <1>5

\* The pull request that a task reports has its change.
LEMMA PullRequestStep ==
  ASSUME TasksSound, NEW t \in Tasks, Code!CreatePullRequest(t)
  PROVE  TasksSound' /\ Onward
<1>1. /\ Code!TypeOK /\ TaskSound(t) /\ gPc[t] = "pull"
      /\ UNCHANGED <<base, branches, plan, seen, head, reset>>
      /\ gPc' = [gPc EXCEPT ![t] = "done"]
  BY DEF TasksSound, Code!CreatePullRequest, Code!Go
<1>2. /\ t \notin gReported /\ plan[t] \in Plans /\ Grown(plan[t].branch) /\ Kept(t)
  BY <1>1 DEF TaskSound
<1>3. PICK b \in Branches : b = plan[t].branch
  BY <1>2 DEF Plans
<1>4. /\ open' = open \/ open' = open \cup {b}
      /\ gReported' = gReported \/ (gReported' = gReported \cup {t} /\ open' = open \cup {b})
  BY <1>3 DEF Code!CreatePullRequest
<1>5. gPc'[t] = "done" /\ Code!TypeOK'
  BY <1>1, <1>4 DEF Code!TypeOK
<1>6. \A c \in Branches : (Grown(c) => Grown(c)') /\ BranchSound(c)'
  BY <1>1, <1>2, <1>3, <1>4 DEF TasksSound, BranchSound, Grown
<1>7. Onward
  BY <1>1, <1>4, <1>6 DEF Onward
<1>8. TaskSound(t)'
  <2>1. t \in gReported' => Kept(t)'
    BY <1>1, <1>2, <1>3, <1>4 DEF Kept
  <2>2. QED
    BY <1>1, <1>2, <1>5, <2>1 DEF TaskSound
<1>9. QED
  BY <1>1, <1>4, <1>5, <1>6, <1>7, <1>8, TaskStep

\* People push: the base branch grows.
LEMMA PushStep ==
  ASSUME TasksSound, NEW h \in People, NEW f \in Files, Code!Push(h, f)
  PROVE  TasksSound' /\ Onward
<1>1. /\ Code!TypeOK /\ base' = [base EXCEPT ![f] = @ \cup {h}]
      /\ UNCHANGED <<branches, open, gPc, plan, seen, head, gReported, reset>>
  BY DEF TasksSound, Code!Push
<1>2. base' \in Code!Tree /\ \A g \in Files : base[g] \subseteq base'[g]
  BY <1>1 DEF Code!TypeOK, Code!Tree, Code!Text, Code!Changes
<1>3. Code!TypeOK'
  BY <1>1, <1>2 DEF Code!TypeOK
<1>4. \A c \in Branches : (Grown(c) => Grown(c)') /\ BranchSound(c)'
  BY <1>1, <1>2 DEF TasksSound, BranchSound, Grown
<1>5. Onward
  BY <1>1, <1>2, <1>4 DEF Onward
<1>6. \A t \in Tasks : TaskSound(t)'
  BY <1>1, <1>5, OthersStay
<1>7. QED
  BY <1>3, <1>4, <1>5, <1>6 DEF TasksSound

\* A merge takes nothing out of the base branch and brings all that the branch has.
LEMMA MergeStep ==
  ASSUME TasksSound, NEW b \in Branches, Code!Merge(b)
  PROVE  TasksSound' /\ Onward
<1>1. /\ Code!TypeOK /\ Grown(b) /\ branches[b] \in Forks
      /\ base' = Code!Merged(b) /\ open' = open \ {b}
      /\ branches' = [branches EXCEPT ![b].from = branches[b].tree]
      /\ UNCHANGED <<gPc, plan, seen, head, gReported, reset>>
  BY DEF TasksSound, BranchSound, Grown, Code!Merge
<1>2. /\ branches[b].from \in Code!Tree /\ branches[b].tree \in Code!Tree
      /\ base \in Code!Tree
  BY <1>1 DEF Forks, Code!TypeOK
<1>3. \A f \in Files : branches[b].from[f] \subseteq branches[b].tree[f] \cap base[f]
  BY <1>1 DEF Grown
<1>4. base' \in Code!Tree
      /\ \A f \in Files : base[f] \subseteq base'[f] /\ branches[b].tree[f] \subseteq base'[f]
  BY <1>1, <1>2, <1>3 DEF Code!Merged, Code!Tree, Code!Text
<1>5. PICK new \in Forks : new = [from |-> branches[b].tree, tree |-> branches[b].tree]
  BY <1>2 DEF Forks
<1>6. branches' = [branches EXCEPT ![b] = new]
  <2>1. [branches[b] EXCEPT !.from = branches[b].tree] = new
    BY <1>1, <1>5 DEF Forks
  <2>2. QED
    BY <1>1, <2>1
<1>7. branches'[b] = new /\ \A c \in Branches : c # b => branches'[c] = branches[c]
  BY <1>1, <1>6 DEF Code!TypeOK
<1>8. Code!TypeOK'
  BY <1>1, <1>4, <1>6 DEF Code!TypeOK, Forks
<1>9. Grown(b)'
  BY <1>4, <1>5, <1>7 DEF Grown
<1>10. \A c \in Branches : (Grown(c) => Grown(c)') /\ BranchSound(c)'
  BY <1>1, <1>4, <1>7, <1>9 DEF TasksSound, BranchSound, Grown
<1>11. Onward
  <2>1. ASSUME NEW c \in Branches, NEW f \in Files, NEW t \in Tasks, t \in branches[c].tree[f]
        PROVE  t \in base'[f] \/ (t \in branches'[c].tree[f] /\ (c \in open => c \in open'))
    BY <1>1, <1>4, <1>7, <2>1
  <2>2. QED
    BY <1>1, <1>4, <1>10, <2>1 DEF Onward
<1>12. \A t \in Tasks : TaskSound(t)'
  BY <1>1, <1>11, OthersStay
<1>13. QED
  BY <1>8, <1>10, <1>11, <1>12 DEF TasksSound

\* No step of a task, of people or of GitHub disturbs it.
LEMMA TasksStaySound ==
  TasksSound /\ [Code!Next]_(Code!vars) => /\ TasksSound'
                                           /\ \A f \in Files : base[f] \subseteq base'[f]
<1> SUFFICES ASSUME TasksSound, [Code!Next]_(Code!vars)
             PROVE  TasksSound' /\ \A f \in Files : base[f] \subseteq base'[f]
  OBVIOUS
<1>1. ASSUME TasksSound', Onward
      PROVE  TasksSound' /\ \A f \in Files : base[f] \subseteq base'[f]
  BY <1>1 DEF Onward
<1>2. CASE \E t \in Tasks : Code!TaskNext(t)
  BY <1>1, <1>2, QuietStep, ForkStep, CommitStep, PullRequestStep DEF Code!TaskNext
<1>3. CASE \E h \in People, f \in Files : Code!Push(h, f)
  BY <1>1, <1>3, PushStep
<1>4. CASE \E b \in Branches : Code!Merge(b)
  BY <1>1, <1>4, MergeStep
<1>5. CASE UNCHANGED Code!vars
  <2>1. UNCHANGED <<base, branches, open, gPc, plan, seen, head, gReported, reset>>
    BY <1>5 DEF Code!vars, Code!github
  <2>2. QED
    BY <2>1 DEF TasksSound, Code!TypeOK, BranchSound, TaskSound, Grown, Kept
<1>6. QED
  BY <1>2, <1>3, <1>4, <1>5 DEF Code!Next

\* An empty repository and tasks that have not begun.
LEMMA TasksStartSound == Code!Init => TasksSound
<1> SUFFICES ASSUME Code!Init PROVE TasksSound
  OBVIOUS
<1>1. Code!TypeOK
  BY DEF Code!Init, Code!TypeOK, Code!Tree, Code!Text
<1>2. \A b \in Branches : BranchSound(b)
  BY DEF Code!Init, BranchSound
<1>3. \A t \in Tasks : TaskSound(t)
  BY DEF Code!Init, TaskSound
<1>4. QED
  BY <1>1, <1>2, <1>3 DEF TasksSound

\* However many tasks choose the same branch or file, however long the LLM takes and
\* whatever fails: no merge takes a change out of the base branch.
THEOREM MergesRevertNothing == Code!Spec => NothingReverted
<1>1. TasksSound /\ [Code!Next]_(Code!vars) =>
        [\A f \in Files : base[f] \subseteq base'[f]]_(Code!vars)
  BY TasksStaySound
<1>2. TasksSound /\ [Code!Next]_(Code!vars) => TasksSound'
  BY TasksStaySound
<1>3. QED
  BY <1>1, <1>2, TasksStartSound, PTL DEF Code!Spec, NothingReverted, Code!NothingReverted

\* What a task has reported is in its pull request or merged, unless another task has
\* reset the branch.
THEOREM ReportsStayTrue == Code!Spec => []ReportedIsThere
<1>1. TasksSound => ReportedIsThere
  BY DEF TasksSound, TaskSound, Kept, ReportedIsThere, Code!ReportedIsThere, Code!Branch,
    Code!TypeOK
<1>2. TasksSound /\ [Code!Next]_(Code!vars) => TasksSound'
  BY TasksStaySound
<1>3. QED
  BY <1>1, <1>2, TasksStartSound, PTL DEF Code!Spec

-----------------------------------------------------------------------------
(* Detection                                                               *)

PodTypes ==
  {"CRASH_LOOP", "OOM_KILLED", "IMAGE_PULL_ERROR", "HIGH_RESTARTS", "POD_FAILED",
   "POD_PENDING_STUCK"}

\* Who owns the resource is known from the type and the resource.
Sighted(a) ==
  /\ a.severity \in Severities
  /\ a.type \in PodTypes => a.owner = Owner[a.resource]
  /\ a.type = "DEPLOYMENT_DEGRADED" => a.owner = a.resource
  /\ a.type \notin PodTypes \cup {"DEPLOYMENT_DEGRADED"} => a.owner = NoOwner

\* Each gauge has a type of its own and a severity.
GaugeSound(observer) ==
  \A g \in DOMAIN observer :
    /\ observer[g][1] \notin PodTypes \cup {"DEPLOYMENT_DEGRADED"}
    /\ observer[g][3] \in Severities \cup {None}

\* The seven observers of gauges.
LEMMA GaugesSound ==
  ASSUME NEW x
  PROVE  /\ GaugeSound(Metrics(x)) /\ GaugeSound(Trends(x)) /\ GaugeSound(Slo(x))
         /\ GaugeSound(Infrastructure(x)) /\ GaugeSound(NodeConditions(x))
         /\ GaugeSound(Capacity(x)) /\ GaugeSound(Certificates(x))
<1>1. ASSUME NEW warn, NEW worse, NEW low \in Severities, NEW high \in Severities
      PROVE  Grade(x, warn, worse, low, high) \in Severities \cup {None}
  BY DEF Grade
<1>2. /\ LOW \in Severities /\ MEDIUM \in Severities /\ HIGH \in Severities
      /\ CRITICAL \in Severities
  BY DEF Severities, LOW, MEDIUM, HIGH, CRITICAL
<1>3. Burned(x) \in Severities \cup {None} /\ Expiring(x) \in Severities \cup {None}
  BY <1>2 DEF Burned, Expiring
<1>4. GaugeSound(Metrics(x))
  BY <1>1, <1>2 DEF GaugeSound, Metrics, PodTypes
<1>5. GaugeSound(Trends(x))
  BY <1>1, <1>2 DEF GaugeSound, Trends, PodTypes
<1>6. GaugeSound(Slo(x))
  BY <1>3 DEF GaugeSound, Slo, PodTypes
<1>7. GaugeSound(Infrastructure(x))
  BY <1>1, <1>2 DEF GaugeSound, Infrastructure, PodTypes
<1>8. GaugeSound(NodeConditions(x))
  BY <1>1, <1>2 DEF GaugeSound, NodeConditions, PodTypes
<1>9. GaugeSound(Capacity(x))
  BY <1>1, <1>2 DEF GaugeSound, Capacity, PodTypes
<1>10. GaugeSound(Certificates(x))
  BY <1>3 DEF GaugeSound, Certificates, PodTypes
<1>11. QED
  BY <1>4, <1>5, <1>6, <1>7, <1>8, <1>9, <1>10

\* What a gauge shows has no owner.
LEMMA GaugeSighted ==
  ASSUME NEW x \in Readings, NEW a \in Gauges[x]
  PROVE  Sighted(a) /\ a.type \notin PodTypes
<1>1. PICK observer : GaugeSound(observer) /\ a \in Shown(observer, x)
  BY GaugesSound DEF Gauges
<1>2. PICK g \in DOMAIN observer :
        /\ observer[g][3] # None
        /\ a = Anomaly(observer[g][1], observer[g][3], observer[g][2], observer[g][2], NoOwner)
  BY <1>1 DEF Shown
<1>3. a.type = observer[g][1] /\ a.severity = observer[g][3] /\ a.owner = NoOwner
  BY <1>2 DEF Anomaly
<1>4. QED
  BY <1>1, <1>2, <1>3 DEF GaugeSound, Sighted

\* What is seen of a pod is its deployment's too; a restart is one since the baseline.
LEMMA PodSighted ==
  ASSUME NEW l \in Leaders, NEW p \in Pods, NEW a \in PodAnomalies(l, p)
  PROVE  /\ Sighted(a) /\ a.type \in PodTypes /\ a.resource = p
         /\ a.type = "HIGH_RESTARTS" => \E i \in 1..Containers[p] : RestartedAgain(l, p, i)
<1>1. PICK issue \in PhaseIssues(p) \cup UNION {ContainerIssues(l, p, i) : i \in 1..Containers[p]} :
        a = Anomaly(issue[1], issue[2], "Pod", p, Owner[p])
  BY DEF PodAnomalies
<1>2. /\ a.type = issue[1] /\ a.severity = issue[2] /\ a.resource = p
      /\ a.owner = Owner[p]
  BY <1>1 DEF Anomaly
<1>3. /\ MEDIUM \in Severities /\ HIGH \in Severities
  BY DEF Severities, LOW, MEDIUM, HIGH, CRITICAL
<1>4. CASE issue \in PhaseIssues(p)
  <2>1. issue \in {<<"POD_FAILED", HIGH>>, <<"POD_PENDING_STUCK", MEDIUM>>}
    BY <1>4 DEF PhaseIssues
  <2>2. issue[1] \in PodTypes /\ issue[1] # "HIGH_RESTARTS" /\ issue[2] \in Severities
    BY <1>3, <2>1 DEF PodTypes
  <2>3. a.type # "DEPLOYMENT_DEGRADED"
    BY <1>2, <2>2 DEF PodTypes
  <2>4. QED
    BY <1>2, <2>2, <2>3 DEF Sighted
<1>5. ASSUME NEW i \in 1..Containers[p], issue \in ContainerIssues(l, p, i)
      PROVE  /\ Sighted(a) /\ a.type \in PodTypes /\ a.resource = p
             /\ a.type = "HIGH_RESTARTS" => RestartedAgain(l, p, i)
  <2>1. \/ issue \in {<<"CRASH_LOOP", HIGH>>, <<"OOM_KILLED", HIGH>>, <<"IMAGE_PULL_ERROR", MEDIUM>>}
        \/ /\ issue \in {<<"HIGH_RESTARTS", MEDIUM>>, <<"HIGH_RESTARTS", HIGH>>}
           /\ RestartedAgain(l, p, i)
    BY <1>5 DEF ContainerIssues
  <2>2. /\ issue[1] \in PodTypes /\ issue[2] \in Severities
        /\ issue[1] = "HIGH_RESTARTS" => RestartedAgain(l, p, i)
    BY <1>3, <2>1 DEF PodTypes
  <2>3. a.type # "DEPLOYMENT_DEGRADED"
    BY <1>2, <2>2 DEF PodTypes
  <2>4. QED
    BY <1>2, <2>2, <2>3 DEF Sighted
<1>6. QED
  BY <1>1, <1>4, <1>5

\* A deployment that is degraded.
LEMMA DeploymentSighted ==
  ASSUME NEW o, NEW a \in DeploymentAnomalies(o)
  PROVE  Sighted(a) /\ a.type \notin PodTypes
<1>1. a.type = "DEPLOYMENT_DEGRADED" /\ a.owner = o /\ a.resource = o
      /\ a.severity \in {HIGH, CRITICAL}
  BY DEF DeploymentAnomalies, Anomaly
<1>2. QED
  BY <1>1 DEF Sighted, PodTypes, Severities, LOW, HIGH, CRITICAL

\* Each key keeps an anomaly that is as severe as any.
LEMMA DetectKeepsWorst ==
  ASSUME NEW anomalies, \A a \in anomalies : Sighted(a), NEW a \in anomalies
  PROVE  \E b \in Detect(anomalies) : IncidentKey(b) = IncidentKey(a) /\ a.severity <= b.severity
<1> DEFINE Same(s) == \E b \in anomalies : IncidentKey(b) = IncidentKey(a) /\ b.severity = s
<1>1. \A b \in anomalies : b.severity \in {0, 1, 2, 3}
  BY DEF Sighted, Severities, LOW, CRITICAL
<1>2. ASSUME NEW s \in {0, 1, 2, 3}, Same(s), \A r \in {0, 1, 2, 3} : Same(r) => r <= s
      PROVE  \E b \in Detect(anomalies) : IncidentKey(b) = IncidentKey(a) /\ a.severity <= b.severity
  <2>1. PICK b \in anomalies : IncidentKey(b) = IncidentKey(a) /\ b.severity = s
    BY <1>2
  <2>2. \A c \in anomalies : IncidentKey(c) = IncidentKey(a) => c.severity <= s
    BY <1>1, <1>2
  <2>3. b \in Detect(anomalies) /\ a.severity <= b.severity
    BY <2>1, <2>2 DEF Detect
  <2>4. QED
    BY <2>1, <2>3
<1>3. Same(0) \/ Same(1) \/ Same(2) \/ Same(3)
  BY <1>1
<1>4. CASE Same(3)
  BY <1>2, <1>4
<1>5. CASE Same(2) /\ ~Same(3)
  BY <1>2, <1>5
<1>6. CASE Same(1) /\ ~Same(2) /\ ~Same(3)
  BY <1>2, <1>6
<1>7. CASE Same(0) /\ ~Same(1) /\ ~Same(2) /\ ~Same(3)
  BY <1>2, <1>7
<1>8. QED
  BY <1>3, <1>4, <1>5, <1>6, <1>7

\* Whatever is seen is handed over, as severe as it is or worse.
LEMMA CorrelateKeepsAll ==
  ASSUME NEW anomalies, \A a \in anomalies : Sighted(a), NEW a \in anomalies
  PROVE  \E b \in Correlate(Detect(anomalies)) :
           /\ b.type = a.type
           /\ b.severity >= a.severity
           /\ b.resource = a.resource \/ (b.kind = "Deployment" /\ b.resource = a.owner)
<1>1. PICK d \in Detect(anomalies) : IncidentKey(d) = IncidentKey(a) /\ a.severity <= d.severity
  BY DetectKeepsWorst
<1>2. d \in anomalies /\ d.type = a.type /\ d.resource = a.resource
  BY <1>1 DEF Detect, IncidentKey
<1>3. /\ d.owner = a.owner
      /\ a.severity \in {0, 1, 2, 3} /\ d.severity \in {0, 1, 2, 3}
  BY <1>2 DEF Sighted, Severities, LOW, CRITICAL
<1>4. CASE Correlated(d, Detect(anomalies))
  <2>1. PICK b : b = Anomaly(d.type, CRITICAL, "Deployment", d.owner, d.owner)
    OBVIOUS
  <2>2. b \in Correlate(Detect(anomalies))
    BY <1>1, <1>4, <2>1 DEF Correlate
  <2>3. /\ b.type = a.type /\ b.severity = 3 /\ b.kind = "Deployment"
        /\ b.resource = a.owner
    BY <1>2, <1>3, <2>1 DEF Anomaly, CRITICAL
  <2>4. QED
    BY <1>3, <2>2, <2>3
<1>5. CASE ~Correlated(d, Detect(anomalies))
  <2>1. d \in Correlate(Detect(anomalies))
    BY <1>1, <1>5 DEF Correlate
  <2>2. QED
    BY <1>1, <1>2, <1>3, <2>1
<1>6. QED
  BY <1>4, <1>5

\* All that a run sees of the cluster.
LEMMA ObservedIsSighted ==
  ASSUME NEW l \in Leaders, Observe(l)
  PROVE  /\ \A a \in raw' : Sighted(a)
         /\ \A a \in raw' : a.type = "HIGH_RESTARTS" =>
              /\ a.resource \in Pods
              /\ \E i \in 1..Containers[a.resource] : RestartedAgain(l, a.resource, i)
         /\ \A a \in raw' : a.type = "HIGH_RESTARTS" =>
              baseline' = [baseline EXCEPT ![l] = [p \in Pods |-> NewBaseline(l, p)]]
<1>1. PICK listed \in BOOLEAN, x \in Readings :
        /\ raw' = Gauges[x] \cup
                  IF listed
                  THEN (UNION {PodAnomalies(l, p) : p \in Pods}) \cup
                       (UNION {DeploymentAnomalies(o) : o \in Owners})
                  ELSE {}
        /\ listed => baseline' = [baseline EXCEPT ![l] = [p \in Pods |-> NewBaseline(l, p)]]
  BY DEF Observe
<1>2. ASSUME NEW a \in raw'
      PROVE  /\ Sighted(a)
             /\ a.type = "HIGH_RESTARTS" =>
                  /\ listed /\ a.resource \in Pods
                  /\ \E i \in 1..Containers[a.resource] : RestartedAgain(l, a.resource, i)
  <2>1. CASE a \in Gauges[x]
    BY <2>1, GaugeSighted DEF PodTypes
  <2>2. CASE listed /\ \E p \in Pods : a \in PodAnomalies(l, p)
    BY <2>2, PodSighted
  <2>3. CASE \E o \in Owners : a \in DeploymentAnomalies(o)
    BY <2>3, DeploymentSighted DEF PodTypes
  <2>4. QED
    BY <1>1, <1>2, <2>1, <2>2, <2>3
<1>3. QED
  BY <1>1, <1>2

\* Whatever the observers see and however severe it is, the loop is given it, under its
\* name or that of its deployment: no deduplication or correlation loses it.
THEOREM DetectionLosesNothing == Spec => []NothingLost
<1>1. Init => NothingLost
  BY DEF Init, NothingLost
<1>2. NothingLost /\ [Next]_vars => NothingLost'
  <2>1. SUFFICES ASSUME NothingLost, [Next]_vars PROVE NothingLost'
    OBVIOUS
  <2>2. CASE \E l \in Leaders : Observe(l)
    <3>1. \A a \in raw' : Sighted(a)
      BY <2>2, ObservedIsSighted
    <3>2. result' = Correlate(Detect(raw'))
      BY <2>2 DEF Observe
    <3>3. QED
      BY <3>1, <3>2, CorrelateKeepsAll DEF NothingLost
  <2>3. CASE EndRun
    BY <2>3 DEF EndRun, NothingLost
  <2>4. CASE UNCHANGED <<raw, result>>
    BY <2>1, <2>4 DEF NothingLost
  <2>5. QED
    BY <2>1, <2>2, <2>3, <2>4 DEF Next, vars, ReplaceLeader, Fail, Replace, Restart, Recover
<1>3. QED
  BY <1>1, <1>2, PTL DEF Spec

\* The count of a pod with one container, and what a leader remembers of it.
Counts ==
  /\ restarts \in [Pods -> [{1} -> Nat]]
  /\ baseline \in [Leaders -> [Pods -> Int]]
  /\ alerted \in [Leaders -> SUBSET Pods]

\* Of a pod it has alerted on, a leader remembers no lower count.
Remembered(l, p) ==
  p \in alerted[l] => baseline[l][p] = Unknown \/ restarts[p][1] <= baseline[l][p]

CountsSound == Counts /\ \A l \in Leaders, p \in Pods : Remembered(l, p)

\* A leader that looks at a pod it has alerted on sees no restart since; what it alerts
\* on now it remembers.
LEMMA ObserveCounts ==
  ASSUME CountsSound, \A p \in Pods : Containers[p] = 1, NEW l \in Leaders, Observe(l)
  PROVE  /\ CountsSound'
         /\ \A p \in alerted[l] : \A a \in raw' : a.type = "HIGH_RESTARTS" => a.resource # p
<1>1. Counts /\ UNCHANGED restarts /\ Unknown = -1
  BY DEF CountsSound, Observe, cluster, Unknown
<1>2. ASSUME NEW p \in Pods
      PROVE  /\ RestartedAgain(l, p, 1) => /\ baseline[l][p] # Unknown
                                           /\ restarts[p][1] > baseline[l][p]
                                           /\ NewBaseline(l, p) = restarts[p][1]
             /\ NewBaseline(l, p) \in {baseline[l][p], restarts[p][1]}
  <2>1. Counting(p) = {} \/ Counting(p) = {1}
    BY DEF Counting
  <2>2. Last({1}) = 1
    BY DEF Last
  <2>3. NewBaseline(l, p) = IF Counting(p) = {} THEN baseline[l][p] ELSE restarts[p][1]
    BY <2>1, <2>2 DEF NewBaseline
  <2>4. LastCount(l, p, 1) = baseline[l][p]
    BY <2>1 DEF LastCount
  <2>5. CountsRestarts(p, 1) => Counting(p) # {}
    BY DEF Counting
  <2>6. QED
    BY <2>3, <2>4, <2>5 DEF RestartedAgain
<1>3. \A a \in raw' : a.type = "HIGH_RESTARTS" =>
        a.resource \in Pods /\ RestartedAgain(l, a.resource, 1)
  BY ObservedIsSighted
<1>4. \A p \in alerted[l] : \A a \in raw' : a.type = "HIGH_RESTARTS" => a.resource # p
  <2>1. SUFFICES ASSUME NEW p \in alerted[l], RestartedAgain(l, p, 1) PROVE FALSE
    BY <1>1, <1>3 DEF Counts
  <2>2. p \in Pods /\ Remembered(l, p) /\ baseline[l][p] \in Int /\ restarts[p][1] \in Nat
    BY <1>1 DEF CountsSound, Counts
  <2>3. QED
    BY <1>2, <2>1, <2>2 DEF Remembered
<1>5. /\ alerted' = [alerted EXCEPT ![l] = @ \cup
                       {p \in Pods : \E a \in raw' : a.type = "HIGH_RESTARTS" /\ a.resource = p}]
      /\ baseline' = [baseline EXCEPT ![l] = [p \in Pods |-> NewBaseline(l, p)]] \/ baseline' = baseline
  BY DEF Observe
<1>6. Counts'
  <2>1. [p \in Pods |-> NewBaseline(l, p)] \in [Pods -> Int]
    BY <1>1, <1>2 DEF Counts
  <2>2. baseline' \in [Leaders -> [Pods -> Int]]
    BY <1>1, <1>5, <2>1 DEF Counts
  <2>3. QED
    BY <1>1, <1>5, <2>2 DEF Counts
<1>7. ASSUME NEW k \in Leaders, NEW p \in Pods
      PROVE  Remembered(k, p)'
  <2>1. Remembered(k, p) /\ baseline[k][p] \in Int /\ restarts[p][1] \in Nat
    BY <1>1 DEF CountsSound, Counts
  <2>2. CASE k # l
    BY <1>1, <1>5, <2>1, <2>2 DEF Counts, Remembered
  <2>3. CASE k = l /\ p \in alerted[l]
    <3>1. baseline'[l][p] \in {baseline[l][p], restarts[p][1]}
      BY <1>1, <1>2, <1>5 DEF Counts
    <3>2. QED
      BY <1>1, <2>1, <2>3, <3>1 DEF Remembered
  <2>4. CASE k = l /\ p \notin alerted[l] /\ p \in alerted'[l]
    <3>1. PICK a \in raw' : a.type = "HIGH_RESTARTS" /\ a.resource = p
      BY <1>1, <1>5, <2>4 DEF Counts
    <3>2. /\ RestartedAgain(l, p, 1)
          /\ baseline' = [baseline EXCEPT ![l] = [q \in Pods |-> NewBaseline(l, q)]]
      BY <1>3, <3>1, ObservedIsSighted
    <3>3. baseline'[l][p] = restarts[p][1]
      BY <1>1, <1>2, <3>2 DEF Counts
    <3>4. QED
      BY <1>1, <2>1, <2>4, <3>3 DEF Remembered
  <2>5. QED
    BY <2>2, <2>3, <2>4 DEF Remembered
<1>8. QED
  BY <1>4, <1>6, <1>7 DEF CountsSound

\* What happens to the cluster, or to the memory of a leader.
LEMMA ChangeCounts ==
  ASSUME CountsSound, \A p \in Pods : Containers[p] = 1,
         \/ \E l \in Leaders : ReplaceLeader(l)
         \/ EndRun
         \/ \E evicted \in SUBSET Pods : Fail(evicted)
         \/ \E p \in Pods : \/ Replace(p)
                            \/ \E i \in 1..Containers[p] : Restart(p, i) \/ Recover(p, i)
  PROVE  CountsSound'
<1>1. Counts /\ Unknown \in Int
  BY DEF CountsSound, Unknown
<1>2. CASE UNCHANGED <<restarts, baseline, alerted>>
  BY <1>1, <1>2 DEF CountsSound, Counts, Remembered
<1>3. CASE \E l \in Leaders : ReplaceLeader(l)
  <2>1. PICK l \in Leaders : /\ baseline' = [baseline EXCEPT ![l] = [p \in Pods |-> Unknown]]
                             /\ UNCHANGED <<restarts, alerted>>
    BY <1>3 DEF ReplaceLeader, cluster
  <2>2. Counts'
    BY <1>1, <2>1 DEF Counts
  <2>3. ASSUME NEW k \in Leaders, NEW p \in Pods
        PROVE  baseline'[k][p] \in {Unknown, baseline[k][p]}
    BY <1>1, <2>1 DEF Counts
  <2>4. QED
    BY <2>1, <2>2, <2>3 DEF CountsSound, Remembered
<1>4. CASE \E p \in Pods : Replace(p)
  <2>1. PICK p \in Pods : /\ restarts' = [restarts EXCEPT ![p] = [i \in 1..Containers[p] |-> 0]]
                          /\ UNCHANGED <<baseline, alerted>>
    BY <1>4 DEF Replace
  <2>2. 1..Containers[p] = {1}
    OBVIOUS
  <2>3. restarts' = [restarts EXCEPT ![p] = [i \in {1} |-> 0]]
    BY <2>1, <2>2
  <2>4. Counts'
    BY <1>1, <2>1, <2>3 DEF Counts
  <2>5. ASSUME NEW k \in Leaders, NEW q \in Pods
        PROVE  Remembered(k, q)'
    <3>1. Remembered(k, q) /\ baseline[k][q] \in Int /\ restarts[q][1] \in Nat
      BY <1>1 DEF CountsSound, Counts
    <3>2. restarts'[q][1] \in {0, restarts[q][1]}
      BY <1>1, <2>3 DEF Counts
    <3>3. QED
      BY <2>1, <3>1, <3>2 DEF Remembered
  <2>6. QED
    BY <2>4, <2>5 DEF CountsSound
<1>5. CASE \E p \in Pods : \E i \in 1..Containers[p] : Restart(p, i)
  <2>1. PICK p \in Pods : /\ restarts' = [restarts EXCEPT ![p][1] = @ + 1]
                          /\ alerted' = [l \in Leaders |-> alerted[l] \ {p}]
                          /\ UNCHANGED baseline
    <3>1. PICK p \in Pods : \E i \in 1..Containers[p] : Restart(p, i)
      BY <1>5
    <3>2. 1..Containers[p] = {1}
      OBVIOUS
    <3>3. Restart(p, 1)
      BY <3>1, <3>2
    <3>4. QED
      BY <3>3 DEF Restart
  <2>2. /\ restarts' \in [Pods -> [{1} -> Nat]]
        /\ \A q \in Pods : q # p => restarts'[q] = restarts[q]
    BY <1>1, <2>1 DEF Counts
  <2>3. Counts'
    BY <1>1, <2>1, <2>2 DEF Counts
  <2>4. ASSUME NEW k \in Leaders, NEW q \in Pods
        PROVE  Remembered(k, q)'
    BY <2>1, <2>2 DEF CountsSound, Remembered
  <2>5. QED
    BY <2>3, <2>4 DEF CountsSound
<1>6. QED
  BY <1>2, <1>3, <1>4, <1>5 DEF EndRun, Fail, Recover, cluster

\* Between two alerts that a leader raises on the restarts of a pod there is a restart,
\* whatever other leaders, failed calls and replaced pods come between: for pods with
\* one container.
THEOREM AlertsMeanRestarts ==
  ASSUME \A p \in Pods : Containers[p] = 1
  PROVE  Spec => AlertMeansRestart
<1>1. Init => CountsSound
  <2>1. SUFFICES ASSUME Init PROVE CountsSound
    OBVIOUS
  <2>2. \A p \in Pods : 1..Containers[p] = {1}
    OBVIOUS
  <2>3. PICK n \in {4, 9} : restarts = [p \in Pods |-> [i \in 1..Containers[p] |-> n]]
    BY <2>1 DEF Init
  <2>4. restarts = [p \in Pods |-> [i \in {1} |-> n]]
    BY <2>2, <2>3
  <2>5. /\ baseline = [l \in Leaders |-> [p \in Pods |-> Unknown]]
        /\ alerted = [l \in Leaders |-> {}]
    BY <2>1 DEF Init
  <2>6. Unknown \in Int
    BY DEF Unknown
  <2>7. restarts \in [Pods -> [{1} -> Nat]]
    BY <2>4
  <2>8. Counts
    BY <2>5, <2>6, <2>7 DEF Counts
  <2>9. QED
    BY <2>5, <2>8 DEF CountsSound, Remembered
<1>2. CountsSound /\ [Next]_vars => CountsSound'
  <2>1. CountsSound /\ UNCHANGED vars => CountsSound'
    BY DEF vars, cluster, CountsSound, Counts, Remembered
  <2>2. QED
    BY <2>1, ObserveCounts, ChangeCounts DEF Next
<1>3. CountsSound /\ [Next]_vars =>
        [ \A l \in Leaders, p \in Pods : p \in alerted[l] /\ Observe(l) =>
            \A a \in raw' : a.type = "HIGH_RESTARTS" => a.resource # p ]_vars
  BY ObserveCounts
<1>4. QED
  BY <1>1, <1>2, <1>3, PTL DEF Spec, AlertMeansRestart

-----------------------------------------------------------------------------
(* The fixes of the manifests                                              *)

Numbered(lines) == \A n \in DOMAIN lines : lines[n] \in [key : STRING, number : Nat, dot : BOOLEAN]

\* What a patch of the CPU limit may lower.
WithDecimals(line) == line.key = "cpu" /\ line.dot

IsRaised(lines, patched) ==
  /\ DOMAIN patched = DOMAIN lines
  /\ Numbered(patched)
  /\ \A n \in DOMAIN lines :
       /\ patched[n].number >= lines[n].number \/ WithDecimals(lines[n])
       /\ WithDecimals(patched[n]) => WithDecimals(lines[n])

\* Where a patch puts larger numbers, it raises.
LEMMA ChangeRaises ==
  ASSUME NEW lines, Numbered(lines), NEW where, NEW new \in [Nat -> Nat],
         \A x \in Nat : new[x] >= x
  PROVE  IsRaised(lines, Manifests!Change(lines, where, new))
<1> DEFINE changed == Manifests!Change(lines, where, new)
<1>1. changed = [n \in DOMAIN lines |->
                   IF n \in where THEN [lines[n] EXCEPT !.number = new[lines[n].number]]
                   ELSE lines[n]]
  BY DEF Manifests!Change
<1>2. DOMAIN changed = DOMAIN lines
  BY <1>1
<1>3. ASSUME NEW n \in DOMAIN lines
      PROVE  /\ changed[n] \in [key : STRING, number : Nat, dot : BOOLEAN]
             /\ changed[n].number >= lines[n].number
             /\ changed[n].key = lines[n].key /\ changed[n].dot = lines[n].dot
  <2>1. lines[n] \in [key : STRING, number : Nat, dot : BOOLEAN]
    BY DEF Numbered
  <2>2. CASE n \in where
    <3>1. changed[n] = [lines[n] EXCEPT !.number = new[lines[n].number]]
      BY <1>1, <2>2
    <3>2. QED
      BY <2>1, <3>1
  <2>3. CASE n \notin where
    <3>1. changed[n] = lines[n]
      BY <1>1, <2>3
    <3>2. QED
      BY <2>1, <3>1
  <2>4. QED
    BY <2>2, <2>3
<1>4. QED
  BY <1>2, <1>3 DEF IsRaised, Numbered, WithDecimals

\* The CPU limits are raised but for those written with decimals.
LEMMA PatchCpuRaises ==
  ASSUME NEW lines, Numbered(lines)
  PROVE  IsRaised(lines, Manifests!PatchCpu(lines, 20))
<1> DEFINE patched == Manifests!PatchCpu(lines, 20)
           limits == Manifests!Under(lines, "limits", "cpu", {})
<1>1. patched = [n \in DOMAIN lines |->
                   IF n \in limits
                   THEN [lines[n] EXCEPT !.number = Manifests!Times(20)[Manifests!Matched(lines[n])],
                                         !.dot = FALSE]
                   ELSE lines[n]]
  BY DEF Manifests!PatchCpu
<1>2. DOMAIN patched = DOMAIN lines
  BY <1>1
<1>3. ASSUME NEW n \in DOMAIN lines
      PROVE  /\ patched[n] \in [key : STRING, number : Nat, dot : BOOLEAN]
             /\ patched[n].number >= lines[n].number \/ WithDecimals(lines[n])
             /\ WithDecimals(patched[n]) => WithDecimals(lines[n])
  <2>1. lines[n] \in [key : STRING, number : Nat, dot : BOOLEAN]
    BY DEF Numbered
  <2>2. CASE n \in limits
    <3>1. lines[n].key = "cpu"
      BY <2>2 DEF Manifests!Under
    <3>2. PICK matched \in Nat :
            (matched = Manifests!Matched(lines[n])) /\ (lines[n].dot \/ matched = lines[n].number)
      <4>1. lines[n].number \in Nat
        BY <2>1
      <4>2. Manifests!Matched(lines[n]) \in Nat
        BY <4>1 DEF Manifests!Matched
      <4>3. QED
        BY <4>2 DEF Manifests!Matched
    <3>3. PICK number \in Nat : number = Manifests!Times(20)[matched] /\ number >= matched
      BY DEF Manifests!Times
    <3>4. patched[n] = [lines[n] EXCEPT !.number = number, !.dot = FALSE]
      BY <1>1, <2>2, <3>2, <3>3
    <3>5. /\ patched[n] \in [key : STRING, number : Nat, dot : BOOLEAN]
          /\ patched[n].number = number /\ patched[n].dot = FALSE
      BY <2>1, <3>4
    <3>6. CASE lines[n].dot
      BY <3>1, <3>5, <3>6 DEF WithDecimals
    <3>7. CASE ~lines[n].dot
      <4>1. patched[n].number >= lines[n].number
        BY <3>2, <3>3, <3>5, <3>7
      <4>2. QED
        BY <3>5, <4>1 DEF WithDecimals
    <3>8. QED
      BY <3>6, <3>7
  <2>3. CASE n \notin limits
    <3>1. patched[n] = lines[n]
      BY <1>1, <2>3
    <3>2. QED
      BY <2>1, <3>1
  <2>4. QED
    BY <2>2, <2>3
<1>4. QED
  BY <1>2, <1>3 DEF IsRaised, Numbered

\* Every entry of the bug library raises numbers, but CPU limits with decimals, and
\* keeps the lines.
LEMMA PatchRaises ==
  ASSUME NEW issue \in Issues, NEW lines, Numbered(lines)
  PROVE  IsRaised(lines, Manifests!Patch(issue, lines))
<1>1. ASSUME NEW tenths \in {15, 20, 30}
      PROVE  /\ Manifests!Times(tenths) \in [Nat -> Nat]
             /\ \A x \in Nat : Manifests!Times(tenths)[x] >= x
  BY DEF Manifests!Times
<1>2. ASSUME NEW tenths \in {15, 20, 30}
      PROVE  IsRaised(lines, Manifests!PatchMemory(lines, tenths))
  BY <1>1, ChangeRaises DEF Manifests!PatchMemory
<1>3. ASSUME NEW raised, IsRaised(lines, raised)
      PROVE  IsRaised(lines, Manifests!PatchDelay(raised))
  <2> DEFINE later == [x \in Nat |-> x + 30]
  <2>1. later \in [Nat -> Nat] /\ \A x \in Nat : later[x] >= x
    OBVIOUS
  <2>2. Numbered(raised)
    BY <1>3 DEF IsRaised
  <2>3. IsRaised(raised, Manifests!PatchDelay(raised))
    BY <2>1, <2>2, ChangeRaises DEF Manifests!PatchDelay
  <2>4. QED
    BY <1>3, <2>3 DEF IsRaised, Numbered
<1>4. IsRaised(lines, Manifests!PatchDelay(Manifests!PatchMemory(lines, 15)))
  BY <1>2, <1>3
<1>5. issue \in {"OOM_KILLED", "DEPLOYMENT_DEGRADED", "CRASH_LOOP", "HIGH_MEMORY",
                 "MEMORY_LEAK_PREDICTED", "HIGH_RESTARTS", "HIGH_CPU"}
  BY ManifestAssumption
<1>6. Manifests!Patch(issue, lines) \in
        {Manifests!PatchMemory(lines, 30), Manifests!PatchMemory(lines, 20),
         Manifests!PatchDelay(Manifests!PatchMemory(lines, 15)), Manifests!PatchCpu(lines, 20)}
  BY <1>5 DEF Manifests!Patch
<1>7. QED
  BY <1>2, <1>4, <1>6, PatchCpuRaises

FixRecords ==
  [at : Manifests!Stages, resource : Resources \cup {none}, issue : Issues \cup {none},
   file : DOMAIN Layouts \cup {none}, readAt : Nat, forkedAt : Nat]

FixTypes ==
  /\ main = [file \in DOMAIN Layouts |-> main[file]]
  /\ \A file \in DOMAIN Layouts : Numbered(main[file])
  /\ commits \in [DOMAIN Layouts -> Nat]
  /\ fix \in [Fixes -> FixRecords]
  /\ copy = [f \in Fixes |-> copy[f]]
  /\ forked = [f \in Fixes |-> forked[f]]

\* What was read is what is there, as long as nothing was merged.
ReadNow(f) ==
  /\ fix[f].file \in DOMAIN Layouts
  /\ fix[f].readAt <= commits[fix[f].file]
  /\ Numbered(copy[f])
  /\ DOMAIN copy[f] = DOMAIN main[fix[f].file]
  /\ fix[f].readAt = commits[fix[f].file] => copy[f] = main[fix[f].file]

\* A branch and its commit: the patch of the branch, unless the file was read before.
Branched(f) ==
  /\ fix[f].file \in DOMAIN Layouts
  /\ fix[f].readAt <= fix[f].forkedAt
  /\ Numbered(copy[f]) /\ Numbered(forked[f])
  /\ DOMAIN copy[f] = DOMAIN main[fix[f].file]
  /\ DOMAIN forked[f] = DOMAIN main[fix[f].file]
  /\ fix[f].readAt = fix[f].forkedAt => IsRaised(forked[f], copy[f])

FixInv ==
  /\ FixTypes
  /\ \A f \in Fixes :
       /\ fix[f].at \in {"started", "read"} => fix[f].issue \in Issues /\ fix[f].resource \in Resources
       /\ fix[f].at = "read" => ReadNow(f)
       /\ fix[f].at \in {"branched", "open"} => Branched(f)

\* A step that only moves a fix to a stage with no more to keep.
LEMMA StageStep ==
  ASSUME FixInv, NEW f \in Fixes, NEW stage \in Manifests!Stages, Manifests!Goes(f, stage),
         UNCHANGED <<main, commits, copy, forked>>,
         \/ stage = "dropped"
         \/ stage = "open" /\ fix[f].at = "branched"
  PROVE  FixInv'
<1>1. fix' = [fix EXCEPT ![f] = [fix[f] EXCEPT !.at = stage]]
  BY DEF Manifests!Goes
<1>2. FixTypes'
  <2>1. [fix[f] EXCEPT !.at = stage] \in FixRecords
    BY DEF FixInv, FixTypes, FixRecords
  <2>2. fix' \in [Fixes -> FixRecords]
    BY <1>1, <2>1 DEF FixInv, FixTypes
  <2>3. QED
    BY <2>2 DEF FixInv, FixTypes, Numbered
<1>3. ASSUME NEW g \in Fixes
      PROVE  /\ fix'[g].at \in {"started", "read"} => fix'[g].issue \in Issues /\ fix'[g].resource \in Resources
             /\ fix'[g].at = "read" => ReadNow(g)'
             /\ fix'[g].at \in {"branched", "open"} => Branched(g)'
  <2>1. /\ fix'[g].issue = fix[g].issue /\ fix'[g].file = fix[g].file
        /\ fix'[g].resource = fix[g].resource
        /\ fix'[g].readAt = fix[g].readAt /\ fix'[g].forkedAt = fix[g].forkedAt
        /\ fix'[g].at = IF g = f THEN stage ELSE fix[g].at
    BY <1>1 DEF FixInv, FixTypes
  <2>2. /\ fix'[g].at \in {"started", "read"} => fix[g].at = fix'[g].at
        /\ fix'[g].at \in {"branched", "open"} => fix[g].at \in {"branched", "open"}
    BY <2>1
  <2>3. ReadNow(g) => ReadNow(g)'
    BY <2>1 DEF ReadNow, Numbered
  <2>4. Branched(g) => Branched(g)'
    BY <2>1 DEF Branched, Numbered, IsRaised
  <2>5. QED
    BY <2>1, <2>2, <2>3, <2>4 DEF FixInv
<1>4. QED
  BY <1>2, <1>3 DEF FixInv

\* The handoff and the two steps that read.
LEMMA ReadingStep ==
  ASSUME FixInv, NEW f \in Fixes,
         Manifests!Handoff(f) \/ Manifests!Read(f) \/ Manifests!CreateBranch(f)
  PROVE  FixInv'
<1>1. /\ main' = main /\ commits' = commits
      /\ \A g \in Fixes \ {f} : fix'[g] = fix[g] /\ copy'[g] = copy[g] /\ forked'[g] = forked[g]
  BY DEF FixInv, FixTypes, Manifests!Handoff, Manifests!Read, Manifests!CreateBranch, Manifests!Fork
<1>2. ASSUME NEW g \in Fixes \ {f}
      PROVE  /\ fix'[g].at \in {"started", "read"} => fix'[g].issue \in Issues /\ fix'[g].resource \in Resources
             /\ fix'[g].at = "read" => ReadNow(g)'
             /\ fix'[g].at \in {"branched", "open"} => Branched(g)'
  <2>1. fix'[g] = fix[g] /\ copy'[g] = copy[g] /\ forked'[g] = forked[g]
    BY <1>1
  <2>2. ReadNow(g) => ReadNow(g)'
    BY <1>1, <2>1 DEF ReadNow, Numbered
  <2>3. Branched(g) => Branched(g)'
    BY <1>1, <2>1 DEF Branched, Numbered, IsRaised
  <2>4. QED
    BY <2>1, <2>2, <2>3 DEF FixInv
<1>3. CASE Manifests!Handoff(f)
  <2>1. PICK r \in Resources, issue \in Issues :
          fix' = [fix EXCEPT ![f] = [fix[f] EXCEPT !.at = "started", !.resource = r, !.issue = issue]]
    <3>1. PICK r \in Resources, issue \in Issues :
            fix' = [fix EXCEPT ![f].at = "started", ![f].resource = r, ![f].issue = issue]
      BY <1>3 DEF Manifests!Handoff
    <3>2. fix' = [fix EXCEPT ![f] = [fix[f] EXCEPT !.at = "started", !.resource = r, !.issue = issue]]
      BY <3>1 DEF FixInv, FixTypes
    <3>3. QED
      BY <3>2
  <2>2. copy' = copy /\ forked' = forked
    BY <1>3 DEF Manifests!Handoff
  <2>3. "started" \in Manifests!Stages
    BY DEF Manifests!Stages
  <2>4. FixTypes'
    <3>1. [fix[f] EXCEPT !.at = "started", !.resource = r, !.issue = issue] \in FixRecords
      BY <2>3 DEF FixInv, FixTypes, FixRecords
    <3>2. fix' \in [Fixes -> FixRecords]
      BY <2>1, <3>1 DEF FixInv, FixTypes
    <3>3. QED
      BY <1>1, <2>2, <3>2 DEF FixInv, FixTypes, Numbered
  <2>5. fix'[f].at = "started" /\ fix'[f].issue = issue /\ fix'[f].resource = r
    BY <2>1 DEF FixInv, FixTypes
  <2>6. QED
    BY <1>2, <2>4, <2>5 DEF FixInv
<1>4. CASE Manifests!Read(f)
  <2>1. PICK file \in Manifests!ManifestsOf(fix[f].resource) \ {none} :
          /\ fix' = [fix EXCEPT ![f].at = "read", ![f].file = file, ![f].readAt = commits[file]]
          /\ copy' = [copy EXCEPT ![f] = main[file]]
    BY <1>4 DEF Manifests!Read, Manifests!OnMain
  <2>2. fix[f].issue \in Issues /\ fix[f].resource \in Resources /\ fix[f].at = "started"
    BY <1>4 DEF FixInv, Manifests!Read
  <2>3. file \in DOMAIN Layouts
    BY <2>1, <2>2, ManifestAssumption
  <2>4. fix' = [fix EXCEPT ![f] = [fix[f] EXCEPT !.at = "read", !.file = file, !.readAt = commits[file]]]
    BY <2>1 DEF FixInv, FixTypes
  <2>5. forked' = forked /\ "read" \in Manifests!Stages
    BY <1>4 DEF Manifests!Read, Manifests!Stages
  <2>6. FixTypes'
    <3>1. fix' \in [Fixes -> FixRecords]
      <4>1. [fix[f] EXCEPT !.at = "read", !.file = file, !.readAt = commits[file]] \in FixRecords
        <5>1. fix[f] \in FixRecords /\ commits[file] \in Nat
          BY <2>3 DEF FixInv, FixTypes
        <5>2. QED
          BY <2>3, <2>5, <5>1 DEF FixRecords
      <4>2. QED
        BY <2>4, <4>1 DEF FixInv, FixTypes
    <3>2. copy' = [g \in Fixes |-> copy'[g]]
      BY <2>1 DEF FixInv, FixTypes
    <3>3. QED
      BY <1>1, <2>5, <3>1, <3>2 DEF FixInv, FixTypes, Numbered
  <2>7. /\ fix'[f].at = "read" /\ fix'[f].issue = fix[f].issue /\ fix'[f].file = file
        /\ fix'[f].resource = fix[f].resource
        /\ fix'[f].readAt = commits[file] /\ copy'[f] = main[file]
    BY <2>1, <2>4 DEF FixInv, FixTypes
  <2>8. ReadNow(f)'
    BY <1>1, <2>3, <2>7 DEF FixInv, FixTypes, ReadNow, Numbered
  <2>9. QED
    BY <1>2, <2>2, <2>6, <2>7, <2>8 DEF FixInv
<1>5. CASE Manifests!CreateBranch(f)
  <2>1. /\ fix' = [fix EXCEPT ![f] = [fix[f] EXCEPT !.at = "branched", !.forkedAt = commits[fix[f].file]]]
        /\ copy' = [copy EXCEPT ![f] = Manifests!Patch(fix[f].issue, copy[f])]
        /\ forked' = [forked EXCEPT ![f] = main[fix[f].file]]
    BY <1>5 DEF FixInv, FixTypes, Manifests!CreateBranch, Manifests!Fork
  <2>2. fix[f].issue \in Issues /\ ReadNow(f) /\ "branched" \in Manifests!Stages
    BY <1>5 DEF FixInv, Manifests!CreateBranch, Manifests!Stages
  <2>3. FixTypes'
    <3>1. fix' \in [Fixes -> FixRecords]
      <4>1. [fix[f] EXCEPT !.at = "branched", !.forkedAt = commits[fix[f].file]] \in FixRecords
        BY <2>2 DEF FixInv, FixTypes, FixRecords, ReadNow
      <4>2. QED
        BY <2>1, <4>1 DEF FixInv, FixTypes
    <3>2. copy' = [g \in Fixes |-> copy'[g]] /\ forked' = [g \in Fixes |-> forked'[g]]
      BY <2>1 DEF FixInv, FixTypes
    <3>3. QED
      BY <1>1, <3>1, <3>2 DEF FixInv, FixTypes, Numbered
  <2>4. /\ fix'[f].at = "branched" /\ fix'[f].file = fix[f].file
        /\ fix'[f].readAt = fix[f].readAt /\ fix'[f].forkedAt = commits[fix[f].file]
        /\ forked'[f] = main[fix[f].file]
    BY <2>1 DEF FixInv, FixTypes
  <2>5. copy'[f] = Manifests!Patch(fix[f].issue, copy[f])
    BY <2>1 DEF FixInv, FixTypes
  <2>6. IsRaised(copy[f], copy'[f])
    <3>1. \A issue \in Issues : Numbered(copy[f]) => IsRaised(copy[f], Manifests!Patch(issue, copy[f]))
      BY PatchRaises
    <3>2. Numbered(copy[f])
      BY <2>2 DEF ReadNow
    <3>3. QED
      BY <2>2, <2>5, <3>1, <3>2
  <2>7. Branched(f)'
    <3>1. DOMAIN copy'[f] = DOMAIN copy[f] /\ Numbered(copy[f]')
      BY <2>6 DEF IsRaised, Numbered
    <3>2. Numbered(forked[f]')
      BY <2>2, <2>4 DEF FixInv, FixTypes, ReadNow
    <3>3. fix'[f].readAt = fix'[f].forkedAt => IsRaised(forked[f]', copy[f]')
      BY <2>2, <2>4, <2>6 DEF ReadNow
    <3>4. fix'[f].file \in DOMAIN Layouts /\ fix'[f].readAt <= fix'[f].forkedAt
      BY <2>2, <2>4 DEF ReadNow
    <3>5. DOMAIN copy'[f] = DOMAIN main'[fix'[f].file] /\ DOMAIN forked'[f] = DOMAIN main'[fix'[f].file]
      BY <1>1, <2>2, <2>4, <3>1 DEF ReadNow
    <3>6. QED
      BY <3>1, <3>2, <3>3, <3>4, <3>5 DEF Branched
  <2>8. QED
    BY <1>2, <2>3, <2>4, <2>7 DEF FixInv
<1>6. QED
  BY <1>3, <1>4, <1>5

\* The merge of two texts with the lines of their base.
LEMMA MergedLines ==
  ASSUME NEW forkPoint, NEW ours, NEW theirs, Numbered(ours), Numbered(theirs),
         DOMAIN ours = DOMAIN forkPoint, DOMAIN theirs = DOMAIN forkPoint
  PROVE  /\ DOMAIN Manifests!Merged(forkPoint, ours, theirs) = DOMAIN ours
         /\ Numbered(Manifests!Merged(forkPoint, ours, theirs))
         /\ IsRaised(forkPoint, theirs) /\ ~Manifests!Conflict(forkPoint, ours, theirs) =>
              \A n \in DOMAIN ours :
                \/ Manifests!Merged(forkPoint, ours, theirs)[n].number >= ours[n].number
                \/ WithDecimals(ours[n])
<1> DEFINE outcome == Manifests!Merged(forkPoint, ours, theirs)
<1>1. outcome = [n \in DOMAIN forkPoint |-> IF theirs[n] = forkPoint[n] THEN ours[n] ELSE theirs[n]]
  BY DEF Manifests!Merged
<1>2. DOMAIN outcome = DOMAIN forkPoint /\ \A n \in DOMAIN forkPoint : outcome[n] \in {ours[n], theirs[n]}
  BY <1>1
<1>3. Numbered(outcome)
  BY <1>2 DEF Numbered
<1>4. ASSUME IsRaised(forkPoint, theirs), ~Manifests!Conflict(forkPoint, ours, theirs), NEW n \in DOMAIN ours
      PROVE  outcome[n].number >= ours[n].number \/ WithDecimals(ours[n])
  <2>1. /\ ours[n].number \in Nat /\ n \in DOMAIN forkPoint
        /\ theirs[n].number >= forkPoint[n].number \/ WithDecimals(forkPoint[n])
    BY <1>4 DEF IsRaised, Numbered
  <2>2. CASE theirs[n] = forkPoint[n] \/ ours[n] = theirs[n]
    <3>1. outcome[n] = ours[n]
      BY <1>1, <2>1, <2>2
    <3>2. QED
      BY <2>1, <3>1
  <2>3. CASE theirs[n] # forkPoint[n] /\ ours[n] = forkPoint[n]
    <3>1. outcome[n] = theirs[n]
      BY <1>1, <2>1, <2>3
    <3>2. QED
      BY <2>1, <2>3, <3>1
  <2>4. QED
    BY <1>4, <2>1, <2>2, <2>3 DEF Manifests!Conflict
<1>5. QED
  BY <1>2, <1>3, <1>4

\* A merge.
LEMMA FixMergeStep ==
  ASSUME FixInv, NEW f \in Fixes, Manifests!Merge(f)
  PROVE  /\ FixInv'
         /\ \/ fix[f].readAt < fix[f].forkedAt
            \/ \A n \in DOMAIN main[fix[f].file] :
                 \/ main'[fix[f].file][n].number >= main[fix[f].file][n].number
                 \/ WithDecimals(main[fix[f].file][n])
<1>1. fix[f].at = "open" /\ Branched(f)
  BY DEF FixInv, Manifests!Merge
<1>2. PICK file \in DOMAIN Layouts : file = fix[f].file
  BY <1>1 DEF Branched
<1>2a. PICK forkPoint, theirs : forkPoint = forked[f] /\ theirs = copy[f]
  OBVIOUS
<1>3. /\ ~Manifests!Conflict(forkPoint, main[file], theirs)
      /\ main' = [main EXCEPT ![file] = Manifests!Merged(forkPoint, main[file], theirs)]
      /\ commits' = [commits EXCEPT ![file] = commits[file] + 1]
      /\ fix' = [fix EXCEPT ![f] = [fix[f] EXCEPT !.at = "merged"]]
      /\ copy' = copy /\ forked' = forked
  BY <1>2, <1>2a DEF FixInv, FixTypes, Manifests!Merge, Manifests!Goes
<1>4. PICK ours : ours = main[file]
  OBVIOUS
<1>5. /\ Numbered(ours) /\ Numbered(theirs) /\ DOMAIN ours = DOMAIN forkPoint /\ DOMAIN theirs = DOMAIN forkPoint
  BY <1>1, <1>2, <1>2a, <1>4 DEF FixInv, FixTypes, Branched
<1>6. PICK outcome : outcome = Manifests!Merged(forkPoint, ours, theirs)
  OBVIOUS
<1>7. /\ DOMAIN outcome = DOMAIN ours /\ Numbered(outcome)
      /\ IsRaised(forkPoint, theirs) =>
           \A n \in DOMAIN ours : outcome[n].number >= ours[n].number \/ WithDecimals(ours[n])
  BY <1>3, <1>4, <1>5, <1>6, MergedLines
<1>8. main'[file] = outcome /\ \A other \in DOMAIN Layouts \ {file} : main'[other] = main[other]
  BY <1>3, <1>4, <1>6 DEF FixInv, FixTypes
<1>9. FixTypes'
  <2>1. main' = [x \in DOMAIN Layouts |-> main'[x]]
    BY <1>3 DEF FixInv, FixTypes
  <2>2. \A x \in DOMAIN Layouts : Numbered(main[x]')
    BY <1>7, <1>8 DEF FixInv, FixTypes, Numbered
  <2>3. commits' \in [DOMAIN Layouts -> Nat]
    BY <1>3 DEF FixInv, FixTypes
  <2>4. fix' \in [Fixes -> FixRecords]
    <3>1. [fix[f] EXCEPT !.at = "merged"] \in FixRecords
      BY DEF FixInv, FixTypes, FixRecords, Manifests!Stages
    <3>2. QED
      BY <1>3, <3>1 DEF FixInv, FixTypes
  <2>5. QED
    BY <1>3, <2>1, <2>2, <2>3, <2>4 DEF FixInv, FixTypes
<1>10. \A x \in DOMAIN Layouts :
         /\ DOMAIN main'[x] = DOMAIN main[x] /\ commits[x] <= commits'[x]
         /\ commits'[x] = commits[x] => main'[x] = main[x]
  BY <1>3, <1>4, <1>7, <1>8 DEF FixInv, FixTypes
<1>11. ASSUME NEW g \in Fixes
       PROVE  /\ fix'[g].at \in {"started", "read"} => fix'[g].issue \in Issues /\ fix'[g].resource \in Resources
              /\ fix'[g].at = "read" => ReadNow(g)'
              /\ fix'[g].at \in {"branched", "open"} => Branched(g)'
  <2>1. CASE g = f
    <3>1. fix'[g].at = "merged"
      BY <1>3, <2>1 DEF FixInv, FixTypes
    <3>2. QED
      BY <3>1
  <2>2. CASE g # f
    <3>1. fix'[g] = fix[g] /\ copy'[g] = copy[g] /\ forked'[g] = forked[g]
      BY <1>3, <2>2 DEF FixInv, FixTypes
    <3>2. /\ fix[g].readAt \in Nat
          /\ \A x \in DOMAIN Layouts : commits[x] \in Nat /\ commits'[x] \in Nat
      <4>1. fix[g] \in FixRecords
        BY DEF FixInv, FixTypes
      <4>2. QED
        BY <1>9, <4>1 DEF FixInv, FixTypes, FixRecords
    <3>3. ReadNow(g) => ReadNow(g)'
      <4>1. SUFFICES ASSUME ReadNow(g) PROVE ReadNow(g)'
        OBVIOUS
      <4>2. PICK x \in DOMAIN Layouts : x = fix[g].file
        BY <4>1 DEF ReadNow
      <4>3. fix[g].readAt <= commits'[x]
        BY <1>10, <3>2, <4>1, <4>2 DEF ReadNow
      <4>4. fix[g].readAt = commits'[x] => commits'[x] = commits[x]
        BY <1>10, <3>2, <4>1, <4>2 DEF ReadNow
      <4>5. QED
        BY <1>10, <3>1, <4>1, <4>2, <4>3, <4>4 DEF ReadNow, Numbered
    <3>4. Branched(g) => Branched(g)'
      BY <1>10, <3>1 DEF Branched, Numbered, IsRaised
    <3>5. QED
      BY <3>1, <3>3, <3>4 DEF FixInv
  <2>3. QED
    BY <2>1, <2>2
<1>12. FixInv'
  BY <1>9, <1>11 DEF FixInv
<1>13. ASSUME ~(fix[f].readAt < fix[f].forkedAt), NEW n \in DOMAIN main[fix[f].file]
       PROVE  \/ main'[fix[f].file][n].number >= main[fix[f].file][n].number
              \/ WithDecimals(main[fix[f].file][n])
  <2>1. fix[f].readAt = fix[f].forkedAt
    <3>1. fix[f] \in FixRecords
      BY DEF FixInv, FixTypes
    <3>2. fix[f].readAt \in Nat /\ fix[f].forkedAt \in Nat /\ fix[f].readAt <= fix[f].forkedAt
      BY <1>1, <3>1 DEF FixRecords, Branched
    <3>3. QED
      BY <1>13, <3>2
  <2>2. IsRaised(forkPoint, theirs)
    BY <1>1, <1>2, <1>2a, <2>1 DEF Branched
  <2>3. QED
    BY <1>2, <1>2a, <1>4, <1>7, <1>8, <1>13, <2>2
<1>14. QED
  BY <1>12, <1>13

\* What a step promises of the merge that it may be.
RaisingMerge ==
  \A f \in Fixes : fix[f].at = "open" /\ fix'[f].at = "merged" =>
    \/ fix[f].readAt < fix[f].forkedAt
    \/ \A n \in DOMAIN main[fix[f].file] :
         \/ main'[fix[f].file][n].number >= main[fix[f].file][n].number
         \/ WithDecimals(main[fix[f].file][n])

\* Steps that leave the fixes and the files alone.
LEMMA FixesUnchanged ==
  ASSUME FixInv, UNCHANGED <<main, commits, fix, copy, forked>>
  PROVE  FixInv' /\ RaisingMerge
<1>1. FixTypes'
  BY DEF FixInv, FixTypes, Numbered
<1>2. \A f \in Fixes : (ReadNow(f) => ReadNow(f)') /\ (Branched(f) => Branched(f)')
  BY DEF ReadNow, Branched, Numbered, IsRaised
<1>3. QED
  BY <1>1, <1>2 DEF FixInv, RaisingMerge

\* However many fixes are on their way, and whatever they are read from and merged
\* into: a merge lowers a number only if its fix had read the file before another
\* merge and branched after it, or if it is a CPU limit written with decimals.
THEOREM MergesRaise == Manifests!Spec => LoweredForAReason
<1>1. Manifests!Init => FixInv
  <2>1. SUFFICES ASSUME Manifests!Init PROVE FixInv
    OBVIOUS
  <2>2. main = [file \in DOMAIN Layouts |-> main[file]]
    BY <2>1 DEF Manifests!Init, Manifests!Manifested
  <2>3. \A file \in DOMAIN Layouts : Numbered(main[file])
    BY <2>1, ManifestAssumption DEF Manifests!Init, Manifests!Manifested, Numbered
  <2>4. /\ commits \in [DOMAIN Layouts -> Nat]
        /\ \A f \in Fixes : fix[f].at = "new"
        /\ fix \in [Fixes -> FixRecords]
        /\ copy = [f \in Fixes |-> copy[f]] /\ forked = [f \in Fixes |-> forked[f]]
    BY <2>1 DEF Manifests!Init, Manifests!Manifested, Manifests!Stages, FixRecords
  <2>5. QED
    BY <2>2, <2>3, <2>4 DEF FixInv, FixTypes
<1>2. FixInv /\ [Manifests!Next]_(Manifests!vars) => FixInv' /\ RaisingMerge
  <2>1. SUFFICES ASSUME FixInv, [Manifests!Next]_(Manifests!vars)
                 PROVE  FixInv' /\ RaisingMerge
    OBVIOUS
  <2>2. CASE UNCHANGED Manifests!vars
    <3>1. UNCHANGED <<main, commits, fix, copy, forked>>
      BY <2>2 DEF Manifests!vars
    <3>2. QED
      BY <2>1, <3>1, FixesUnchanged
  <2>3. CASE Manifests!Expire
    <3>1. UNCHANGED <<main, commits, fix, copy, forked>>
      BY <2>3 DEF Manifests!Expire
    <3>2. QED
      BY <2>1, <3>1, FixesUnchanged
  <2>4. ASSUME NEW f \in Fixes,
               Manifests!Handoff(f) \/ Manifests!Read(f) \/ Manifests!CreateBranch(f)
        PROVE  FixInv' /\ RaisingMerge
    <3>1. FixInv'
      BY <2>1, <2>4, ReadingStep
    <3>2. \A g \in Fixes : fix[g].at = "open" => fix'[g].at = "open"
      BY <2>1, <2>4 DEF FixInv, FixTypes, Manifests!Handoff, Manifests!Read, Manifests!CreateBranch
    <3>3. QED
      BY <3>1, <3>2 DEF RaisingMerge
  <2>5. ASSUME NEW f \in Fixes,
               \/ Manifests!AskOperator(f) \/ Manifests!CommitAndCreatePR(f)
               \/ Manifests!FixFails(f) \/ Manifests!Decline(f)
        PROVE  FixInv' /\ RaisingMerge
    <3>1. PICK stage \in {"dropped", "open"} :
            /\ Manifests!Goes(f, stage)
            /\ stage = "open" => fix[f].at = "branched"
      BY <2>5 DEF Manifests!AskOperator, Manifests!CommitAndCreatePR, Manifests!FixFails,
        Manifests!Decline
    <3>2. UNCHANGED <<main, commits, copy, forked>> /\ stage \in Manifests!Stages
      BY <2>5 DEF Manifests!AskOperator, Manifests!CommitAndCreatePR, Manifests!FixFails,
        Manifests!Decline, Manifests!Stages
    <3>3. FixInv'
      BY <2>1, <3>1, <3>2, StageStep
    <3>4. \A g \in Fixes : fix[g].at = "open" => fix'[g].at # "merged"
      BY <2>1, <3>1 DEF FixInv, FixTypes, FixRecords, Manifests!Goes
    <3>5. QED
      BY <3>3, <3>4 DEF RaisingMerge
  <2>6. ASSUME NEW f \in Fixes, Manifests!Merge(f)
        PROVE  FixInv' /\ RaisingMerge
    <3>1. \A g \in Fixes \ {f} : fix[g].at = "open" => fix'[g].at # "merged"
      BY <2>1, <2>6 DEF FixInv, FixTypes, Manifests!Merge, Manifests!Goes
    <3>2. QED
      BY <2>1, <2>6, <3>1, FixMergeStep DEF RaisingMerge
  <2>7. QED
    BY <2>1, <2>2, <2>3, <2>4, <2>5, <2>6 DEF Manifests!Next
<1>3. FixInv /\ [Manifests!Next]_(Manifests!vars) => [RaisingMerge]_(Manifests!vars)
  BY <1>2
<1>4. QED
  BY <1>1, <1>2, <1>3, PTL DEF Manifests!Spec, LoweredForAReason,
    Manifests!LoweredForAReason, RaisingMerge, WithDecimals

-----------------------------------------------------------------------------
(* The components together                                                 *)

\* Whichever component a behaviour of MCAgents is one of, it keeps what each of them
\* promises.
THEOREM AgentsKeepTheirPromises ==
  ASSUME Registering < Sleep, \A p \in Pods : Containers[p] = 1
  PROVE  AllSpec => /\ []NothingLost /\ AlertMeansRestart
                    /\ LoweredForAReason
                    /\ NothingReverted /\ []ReportedIsThere
                    /\ []ActsOnMeant
                    /\ []VerdictIsFresh
<1>1. AllInit => Init /\ Code!Init /\ Choice!Init /\ Tests!Init /\ Manifests!Init
  BY DEF AllInit
<1>2. [AllNext]_<<part, vars, tasks, answers, tests, fixes>> =>
        /\ [Next]_vars /\ [Code!Next]_(Code!vars) /\ [Choice!Next]_(Choice!vars)
        /\ [Tests!Next]_(Tests!vars) /\ [Manifests!Next]_(Manifests!vars)
  <2>1. SUFFICES ASSUME [AllNext]_<<part, vars, tasks, answers, tests, fixes>>
                 PROVE  /\ [Next]_vars /\ [Code!Next]_(Code!vars) /\ [Choice!Next]_(Choice!vars)
                        /\ [Tests!Next]_(Tests!vars) /\ [Manifests!Next]_(Manifests!vars)
    OBVIOUS
  <2>2. Next \/ UNCHANGED vars
    BY <2>1 DEF AllNext, DetectionNext, TasksNext, AnswersNext, TestsNext, ManifestsNext
  <2>3. Code!Next \/ UNCHANGED tasks
    BY <2>1 DEF AllNext, DetectionNext, TasksNext, AnswersNext, TestsNext, ManifestsNext
  <2>4. Choice!Next \/ UNCHANGED answers
    BY <2>1 DEF AllNext, DetectionNext, TasksNext, AnswersNext, TestsNext, ManifestsNext
  <2>5. Tests!Next \/ UNCHANGED tests
    BY <2>1 DEF AllNext, DetectionNext, TasksNext, AnswersNext, TestsNext, ManifestsNext
  <2>6. Manifests!Next \/ UNCHANGED fixes
    BY <2>1 DEF AllNext, DetectionNext, TasksNext, AnswersNext, TestsNext, ManifestsNext
  <2>7. UNCHANGED tasks => UNCHANGED Code!vars
    BY DEF tasks, Code!vars, Code!github
  <2>8. UNCHANGED answers => UNCHANGED Choice!vars
    BY DEF answers, Choice!vars, Choice!camael, Choice!history
  <2>9. UNCHANGED tests => UNCHANGED Tests!vars
    BY DEF tests, Tests!vars
  <2>10. UNCHANGED fixes => UNCHANGED Manifests!vars
    BY DEF fixes, Manifests!vars
  <2>11. QED
    BY <2>2, <2>3, <2>4, <2>5, <2>6, <2>7, <2>8, <2>9, <2>10
<1>3. AllSpec => Spec /\ Code!Spec /\ Choice!Spec /\ Tests!Spec /\ Manifests!Spec
  BY <1>1, <1>2, PTL DEF AllSpec, Spec, Code!Spec, Choice!Spec, Tests!Spec, Manifests!Spec
<1>4. Tests!Spec => []VerdictIsFresh
  BY VerdictsAreFresh
<1>5. Spec => AlertMeansRestart
  BY AlertsMeanRestarts
<1>6. QED
  BY <1>3, <1>4, <1>5, DetectionLosesNothing, MergesRaise, MergesRevertNothing, ReportsStayTrue,
    AnswersActOnMeant, PTL
=============================================================================
