----------------------------- MODULE PartsProofs -----------------------------
(***************************************************************************)
(* What the parts of MCParts keep for any values of their constants: the   *)
(* breaker of the SRE loop, however the status endpoint and the runs       *)
(* interleave, the breaker of the chat services, whatever commands of its  *)
(* callers come between, what the SRE agent learns from its restarts, and  *)
(* the runbooks that the pods leave to one another.                        *)
(***************************************************************************)
EXTENDS MCParts, Sequences, FiniteSetTheorems, TLAPS

(* The breaker of the SRE loop                                             *)

\* The settings are numbers, and one failing run at least opens the breaker.
LEMMA ConstantTypes == Threshold \in Nat /\ Threshold > 0 /\ ResetSeconds \in Nat
BY BreakerAssumption

\* A step of the loop's thread or of a reading leaves the others where they are.
LEMMA ThreadMoves ==
  ASSUME TypeOK, NEW t \in Threads, NEW label, Goto(t, label)
  PROVE  at'[t] = label /\ \A u \in Threads \ {t} : at'[u] = at[u]
BY DEF TypeOK, Goto

\* Every thread is at a statement it can be at after a step.
LEMMA ThreadTypes ==
  ASSUME TypeOK, NEW t \in Threads,
         NEW label \in Reading \cup {"away", "answer", "run", "open", "stamp"},
         t = Loop \/ label \in Reading \cup {"away"}, Goto(t, label)
  PROVE  /\ at' \in [Threads -> Reading \cup {"away", "answer", "run", "open", "stamp"}]
         /\ \A r \in Readers : at'[r] \in Reading \cup {"away"}
<1>1. at' = [at EXCEPT ![t] = label]
  BY DEF Goto
<1>2. at' \in [Threads -> Reading \cup {"away", "answer", "run", "open", "stamp"}]
  BY <1>1 DEF TypeOK
<1>3. ASSUME NEW r \in Readers PROVE at'[r] \in Reading \cup {"away"}
  BY <1>1, <1>3, BreakerAssumption DEF TypeOK, Threads
<1>4. QED
  BY <1>2, <1>3

\* Firing, reading, ending and recording a run leave the breaker with a state,
\* counters and threads of their types.
THEOREM TypeCorrect == Spec => []TypeOK
<1> USE ConstantTypes DEF Long
<1>1. Init => TypeOK
  BY BreakerAssumption DEF Init, TypeOK, Threads
<1>2. TypeOK /\ [Next]_vars => TypeOK'
  <2> SUFFICES ASSUME TypeOK, [Next]_vars
               PROVE  TypeOK'
    OBVIOUS
  <2> DEFINE AtTypes == /\ at' \in [Threads -> Reading \cup {"away", "answer", "run", "open", "stamp"}]
                        /\ \A r \in Readers : at'[r] \in Reading \cup {"away"}
  <2>1. ASSUME NEW t \in Threads, Ask(t) PROVE TypeOK'
    <3>1. CASE state = "OPEN"
      <4>1. AtTypes
        BY <2>1, <3>1, ThreadTypes DEF Ask, Reading
      <4>2. early' \subseteq Readers
        <5>1. at[Loop] = "stamp" => t # Loop
          BY <2>1 DEF Ask
        <5>2. QED
          BY <2>1, <5>1 DEF Ask, TypeOK, Threads
      <4>3. QED
        BY <2>1, <4>1, <4>2 DEF Ask, TypeOK
    <3>2. CASE state # "OPEN"
      <4>1. AtTypes
        BY <2>1, <3>2, ThreadTypes DEF Ask, Answered
      <4>2. QED
        BY <2>1, <3>2, <4>1 DEF Ask, TypeOK
    <3>3. QED
      BY <3>1, <3>2
  <2>2. ASSUME NEW t \in Threads, Age(t) PROVE TypeOK'
    <3>1. AtTypes
      BY <2>2, ThreadTypes DEF Age, Reading
    <3>2. QED
      BY <2>2, <3>1 DEF Age, TypeOK
  <2>3. ASSUME NEW t \in Threads, Move(t) PROVE TypeOK'
    <3>1. AtTypes
      BY <2>3, ThreadTypes DEF Move, Answered
    <3>2. QED
      BY <2>3, <3>1 DEF Move, TypeOK
  <2>4. CASE Answer
    <3>1. AtTypes
      BY <2>4, ThreadTypes DEF Answer, Threads
    <3>2. QED
      BY <2>4, <3>1 DEF Answer, TypeOK
  <2>5. CASE LeaveUnrecorded
    <3>1. AtTypes
      BY <2>5, ThreadTypes DEF LeaveUnrecorded, Threads
    <3>2. QED
      BY <2>5, <3>1 DEF LeaveUnrecorded, TypeOK
  <2>6. CASE RecordSuccess
    <3>1. AtTypes
      BY <2>6, ThreadTypes DEF RecordSuccess, Threads
    <3>2. QED
      BY <2>6, <3>1 DEF RecordSuccess, TypeOK
  <2>7. CASE RecordFailure
    <3>1. AtTypes
      BY <2>7, ThreadTypes DEF RecordFailure, Threads
    <3>2. QED
      BY <2>7, <3>1 DEF RecordFailure, Bump, TypeOK
  <2>8. CASE Open
    <3>1. AtTypes
      BY <2>8, ThreadTypes DEF Open, Threads
    <3>2. QED
      BY <2>8, <3>1 DEF Open, TypeOK
  <2>9. CASE Stamp
    <3>1. AtTypes
      BY <2>9, ThreadTypes DEF Stamp, Threads
    <3>2. QED
      BY <2>9, <3>1 DEF Stamp, TypeOK
  <2>10. CASE Tick
    BY <2>10 DEF Tick, Bump, TypeOK
  <2>11. CASE UNCHANGED vars
    BY <2>11 DEF vars, TypeOK
  <2>12. QED
    BY <2>1, <2>2, <2>3, <2>4, <2>5, <2>6, <2>7, <2>8, <2>9, <2>10, <2>11
       DEF Next, Fire, ReadStatus, Finish, Threads
<1>3. QED
  BY <1>1, <1>2, PTL DEF Spec

-----------------------------------------------------------------------------
\* record_success and record_failure keep the count of the code the count of
\* failing runs in a row; only the loop opens, and no run goes on meanwhile.
CountsTheStreak ==
  /\ failures = streak
  /\ at[Loop] = "open" => streak = Threshold
  /\ at[Loop] = "stamp" => state # "CLOSED"
  /\ state = "OPEN" => streak = Threshold /\ at[Loop] \notin {"run", "open"}

\* The counts and the openings stay in step.
LEMMA CountsStep == TypeOK /\ CountsTheStreak /\ [Next]_vars => CountsTheStreak'
<1> SUFFICES ASSUME TypeOK, CountsTheStreak, [Next]_vars
             PROVE  CountsTheStreak'
  OBVIOUS
<1> USE ConstantTypes
<1>1. ASSUME NEW r \in Readers, ReadStatus(r)
      PROVE  at'[Loop] = at[Loop] /\ failures' = failures /\ streak' = streak
             /\ state' \in {state, "HALF_OPEN"}
  <2>1. \E label : Goto(r, label)
    BY <1>1 DEF ReadStatus, Ask, Age, Move
  <2>2. at'[Loop] = at[Loop]
    BY <2>1, BreakerAssumption, ThreadMoves DEF Threads
  <2>3. QED
    BY <1>1, <2>2 DEF ReadStatus, Ask, Age, Move
<1>2. CASE Fire
  <2>1. Loop \in Threads
    BY DEF Threads
  <2>2. CASE Ask(Loop)
    BY <2>1, <2>2, ThreadMoves DEF Ask, Answered, CountsTheStreak
  <2>3. CASE Age(Loop)
    BY <2>1, <2>3, ThreadMoves DEF Age, CountsTheStreak
  <2>4. CASE Move(Loop)
    BY <2>1, <2>4, ThreadMoves DEF Move, Answered, CountsTheStreak
  <2>5. CASE Answer
    BY <2>1, <2>5, ThreadMoves DEF Answer, CountsTheStreak
  <2>6. QED
    BY <1>2, <2>2, <2>3, <2>4, <2>5 DEF Fire
<1>3. CASE Finish
  <2>1. Loop \in Threads
    BY DEF Threads
  <2>2. CASE LeaveUnrecorded
    BY <2>1, <2>2, ThreadMoves DEF LeaveUnrecorded, CountsTheStreak
  <2>3. CASE RecordSuccess
    BY <2>1, <2>3, ThreadMoves DEF RecordSuccess, CountsTheStreak
  <2>4. CASE RecordFailure
    <3>1. failures' = streak' /\ (failures' >= Threshold => streak' = Threshold)
      BY <2>4 DEF RecordFailure, CountsTheStreak, Bump, TypeOK
    <3>2. at'[Loop] \in {"open", "away"} /\ (at'[Loop] = "open" => failures' >= Threshold)
      BY <2>1, <2>4, ThreadMoves DEF RecordFailure
    <3>3. state' # "OPEN"
      BY <2>4 DEF RecordFailure, CountsTheStreak
    <3>4. QED
      BY <3>1, <3>2, <3>3 DEF CountsTheStreak
  <2>5. CASE Open
    BY <2>1, <2>5, ThreadMoves DEF Open, CountsTheStreak
  <2>6. CASE Stamp
    BY <2>1, <2>6, ThreadMoves DEF Stamp, CountsTheStreak
  <2>7. QED
    BY <1>3, <2>2, <2>3, <2>4, <2>5, <2>6 DEF Finish
<1>4. CASE Tick \/ UNCHANGED vars
  BY <1>4 DEF Tick, vars, CountsTheStreak
<1>5. CASE \E r \in Readers : ReadStatus(r)
  BY <1>1, <1>5 DEF CountsTheStreak
<1>6. QED
  BY <1>2, <1>3, <1>4, <1>5 DEF Next

\* The loop is cut only by Threshold failing runs in a row, whatever reads the
\* state in between, however late, and whatever runs record nothing.
THEOREM OnlyAStreakCuts == Spec => []CutsOnlyAStreak
<1>1. Init => CountsTheStreak
  BY BreakerAssumption DEF Init, CountsTheStreak, Threads
<1>2. CountsTheStreak => CutsOnlyAStreak
  BY DEF CountsTheStreak, CutsOnlyAStreak
<1>3. QED
  BY <1>1, <1>2, CountsStep, TypeCorrect, PTL DEF Spec

-----------------------------------------------------------------------------
\* While the breaker is OPEN with its new time, _opened_at is no older than the
\* last failing run, and whoever is about to move it found the reset time over,
\* but for the early readings: those under way before it had its new time.
PauseHolds ==
  /\ state = "OPEN" =>
       /\ at[Loop] # "stamp" => openedAge <= lastFail
       /\ at[Loop] = "stamp" => \A r \in Readers \ early : at[r] = "away"
       /\ \A t \in Threads \ early : at[t] = "move" => lastFail > ResetSeconds
  /\ at[Loop] = "open" => state # "OPEN"

\* A step of one thread, which does not change the state, adds to nobody's
\* readings but its own.
LEMMA PauseThread ==
  ASSUME TypeOK, PauseHolds, NEW t \in Threads, NEW label, Goto(t, label),
         UNCHANGED <<state, openedAge, lastFail>>, early \subseteq early',
         label \notin {"stamp", "open"}, at[Loop] = "stamp" => t # Loop,
         state = "OPEN" /\ at[Loop] = "stamp" /\ t \notin early' => label = "away",
         state = "OPEN" /\ label = "move" /\ t \notin early' => lastFail > ResetSeconds
  PROVE  PauseHolds'
<1>1. at'[t] = label /\ \A u \in Threads \ {t} : at'[u] = at[u]
  BY ThreadMoves
<1>2. Loop \in Threads /\ Readers \subseteq Threads
  BY DEF Threads
<1>3. at'[Loop] = "stamp" <=> at[Loop] = "stamp"
  BY <1>1, <1>2
<1>4. at'[Loop] = "open" => at[Loop] = "open"
  BY <1>1, <1>2
<1>5. ASSUME state = "OPEN", at[Loop] = "stamp", NEW r \in Readers \ early'
      PROVE  at'[r] = "away"
  BY <1>1, <1>2, <1>5 DEF PauseHolds
<1>6. ASSUME state = "OPEN", NEW u \in Threads \ early', at'[u] = "move"
      PROVE  lastFail > ResetSeconds
  BY <1>1, <1>6 DEF PauseHolds
<1>7. QED
  BY <1>3, <1>4, <1>5, <1>6 DEF PauseHolds

\* The end of a pause is the reset time or an early reading, after every step.
LEMMA PauseStep ==
  TypeOK /\ CountsTheStreak /\ PauseHolds /\ [Next]_vars => PauseHolds'
<1> SUFFICES ASSUME TypeOK, CountsTheStreak, PauseHolds, [Next]_vars
             PROVE  PauseHolds'
  OBVIOUS
<1> USE ConstantTypes
<1>0. Loop \in Threads /\ Loop \notin Readers /\ Readers \subseteq Threads
  BY BreakerAssumption DEF Threads
<1>1. ASSUME NEW t \in Threads, Ask(t) PROVE PauseHolds'
  <2>1. PICK label : /\ Goto(t, label) /\ label \in {"age", "run", "away"}
                     /\ state = "OPEN" => label = "age"
    BY <1>1 DEF Ask, Answered
  <2>2. at[Loop] = "stamp" => t # Loop
    BY <1>1 DEF Ask
  <2>3. state = "OPEN" /\ at[Loop] = "stamp" => t \in early'
    BY <1>1 DEF Ask
  <2>4. early \subseteq early' /\ UNCHANGED <<state, openedAge, lastFail>>
    BY <1>1 DEF Ask
  <2>5. QED
    BY <2>1, <2>2, <2>3, <2>4, PauseThread
<1>2. ASSUME NEW t \in Threads, Age(t) PROVE PauseHolds'
  <2>1. PICK label : /\ Goto(t, label) /\ label \in {"move", "answer", "away"}
                     /\ label = "move" => openedAge > ResetSeconds
    BY <1>2 DEF Age
  <2>2. at[Loop] = "stamp" => t # Loop
    BY <1>2 DEF Age
  <2>3. state = "OPEN" /\ at[Loop] = "stamp" => t \in early
    BY <1>2, <2>2 DEF Age, PauseHolds, Threads
  <2>4. early' = early /\ UNCHANGED <<state, openedAge, lastFail>>
    BY <1>2 DEF Age
  <2>5. state = "OPEN" /\ label = "move" /\ t \notin early => lastFail > ResetSeconds
    BY <2>1, <2>3 DEF PauseHolds, TypeOK, Long
  <2>6. QED
    BY <2>1, <2>2, <2>3, <2>4, <2>5, PauseThread
<1>3. ASSUME NEW t \in Threads, Move(t) PROVE PauseHolds'
  <2>1. state' = "HALF_OPEN"
    BY <1>3 DEF Move
  <2>2. at'[Loop] # "open" \/ state' # "OPEN"
    BY <2>1
  <2>3. QED
    BY <2>1 DEF PauseHolds
<1>4. CASE Answer
  <2>1. PICK label : Goto(Loop, label) /\ label \in {"away", "run"}
    BY <1>4 DEF Answer
  <2>2. at[Loop] = "answer" /\ UNCHANGED <<state, openedAge, lastFail, early>>
    BY <1>4 DEF Answer
  <2>3. QED
    BY <1>0, <2>1, <2>2, PauseThread
<1>5. CASE LeaveUnrecorded \/ RecordSuccess \/ RecordFailure
  <2>1. state' # "OPEN"
    BY <1>5 DEF LeaveUnrecorded, RecordSuccess, RecordFailure, CountsTheStreak
  <2>2. QED
    BY <2>1 DEF PauseHolds
<1>6. CASE Open
  <2>1. at'[Loop] = "stamp" /\ \A r \in Readers : at'[r] = at[r]
    BY <1>0, <1>6, ThreadMoves DEF Open
  <2>2. early' = {r \in Readers : at[r] # "away"}
    BY <1>6 DEF Open
  <2>3. QED
    BY <2>1, <2>2 DEF PauseHolds, Threads
<1>7. CASE Stamp
  <2>1. at'[Loop] = "away" /\ \A r \in Readers : at'[r] = at[r]
    BY <1>0, <1>7, ThreadMoves DEF Stamp
  <2>2. openedAge' = 0 /\ UNCHANGED <<state, lastFail, early>> /\ at[Loop] = "stamp"
    BY <1>7 DEF Stamp
  <2>3. lastFail' >= 0
    BY <2>2 DEF TypeOK, Long
  <2>4. QED
    BY <2>1, <2>2, <2>3 DEF PauseHolds, Threads
<1>8. CASE Tick
  <2>1. UNCHANGED <<state, at, early>>
    BY <1>8 DEF Tick
  <2>2. openedAge <= lastFail => openedAge' <= lastFail'
    BY <1>8 DEF Tick, Bump, TypeOK, Long
  <2>3. lastFail > ResetSeconds => lastFail' > ResetSeconds
    BY <1>8 DEF Tick, Bump, TypeOK, Long
  <2>4. QED
    BY <2>1, <2>2, <2>3 DEF PauseHolds
<1>9. CASE UNCHANGED vars
  BY <1>9 DEF vars, PauseHolds
<1>10. QED
  BY <1>0, <1>1, <1>2, <1>3, <1>4, <1>5, <1>6, <1>7, <1>8, <1>9
     DEF Next, Fire, ReadStatus, Finish

\* Before the reset time is over neither a run starts nor does the breaker leave
\* OPEN, but for a reading that was under way while it was opened: whatever
\* get_loop_state does later shortens no pause.
THEOREM PauseLasts == Spec => PauseIsKept
<1> DEFINE Kept ==
      state = "OPEN" /\ (state' # "OPEN" \/ at'[Loop] = "run") =>
        \/ lastFail > ResetSeconds
        \/ \E r \in early : at[r] = "move" /\ at'[r] = "away"
<1>1. Init => CountsTheStreak /\ PauseHolds
  BY BreakerAssumption DEF Init, CountsTheStreak, PauseHolds, Threads
<1>2. TypeOK /\ CountsTheStreak /\ PauseHolds /\ [Next]_vars => [Kept]_vars
  <2> SUFFICES ASSUME TypeOK, CountsTheStreak, PauseHolds, [Next]_vars, state = "OPEN",
                      state' # "OPEN" \/ at'[Loop] = "run"
               PROVE  \/ lastFail > ResetSeconds
                      \/ \E r \in early : at[r] = "move" /\ at'[r] = "away"
    OBVIOUS
  <2>1. Loop \in Threads /\ Loop \notin Readers /\ Readers \subseteq Threads
    BY BreakerAssumption DEF Threads
  <2>2. at[Loop] \notin {"run", "open"}
    BY DEF CountsTheStreak
  <2>3. ASSUME NEW t \in Threads, Move(t)
        PROVE  \/ lastFail > ResetSeconds
               \/ \E r \in early : at[r] = "move" /\ at'[r] = "away"
    <3>1. CASE t \in early
      <4>1. t \in Readers
        BY <3>1 DEF TypeOK
      <4>2. at'[t] = "away" /\ at[t] = "move"
        BY <2>1, <2>3, <4>1, ThreadMoves DEF Move, Answered
      <4>3. QED
        BY <3>1, <4>2
    <3>2. CASE t \notin early
      BY <2>3, <3>2 DEF PauseHolds, Move
    <3>3. QED
      BY <3>1, <3>2
  <2>4. ASSUME NEW t \in Threads, Ask(t) \/ Age(t)
        PROVE  FALSE
    <3>1. PICK label : Goto(t, label) /\ label # "run"
      BY <2>4 DEF Ask, Age
    <3>2. at'[Loop] # "run"
      BY <2>1, <2>2, <3>1, ThreadMoves
    <3>3. state' = state
      BY <2>4 DEF Ask, Age
    <3>4. QED
      BY <3>2, <3>3
  <2>5. ~Answer
    BY <2>1, ThreadMoves DEF Answer
  <2>6. ~LeaveUnrecorded /\ ~RecordSuccess /\ ~RecordFailure /\ ~Open
    BY <2>2 DEF LeaveUnrecorded, RecordSuccess, RecordFailure, Open
  <2>7. ~Stamp
    BY <2>1, ThreadMoves DEF Stamp
  <2>8. ~Tick /\ ~UNCHANGED vars
    BY <2>2 DEF Tick, vars
  <2>9. QED
    BY <2>1, <2>3, <2>4, <2>5, <2>6, <2>7, <2>8 DEF Next, Fire, ReadStatus, Finish
<1>3. QED
  BY <1>1, <1>2, CountsStep, PauseStep, TypeCorrect, PTL DEF Spec, PauseIsKept

-----------------------------------------------------------------------------
(* The breaker of the chat services                                        *)

\* Where a caller may be that began after the opening, or that made it.
Harmless == {"idle", "check", "checkOpenedAt", "setOpenedAt", "expireState"}

Paused == sState = "open" /\ sOpenedAge \in 0..Recovery - 1

\* During a pause every other caller is one that began before.
PauseSound ==
  /\ sPc \in [Callers -> Service!Commands \cup {"idle"}]
  /\ Paused => \A c \in Callers \ older : sPc[c] \in Harmless

\* A step of a caller that does not begin a pause.
LEMMA CallerStep ==
  ASSUME PauseSound, NEW c \in Callers, NEW label \in Service!Commands \cup {"idle"},
         sPc' = [sPc EXCEPT ![c] = label], Paused' => Paused,
         older' \in {older, older \cup {c}, older \ {c}},
         Paused' => label \in Harmless \/ c \in older'
  PROVE  PauseSound'
BY DEF PauseSound

\* A step of a caller that may begin a pause: whoever uses the breaker is older.
LEMMA OpeningStep ==
  ASSUME PauseSound, NEW c \in Callers, NEW label \in Harmless,
         sPc' = [sPc EXCEPT ![c] = label], Service!Busy \ {c} \subseteq older'
  PROVE  PauseSound'
BY DEF PauseSound, Service!Busy, Service!Commands, Harmless

\* The use of the breaker by one caller, command by command.
LEMMA UseStep ==
  ASSUME PauseSound, NEW c \in Callers,
         Service!Begin(c) \/ Service!Step(c) \/ Service!CommandFails(c) \/ Service!CallerDies(c)
  PROVE  /\ PauseSound'
         /\ Paused /\ sState' # "open" => c \in older
         /\ \A d \in Callers : d # c => sPc'[d] = sPc[d]
<1> USE DEF Service!Goto, Service!Commands, Harmless
<1>1. Recovery \in Nat
  BY ServiceAssumption
<1>2. PICK label \in Service!Commands \cup {"idle"} : sPc' = [sPc EXCEPT ![c] = label]
  <2>1. CASE Service!Begin(c) \/ Service!CommandFails(c) \/ Service!CallerDies(c)
    BY <2>1 DEF Service!Begin, Service!CommandFails, Service!CallerDies
  <2>2. CASE Service!IsOpen(c) \/ Service!Call(c)
    BY <2>2 DEF Service!IsOpen, Service!CheckState, Service!CheckOpenedAt, Service!SetHalfOpen,
      Service!Call, Service!CallSucceeds, Service!CallFails
  <2>3. CASE Service!RecordSuccess(c)
    BY <2>3 DEF Service!RecordSuccess, Service!ReadForSuccess, Service!SetClosed,
      Service!DeleteBoth, Service!ClearFailures
  <2>4. CASE Service!RecordFailure(c)
    BY <2>4 DEF Service!RecordFailure, Service!Incr, Service!ExpireFailures, Service!SetOpen,
      Service!SetOpenedAt, Service!ExpireState
  <2>5. QED
    BY <2>1, <2>2, <2>3, <2>4 DEF Service!Step
<1>3. \A d \in Callers : d # c => sPc'[d] = sPc[d]
  BY <1>2 DEF PauseSound
<1>4. Paused => sPc[c] \in Harmless \/ c \in older
  BY DEF PauseSound
<1>5. CASE Service!SetOpen(c)
  <2>1. sPc' = [sPc EXCEPT ![c] = "setOpenedAt"] /\ older' = Service!Busy \ {c} /\ sState' = "open"
    BY <1>5 DEF Service!SetOpen
  <2>2. PauseSound'
    BY <2>1, OpeningStep
  <2>3. QED
    BY <1>3, <2>1, <2>2
<1>6. CASE Service!SetOpenedAt(c)
  <2>1. /\ sPc' = [sPc EXCEPT ![c] = "expireState"] /\ sState' = sState
        /\ Service!Busy \ {c} \subseteq older'
    BY <1>6 DEF Service!SetOpenedAt
  <2>2. PauseSound'
    BY <2>1, OpeningStep
  <2>3. QED
    BY <1>3, <2>1, <2>2 DEF Paused
<1>7. CASE Service!Begin(c)
  <2>1. /\ sPc' = [sPc EXCEPT ![c] = "check"] /\ older' = older \ {c}
        /\ UNCHANGED <<sState, sOpenedAge>>
    BY <1>7 DEF Service!Begin, Service!keys
  <2>2. PauseSound'
    BY <2>1, CallerStep DEF Paused
  <2>3. QED
    BY <1>3, <2>1, <2>2 DEF Paused
<1>8. CASE Service!CommandFails(c)
  <2>1. older' = (IF sPc[c] \in {"check", "checkOpenedAt", "setHalfOpen"} THEN older \cup {c} ELSE older)
    BY <1>8 DEF Service!CommandFails
  <2>2. UNCHANGED <<sState, sOpenedAge>>
    BY <1>8 DEF Service!CommandFails, Service!keys
  <2>3. sPc' = [sPc EXCEPT ![c] = CASE sPc[c] \in {"check", "checkOpenedAt", "setHalfOpen"} -> "call"
                                    [] sPc[c] = "readState" -> "clearFailures"
                                    [] OTHER -> "idle"]
    BY <1>8 DEF Service!CommandFails
  <2>4. Paused' => c \in older' \/ sPc'[c] = "idle"
    BY <1>4, <2>1, <2>2, <2>3 DEF Paused, PauseSound
  <2>5. sPc'[c] = label
    BY <1>2 DEF PauseSound
  <2>6. PauseSound'
    BY <1>2, <2>1, <2>2, <2>4, <2>5, CallerStep DEF Paused
  <2>7. QED
    BY <1>3, <2>2, <2>6 DEF Paused
<1>9. CASE Service!CallerDies(c)
  <2>1. sPc' = [sPc EXCEPT ![c] = "idle"] /\ UNCHANGED <<sState, sOpenedAge, older>>
    BY <1>9 DEF Service!CallerDies, Service!keys
  <2>2. PauseSound'
    BY <2>1, CallerStep DEF Paused
  <2>3. QED
    BY <1>3, <2>1, <2>2 DEF Paused
<1>10. CASE Service!IsOpen(c)
  <2>1. UNCHANGED <<sOpenedAge, older>>
    BY <1>10 DEF Service!IsOpen, Service!CheckState, Service!CheckOpenedAt, Service!SetHalfOpen,
      Service!keys
  <2>2. sState' = sState \/ (sState' = "half_open" /\ sPc[c] = "setHalfOpen")
    BY <1>10 DEF Service!IsOpen, Service!CheckState, Service!CheckOpenedAt, Service!SetHalfOpen,
      Service!keys
  <2>3. Paused' => c \in older \/ sPc'[c] \in {"checkOpenedAt", "idle"}
    BY <1>1, <1>4, <1>10, <2>1 DEF Service!IsOpen, Service!CheckState, Service!CheckOpenedAt,
      Service!SetHalfOpen, Service!keys, Paused, PauseSound
  <2>4. sPc'[c] = label
    BY <1>2 DEF PauseSound
  <2>5. PauseSound'
    <3>1. Paused' => Paused
      BY <2>1, <2>2 DEF Paused
    <3>2. QED
      BY <1>2, <2>1, <2>3, <2>4, <3>1, CallerStep
  <2>6. Paused /\ sState' # "open" => c \in older
    BY <1>4, <2>2 DEF Paused
  <2>7. QED
    BY <1>3, <2>5, <2>6
<1>11. CASE Service!Call(c) \/ Service!RecordSuccess(c)
  <2>1. older' = older /\ (Paused' => Paused) /\ sPc[c] \notin Harmless
    BY <1>11 DEF Service!Call, Service!CallSucceeds, Service!CallFails, Service!RecordSuccess,
      Service!ReadForSuccess, Service!SetClosed, Service!DeleteBoth, Service!ClearFailures,
      Service!keys, Service!NoKey, Paused
  <2>2. PauseSound'
    BY <1>2, <1>4, <2>1, CallerStep
  <2>3. QED
    BY <1>3, <1>4, <2>1, <2>2
<1>12. CASE Service!Incr(c) \/ Service!ExpireFailures(c) \/ Service!ExpireState(c)
  <2>1. UNCHANGED <<older, sState, sOpenedAge>>
    BY <1>12 DEF Service!Incr, Service!ExpireFailures, Service!ExpireState
  <2>2. sPc[c] \in Harmless => sPc'[c] = "idle"
    BY <1>12 DEF Service!Incr, Service!ExpireFailures, Service!ExpireState, PauseSound
  <2>3. sPc'[c] = label
    BY <1>2 DEF PauseSound
  <2>4. PauseSound'
    <3>1. Paused' <=> Paused
      BY <2>1 DEF Paused
    <3>2. label \in Harmless \/ c \in older \/ ~Paused
      BY <1>4, <2>2, <2>3
    <3>3. QED
      BY <1>2, <2>1, <3>1, <3>2, CallerStep
  <2>5. QED
    BY <1>3, <2>1, <2>4 DEF Paused
<1>13. QED
  BY <1>3, <1>5, <1>6, <1>7, <1>8, <1>9, <1>10, <1>11, <1>12
    DEF Service!Step, Service!RecordFailure, Service!SetOpen, Service!SetOpenedAt, Service!Begin,
      Service!keys

\* A pause passes, or the key of the state expires.
LEMMA ServiceTickStep ==
  ASSUME PauseSound, Service!Tick
  PROVE  PauseSound' /\ UNCHANGED sPc
<1>1. /\ UNCHANGED <<sPc, older>> /\ sState' \in {"closed", sState}
      /\ sOpenedAge' = IF sOpenedAge \in 0..Recovery - 1 THEN sOpenedAge + 1 ELSE sOpenedAge
  BY DEF Service!Tick
<1>2. Paused' => Paused
  BY <1>1 DEF Paused
<1>3. QED
  BY <1>1, <1>2 DEF PauseSound

\* However many callers use the breaker at once, whatever commands fail and whoever
\* stalls or dies: during a pause only a use that began before it ends it.
THEOREM OnlyOlderUsesEndPauses == Service!Spec => PauseEndsByOlderUse
<1>1. Service!Init => PauseSound
  BY DEF Service!Init, PauseSound, Paused
<1>2. PauseSound /\ [Service!Next]_(Service!vars) =>
        /\ PauseSound'
        /\ [ \A c \in Callers :
               sState = "open" /\ sState' # "open" /\ sOpenedAge \in 0..Recovery - 1
                 /\ sPc'[c] # sPc[c]
               => c \in older ]_(Service!vars)
  <2>1. SUFFICES ASSUME PauseSound, [Service!Next]_(Service!vars)
                 PROVE  /\ PauseSound'
                        /\ \A c \in Callers :
                             Paused /\ sState' # "open" /\ sPc'[c] # sPc[c] => c \in older
    BY DEF Paused
  <2>2. CASE \E c \in Callers : \/ Service!Begin(c) \/ Service!Step(c)
                                \/ Service!CommandFails(c) \/ Service!CallerDies(c)
    BY <2>1, <2>2, UseStep
  <2>3. CASE Service!Tick
    BY <2>1, <2>3, ServiceTickStep
  <2>4. CASE UNCHANGED Service!vars
    BY <2>1, <2>4 DEF Service!vars, Service!keys, PauseSound, Paused
  <2>5. QED
    BY <2>1, <2>2, <2>3, <2>4 DEF Service!Next
<1>3. QED
  BY <1>1, <1>2, PTL DEF Service!Spec, PauseEndsByOlderUse, Service!PauseEndsByOlderUse

-----------------------------------------------------------------------------
(* What the SRE agent learns from its restarts                             *)

\* The rows in their order, and the confidence of the incident that is handled.
Learned ==
  /\ order \in Seq(Keys)
  /\ pc = "history" => conf \in LLM \cup {Fallback}
  /\ pc = "decide" => conf \in Int
  /\ pc = "decide" /\ basis = "useless" => conf < Confident
  /\ pc = "act" => basis # "useless"

LearnedOfKey == Learned /\ key \in Keys

\* The rows that the confidence counts are finitely many.
LEMMA RecentIsFinite ==
  ASSUME order \in Seq(Keys)
  PROVE  IsFiniteSet(Remedy!Recent)
<1> DEFINE tried == {i \in DOMAIN order : order[i] \in Remedy!Tried}
           last == {j \in tried : Remedy!Cardinality({n \in tried : n > j}) < Remedy!HistoryLimit}
           row == [i \in last |-> order[i]]
<1>1. IsFiniteSet(1..Len(order))
  <2>1. Len(order) \in Nat
    OBVIOUS
  <2>2. QED
    BY <2>1, FS_Interval
<1>2. last \subseteq 1..Len(order)
  OBVIOUS
<1>3. IsFiniteSet(last)
  BY <1>1, <1>2, FS_Subset
<1>4. row \in Surjection(last, {row[i] : i \in last})
  BY DEF Surjection
<1>5. IsFiniteSet({row[i] : i \in last})
  BY <1>3, <1>4, FS_Surjection
<1>6. Remedy!Recent = {row[i] : i \in last}
  BY DEF Remedy!Recent
<1>7. QED
  BY <1>5, <1>6

\* Without a success the LLM alone, even a sure one, is not worth a restart.
LEMMA UselessIsDoubted ==
  ASSUME NEW c \in LLM \cup {Fallback}, NEW total \in Nat \ {0}
  PROVE  Remedy!Blend(c, 0, total) < Confident
<1>1. c \in 0..100 /\ Confident \in 71..100
  BY RemedyAssumption
<1>2. (100 * 0) \div total = 0
  OBVIOUS
<1>3. Remedy!Blend(c, 0, total) = (70 * c) \div 100
  BY <1>1, <1>2 DEF Remedy!Blend
<1>4. QED
  BY <1>1, <1>3

\* The history is read.
LEMMA AdjustStep ==
  ASSUME Learned, Remedy!AdjustConfidence
  PROVE  Learned'
<1>1. /\ order' = order /\ order \in Seq(Keys) /\ pc' = "decide" /\ conf \in LLM \cup {Fallback}
      /\ conf' = IF Remedy!Recent = {} THEN conf
                 ELSE Remedy!Blend(conf, Remedy!Cardinality(Remedy!Successes),
                                   Remedy!Cardinality(Remedy!Recent))
      /\ basis' = IF Remedy!Recent = {} THEN "unknown"
                  ELSE IF Remedy!Successes = {} THEN "useless" ELSE "helped"
  BY DEF Learned, Remedy!AdjustConfidence, Remedy!table
<1>0. conf \in 0..100
  BY <1>1, RemedyAssumption
<1>2. ASSUME basis' = "useless"
      PROVE  conf' < Confident
  <2>1. Remedy!Recent # {} /\ Remedy!Successes = {}
    BY <1>1, <1>2
  <2>2. IsFiniteSet(Remedy!Recent)
    BY <1>1, RecentIsFinite
  <2>3. Cardinality(Remedy!Recent) \in Nat \ {0} /\ Cardinality(Remedy!Successes) = 0
    BY <2>1, <2>2, FS_EmptySet, FS_CardinalityType
  <2>4. /\ Remedy!Cardinality(Remedy!Recent) = Cardinality(Remedy!Recent)
        /\ Remedy!Cardinality(Remedy!Successes) = Cardinality(Remedy!Successes)
    BY DEF Remedy!Cardinality, Cardinality
  <2>5. conf' = Remedy!Blend(conf, 0, Cardinality(Remedy!Recent))
    BY <1>1, <2>1, <2>3, <2>4
  <2>6. QED
    BY <1>1, <2>3, <2>5, UselessIsDoubted
<1>3. conf' \in Int
  <2>1. CASE Remedy!Recent = {}
    BY <1>0, <1>1, <2>1
  <2>2. CASE Remedy!Recent # {}
    <3>1. IsFiniteSet(Remedy!Recent)
      BY <1>1, RecentIsFinite
    <3>2. Remedy!Successes \subseteq Remedy!Recent
      BY DEF Remedy!Successes
    <3>3. IsFiniteSet(Remedy!Successes)
      BY <3>1, <3>2, FS_Subset
    <3>4. Cardinality(Remedy!Recent) \in Nat \ {0} /\ Cardinality(Remedy!Successes) \in Nat
      BY <2>2, <3>1, <3>3, FS_EmptySet, FS_CardinalityType
    <3>5. /\ Remedy!Cardinality(Remedy!Recent) = Cardinality(Remedy!Recent)
          /\ Remedy!Cardinality(Remedy!Successes) = Cardinality(Remedy!Successes)
      BY DEF Remedy!Cardinality, Cardinality
    <3>6. ASSUME NEW c \in 0..100, NEW successes \in Nat, NEW total \in Nat \ {0}
          PROVE  Remedy!Blend(c, successes, total) \in Int
      BY DEF Remedy!Blend
    <3>7. QED
      BY <1>0, <1>1, <2>2, <3>4, <3>5, <3>6
  <2>3. QED
    BY <2>1, <2>2
<1>4. QED
  BY <1>1, <1>2, <1>3 DEF Learned

\* A row is added for the incident that is handled.
LEMMA StoreStep ==
  ASSUME order \in Seq(Keys), key \in Keys, NEW row, Remedy!Store(row)
  PROVE  order' \in Seq(Keys)
BY DEF Remedy!Store, Remedy!Insert, Remedy!table

\* The other steps of the run.
LEMMA HandlingStep ==
  ASSUME Learned, key \in Keys,
         \/ Remedy!Diagnose \/ Remedy!HistoryFails \/ Remedy!DecideNotify
         \/ Remedy!DecideRestart \/ Remedy!Restart \/ Remedy!RestartRefused
  PROVE  Learned'
<1>1. order' \in Seq(Keys)
  <2>1. CASE Remedy!Diagnose \/ Remedy!HistoryFails \/ Remedy!DecideRestart
    BY <2>1 DEF Learned, Remedy!Diagnose, Remedy!HistoryFails, Remedy!DecideRestart, Remedy!table
  <2>2. CASE Remedy!DecideNotify \/ Remedy!Restart \/ Remedy!RestartRefused
    BY <2>2, StoreStep DEF Learned, Remedy!DecideNotify, Remedy!Restart, Remedy!RestartRefused
  <2>3. QED
    BY <2>1, <2>2
<1>2. CASE Remedy!Diagnose \/ Remedy!HistoryFails
  <2>1. pc = "history" => conf \in Int
    <3>1. SUFFICES ASSUME pc = "history" PROVE conf \in Int
      OBVIOUS
    <3>2. conf \in LLM \cup {Fallback}
      BY <3>1 DEF Learned
    <3>3. QED
      BY <3>2, RemedyAssumption
  <2>2. pc' = "history" => conf' \in LLM \cup {Fallback}
    BY <1>2 DEF Remedy!Diagnose, Remedy!HistoryFails
  <2>3. pc' = "decide" => conf' \in Int /\ basis' = "unknown"
    BY <1>2, <2>1 DEF Remedy!Diagnose, Remedy!HistoryFails
  <2>4. pc' \in {"history", "decide"}
    BY <1>2 DEF Remedy!Diagnose, Remedy!HistoryFails
  <2>5. QED
    BY <1>1, <2>2, <2>3, <2>4 DEF Learned
<1>3. CASE Remedy!DecideNotify \/ Remedy!Restart \/ Remedy!RestartRefused
  BY <1>1, <1>3 DEF Learned, Remedy!DecideNotify, Remedy!Restart, Remedy!RestartRefused
<1>4. CASE Remedy!DecideRestart
  <2>1. pc = "decide" /\ pc' = "act" /\ conf >= Confident /\ basis' = basis
    BY <1>4 DEF Remedy!DecideRestart
  <2>2. basis # "useless"
    <3>1. SUFFICES ASSUME basis = "useless" PROVE FALSE
      OBVIOUS
    <3>2. conf < Confident /\ conf \in Int /\ Confident \in Int
      BY <2>1, <3>1, RemedyAssumption DEF Learned
    <3>3. QED
      BY <2>1, <3>2
  <2>3. QED
    BY <1>1, <2>1, <2>2 DEF Learned
<1>5. QED
  BY <1>2, <1>3, <1>4

\* The cluster, new incidents and the verifications.
LEMMA AroundStep ==
  ASSUME Learned,
         \/ Remedy!Deploy \/ Remedy!Disturb \/ Remedy!Age
         \/ \E k \in Keys :
              \/ Remedy!Incident(k) \/ Remedy!VerifyHealthy(k) \/ Remedy!VerifyLater(k)
              \/ Remedy!VerifyRollback(k) \/ Remedy!VerifyUnresolved(k)
  PROVE  Learned'
<1>1. order' = order
  BY DEF Remedy!Deploy, Remedy!Disturb, Remedy!Age, Remedy!Incident, Remedy!VerifyHealthy,
    Remedy!VerifyLater, Remedy!VerifyRollback, Remedy!VerifyUnresolved, Remedy!Verdict, Remedy!table
<1>2. UNCHANGED <<pc, conf, basis>> \/ pc' = "diagnose"
  BY DEF Remedy!Deploy, Remedy!Disturb, Remedy!Age, Remedy!Incident, Remedy!VerifyHealthy,
    Remedy!VerifyLater, Remedy!VerifyRollback, Remedy!VerifyUnresolved, Remedy!loop
<1>3. QED
  BY <1>1, <1>2 DEF Learned

\* However sure the LLM is and whatever is deployed, verified and lost meanwhile: an
\* issue that no recorded restart has helped is not answered by another one.
THEOREM UselessRestartsEnd == Remedy!Spec => []UselessRestartsStop
<1>1. Remedy!Init => LearnedOfKey
  <2>1. <<>> \in Seq(Keys)
    OBVIOUS
  <2>2. QED
    BY <2>1 DEF Remedy!Init, Learned, LearnedOfKey
<1>2. LearnedOfKey /\ [Remedy!Next]_(Remedy!vars) => LearnedOfKey'
  <2>1. SUFFICES ASSUME Learned, key \in Keys, [Remedy!Next]_(Remedy!vars)
                 PROVE  Learned' /\ key' \in Keys
    BY DEF LearnedOfKey
  <2>2. key' \in Keys
    BY <2>1 DEF Remedy!Next, Remedy!Deploy, Remedy!Disturb, Remedy!Age, Remedy!Incident,
      Remedy!VerifyHealthy, Remedy!VerifyLater, Remedy!VerifyRollback, Remedy!VerifyUnresolved,
      Remedy!Diagnose, Remedy!AdjustConfidence, Remedy!HistoryFails, Remedy!DecideNotify,
      Remedy!DecideRestart, Remedy!Restart, Remedy!RestartRefused, Remedy!loop, Remedy!vars
  <2>3. CASE UNCHANGED Remedy!vars
    <3>1. Learned'
      BY <2>1, <2>3 DEF Learned, Remedy!vars, Remedy!table, Remedy!loop
    <3>2. QED
      BY <2>2, <3>1
  <2>4. CASE Remedy!Next
    <3>1. Learned'
      BY <2>1, <2>4, AdjustStep, HandlingStep, AroundStep DEF Remedy!Next
    <3>2. QED
      BY <2>2, <3>1
  <2>5. QED
    BY <2>1, <2>3, <2>4
<1>3. LearnedOfKey => UselessRestartsStop
  BY DEF LearnedOfKey, Learned, UselessRestartsStop, Remedy!UselessRestartsStop
<1>4. QED
  BY <1>1, <1>2, <1>3, PTL DEF Remedy!Spec

-----------------------------------------------------------------------------
(* The start of a pod                                                      *)

Phases == {"down", "serving"} \cup Life!Starting \cup Life!Stopping

PodTypes ==
  /\ phase \in [Pods -> Phases]
  /\ loop \in [Pods -> BOOLEAN]
  /\ points \in [Pods -> SUBSET Files]
  /\ runbooks \in [Files -> Nat]

\* The runbooks are all there, or were not to be had.
Whole == partial \/ \A f \in Files : runbooks[f] > 0

\* Nothing is next to a pod while it starts undisturbed, and what it has done so far.
Undisturbed(p) ==
  /\ Life!IsStarting(p) => up = Life!Services /\ \A q \in Pods \ {p} : ~Life!IsStarting(q)
  /\ phase[p] = "create" => ~collection
  /\ phase[p] = "upsert" => points[p] = Files
  /\ phase[p] \in {"loop", "serving"} => Whole

Indexed ==
  /\ PodTypes
  /\ ~Life!Empty => Whole
  /\ \A p \in Pods \ disturbed : Undisturbed(p)

\* What is indexed stays so, and a first point is one of all or counted as partial.
LEMMA WholeStays ==
  ASSUME Indexed, [Life!Next]_(Life!vars)
  PROVE  /\ PodTypes'
         /\ Whole => Whole'
         /\ ~Life!Empty' => Whole'
<1>. USE LifeAssumption DEF Indexed, PodTypes, Whole, Phases, Life!Starting, Life!Stopping,
       Life!Go, Life!At, Life!Ended, Life!process, Life!stored, Life!bounds
<1>1. ASSUME NEW q \in Pods, Life!UpsertPoints(q)
      PROVE  /\ PodTypes' /\ (Whole => Whole') /\ (~Life!Empty' => Whole')
  <2>1. CASE "qdrant" \in up /\ points[q] # {}
    <3>1. /\ runbooks' = [f \in Files |-> IF f \in points[q] /\ runbooks[f] < MaxCopies
                                          THEN runbooks[f] + 1 ELSE runbooks[f]]
          /\ partial' = (partial \/ points[q] # Files)
      BY <1>1, <2>1 DEF Life!UpsertPoints
    <3>2. PodTypes'
      BY <1>1, <3>1 DEF Life!UpsertPoints
    <3>3. CASE points[q] = Files
      <4>1. \A f \in Files : runbooks'[f] > 0
        BY <3>1, <3>3
      <4>2. QED
        BY <3>2, <4>1
    <3>4. CASE points[q] # Files
      BY <3>1, <3>2, <3>4
    <3>5. QED
      BY <3>3, <3>4
  <2>2. CASE ~("qdrant" \in up /\ points[q] # {})
    BY <1>1, <2>2 DEF Life!UpsertPoints, Life!Empty
  <2>3. QED
    BY <2>1, <2>2
<1>2. ASSUME NEW q \in Pods, Life!SaveRunbookEntry(q)
      PROVE  /\ PodTypes' /\ (Whole => Whole') /\ (~Life!Empty' => Whole')
  BY <1>2 DEF Life!SaveRunbookEntry, Life!Empty
<1>3. ASSUME NEW q \in Pods,
             \/ Life!Start(q) \/ Life!InitPool(q) \/ Life!InitClient(q) \/ Life!EnsureSchema(q)
             \/ Life!InitSreDb(q) \/ Life!ListCollections(q) \/ Life!CreateCollection(q)
             \/ Life!CountPoints(q)
      PROVE  /\ PodTypes' /\ UNCHANGED <<partial, runbooks, auto>>
  BY <1>3 DEF Life!Start, Life!InitPool, Life!InitClient, Life!EnsureSchema, Life!InitSreDb,
       Life!CreateTables, Life!ListCollections, Life!CreateCollection, Life!CountPoints
<1>4. ASSUME NEW q \in Pods,
             \/ Life!EmbedFiles(q) \/ Life!StartLoop(q)
             \/ Life!BeginRun(q) \/ Life!EndRun(q) \/ Life!Probe(q) \/ Life!Drain(q)
             \/ Life!StopLoop(q) \/ Life!ClosePool(q) \/ Life!Exit(q)
      PROVE  /\ PodTypes' /\ UNCHANGED <<partial, runbooks, auto>>
  BY <1>4 DEF Life!EmbedFiles, Life!StartLoop, Life!BeginRun, Life!EndRun, Life!Probe, Life!Drain,
       Life!StopLoop, Life!ClosePool, Life!Exit
<1>5. ASSUME Life!ServiceFails \/ Life!ServiceReturns \/ UNCHANGED Life!vars
      PROVE  /\ PodTypes' /\ UNCHANGED <<partial, runbooks, auto>>
  BY <1>5 DEF Life!ServiceFails, Life!ServiceReturns, Life!vars
<1>6. CASE PodTypes' /\ UNCHANGED <<partial, runbooks, auto>>
  BY <1>6 DEF Life!Empty
<1>7. QED
  BY <1>1, <1>2, <1>3, <1>4, <1>5, <1>6 DEF Life!Next, Life!PodNext, Life!StartupNext

\* A step of the start of another pod than the undisturbed one, which does not start then.
LEMMA OtherStarts ==
  ASSUME Indexed, Whole => Whole', NEW q \in Pods, NEW p \in Pods \ {q}, p \notin disturbed,
         Life!StartupNext(q)
  PROVE  Undisturbed(p)'
<1>1. Life!IsStarting(q) /\ phase'[p] = phase[p]
  BY DEF Indexed, PodTypes, Life!StartupNext, Life!InitPool, Life!InitClient, Life!EnsureSchema,
    Life!InitSreDb, Life!CreateTables, Life!ListCollections, Life!CreateCollection,
    Life!CountPoints, Life!EmbedFiles, Life!UpsertPoints, Life!StartLoop, Life!Go, Life!At,
    Life!IsStarting, Life!Starting
<1>2. ~Life!IsStarting(p) /\ Undisturbed(p)
  BY <1>1 DEF Indexed, Undisturbed
<1>3. phase[p] \notin {"create", "upsert", "loop"}
  BY <1>2 DEF Life!IsStarting, Life!Starting
<1>4. QED
  BY <1>1, <1>2, <1>3 DEF Undisturbed, Life!IsStarting

\* A step of the start of the undisturbed pod itself.
LEMMA OwnStart ==
  ASSUME Indexed, NEW p \in Pods, p \notin disturbed, p \notin disturbed', Life!StartupNext(p)
  PROVE  Undisturbed(p)'
<1>. USE DEF Life!Go, Life!At, Life!Starting
<1>1. /\ Life!IsStarting(p) /\ up = Life!Services /\ \A q \in Pods \ {p} : ~Life!IsStarting(q)
      /\ Undisturbed(p)
  BY DEF Indexed, Undisturbed, Life!StartupNext, Life!InitPool, Life!InitClient, Life!EnsureSchema,
    Life!InitSreDb, Life!CreateTables, Life!ListCollections, Life!CreateCollection,
    Life!CountPoints, Life!EmbedFiles, Life!UpsertPoints, Life!StartLoop, Life!IsStarting
<1>2. up' = up /\ \A q \in Pods \ {p} : phase'[q] = phase[q]
  BY DEF Indexed, PodTypes, Life!StartupNext, Life!InitPool, Life!InitClient, Life!EnsureSchema,
    Life!InitSreDb, Life!CreateTables, Life!ListCollections, Life!CreateCollection,
    Life!CountPoints, Life!EmbedFiles, Life!UpsertPoints, Life!StartLoop
<1>3. Life!IsStarting(p)' => up' = Life!Services /\ \A q \in Pods \ {p} : ~Life!IsStarting(q)'
  BY <1>1, <1>2 DEF Life!IsStarting
<1>4. CASE \/ Life!InitPool(p) \/ Life!InitClient(p) \/ Life!EnsureSchema(p) \/ Life!InitSreDb(p)
  <2>1. phase'[p] \in {"pool", "client", "schema", "sre_tables", "list"}
    BY <1>4 DEF Indexed, PodTypes, Life!InitPool, Life!InitClient, Life!EnsureSchema,
      Life!InitSreDb, Life!CreateTables
  <2>2. QED
    BY <1>3, <2>1 DEF Undisturbed
<1>5. CASE Life!ListCollections(p)
  <2>1. phase'[p] = IF collection THEN "count" ELSE "create"
    BY <1>1, <1>5 DEF Indexed, PodTypes, Life!ListCollections, Life!Services
  <2>2. collection' = collection
    BY <1>5 DEF Life!ListCollections, Life!stored
  <2>3. QED
    BY <1>3, <2>1, <2>2 DEF Undisturbed
<1>6. CASE Life!CreateCollection(p)
  <2>1. ~collection /\ {"qdrant", "ollama"} \subseteq up
    BY <1>1, <1>6 DEF Undisturbed, Life!CreateCollection, Life!Services
  <2>2. phase'[p] = "count"
    BY <1>6, <2>1 DEF Indexed, PodTypes, Life!CreateCollection
  <2>3. QED
    BY <1>3, <2>2 DEF Undisturbed
<1>7. CASE Life!CountPoints(p)
  <2>1. phase'[p] = IF Life!Empty THEN "embed" ELSE "loop"
    BY <1>1, <1>7 DEF Indexed, PodTypes, Life!CountPoints, Life!Services
  <2>2. ~Life!Empty => Whole'
    BY <1>7 DEF Indexed, Whole, Life!CountPoints, Life!stored
  <2>3. QED
    BY <1>3, <2>1, <2>2 DEF Undisturbed
<1>8. CASE Life!EmbedFiles(p)
  <2>1. phase'[p] = "upsert" /\ points'[p] = Files
    BY <1>1, <1>8 DEF Indexed, PodTypes, Life!EmbedFiles, Life!Services
  <2>2. QED
    BY <1>3, <2>1 DEF Undisturbed
<1>9. CASE Life!UpsertPoints(p)
  <2>1. points[p] = Files /\ phase'[p] = "loop" /\ "qdrant" \in up
    BY <1>1, <1>9 DEF Indexed, PodTypes, Undisturbed, Life!UpsertPoints, Life!Services
  <2>2. CASE Files = {}
    BY <1>3, <2>1, <2>2 DEF Undisturbed, Whole
  <2>3. CASE Files # {}
    <3>1. runbooks' = [f \in Files |-> IF f \in Files /\ runbooks[f] < MaxCopies
                                       THEN runbooks[f] + 1 ELSE runbooks[f]]
      BY <1>9, <2>1, <2>3 DEF Life!UpsertPoints
    <3>2. \A f \in Files : runbooks'[f] > 0
      BY <3>1, LifeAssumption DEF Indexed, PodTypes
    <3>3. QED
      BY <1>3, <2>1, <3>2 DEF Undisturbed, Whole
  <2>4. QED
    BY <2>2, <2>3
<1>10. CASE Life!StartLoop(p)
  <2>1. phase[p] = "loop" /\ phase'[p] = "serving"
    BY <1>10 DEF Indexed, PodTypes, Life!StartLoop
  <2>2. Whole'
    BY <1>1, <1>10, <2>1 DEF Undisturbed, Whole, Life!StartLoop, Life!stored
  <2>3. QED
    BY <1>3, <2>1, <2>2 DEF Undisturbed
<1>11. QED
  BY <1>4, <1>5, <1>6, <1>7, <1>8, <1>9, <1>10 DEF Life!StartupNext

\* A pod that starts, next to one that is undisturbed or undisturbed itself.
LEMMA StartStep ==
  ASSUME Indexed, NEW q \in Pods, NEW p \in Pods, p \notin disturbed', Life!Start(q),
         Whole => Whole'
  PROVE  Undisturbed(p)'
<1>. DEFINE others == {o \in Pods \ {q} : Life!IsStarting(o) \/ loop[o]}
<1>1. /\ disturbed' = (disturbed \ {q}) \cup {o \in others : Life!IsStarting(o)}
                        \cup (IF others # {} \/ up # Life!Services THEN {q} ELSE {})
      /\ phase' = [phase EXCEPT ![q] = "pool"] /\ up' = up
  BY DEF Life!Start, Life!At, Life!Go
<1>2. CASE p = q
  <2>1. others = {} /\ up = Life!Services
    BY <1>1, <1>2
  <2>2. phase'[p] = "pool" /\ \A o \in Pods \ {p} : ~Life!IsStarting(o)'
    BY <1>1, <1>2, <2>1 DEF Indexed, PodTypes, Life!IsStarting
  <2>3. QED
    BY <1>1, <2>1, <2>2 DEF Undisturbed
<1>3. CASE p # q
  <2>1. ~Life!IsStarting(p) /\ phase'[p] = phase[p] /\ p \notin disturbed
    BY <1>1, <1>3 DEF Indexed, PodTypes
  <2>2. phase[p] \notin {"create", "upsert", "loop"}
    BY <2>1 DEF Life!IsStarting, Life!Starting
  <2>3. QED
    BY <2>1, <2>2 DEF Indexed, Undisturbed, Life!IsStarting
<1>4. QED
  BY <1>2, <1>3

\* The other steps start no pod, and take no service from an undisturbed start.
LEMMA ServingStep ==
  ASSUME Indexed, NEW p \in Pods, p \notin disturbed', Whole => Whole',
         \/ \E q \in Pods :
              \/ Life!BeginRun(q) \/ Life!EndRun(q) \/ Life!SaveRunbookEntry(q) \/ Life!Probe(q)
              \/ Life!Drain(q) \/ Life!StopLoop(q) \/ Life!ClosePool(q) \/ Life!Exit(q)
         \/ Life!ServiceFails \/ Life!ServiceReturns \/ UNCHANGED Life!vars
  PROVE  Undisturbed(p)'
<1>. USE DEF Life!Go, Life!At, Life!Starting, Life!Stopping, Life!process, Life!stored, Life!bounds
<1>1. p \notin disturbed
  BY DEF Life!BeginRun, Life!EndRun, Life!SaveRunbookEntry, Life!Probe, Life!Drain, Life!StopLoop,
    Life!ClosePool, Life!Exit, Life!ServiceFails, Life!ServiceReturns, Life!vars
<1>2. collection' = collection
  BY DEF Life!BeginRun, Life!EndRun, Life!SaveRunbookEntry, Life!Probe, Life!Drain, Life!StopLoop,
    Life!ClosePool, Life!Exit, Life!ServiceFails, Life!ServiceReturns, Life!vars
<1>3. \A o \in Pods : phase'[o] = phase[o] \/ phase'[o] \in {"down"} \cup Life!Stopping
  BY DEF Indexed, PodTypes, Life!BeginRun, Life!EndRun, Life!SaveRunbookEntry, Life!Probe,
    Life!Drain, Life!StopLoop, Life!ClosePool, Life!Exit, Life!ServiceFails, Life!ServiceReturns,
    Life!vars
<1>4. points'[p] = points[p] \/ phase'[p] = "down"
  BY DEF Indexed, PodTypes, Life!BeginRun, Life!EndRun, Life!SaveRunbookEntry, Life!Probe,
    Life!Drain, Life!StopLoop, Life!ClosePool, Life!Exit, Life!ServiceFails, Life!ServiceReturns,
    Life!vars
<1>5. Life!IsStarting(p) => up' = up \/ Life!ServiceReturns
  BY DEF Life!BeginRun, Life!EndRun, Life!SaveRunbookEntry, Life!Probe, Life!Drain, Life!StopLoop,
    Life!ClosePool, Life!Exit, Life!ServiceFails, Life!ServiceReturns, Life!vars
<1>6. Undisturbed(p)
  BY <1>1 DEF Indexed
<1>7. Life!IsStarting(p)' => up' = Life!Services /\ \A o \in Pods \ {p} : ~Life!IsStarting(o)'
  <2>1. SUFFICES ASSUME phase'[p] \in Life!Starting
                 PROVE  up' = Life!Services /\ \A o \in Pods \ {p} : ~Life!IsStarting(o)'
    BY DEF Life!IsStarting
  <2>2. Life!IsStarting(p)
    BY <1>3, <2>1 DEF Life!IsStarting
  <2>3. up = Life!Services /\ \A o \in Pods \ {p} : ~Life!IsStarting(o)
    BY <1>6, <2>2 DEF Undisturbed
  <2>4. up' = Life!Services
    BY <1>5, <2>2, <2>3 DEF Life!ServiceReturns
  <2>5. QED
    BY <1>3, <2>3, <2>4 DEF Life!IsStarting
<1>8. QED
  BY <1>2, <1>3, <1>4, <1>6, <1>7 DEF Undisturbed

\* Whatever pods start, stop and die next to it, and whatever services fail: a pod
\* whose start nothing disturbed serves with every runbook indexed, unless the
\* collection had got its first points in part.
THEOREM UndisturbedStartsIndex == Life!Spec => []UndisturbedStartIndexes
<1>1. Life!Init => Indexed
  BY DEF Life!Init, Indexed, PodTypes, Phases, Undisturbed, Life!Empty, Life!IsStarting,
    Life!Starting
<1>2. Indexed /\ [Life!Next]_(Life!vars) => Indexed'
  <2>1. SUFFICES ASSUME Indexed, [Life!Next]_(Life!vars)
                 PROVE  Indexed'
    OBVIOUS
  <2>2. PodTypes' /\ (Whole => Whole') /\ (~Life!Empty' => Whole')
    BY <2>1, WholeStays
  <2>3. ASSUME NEW p \in Pods, p \notin disturbed'
        PROVE  Undisturbed(p)'
    <3>1. ASSUME NEW q \in Pods, Life!StartupNext(q)
          PROVE  Undisturbed(p)'
      <4>1. disturbed \subseteq disturbed'
        BY <3>1 DEF Life!StartupNext, Life!InitPool, Life!InitClient, Life!EnsureSchema,
          Life!InitSreDb, Life!CreateTables, Life!ListCollections, Life!CreateCollection,
          Life!CountPoints, Life!EmbedFiles, Life!UpsertPoints, Life!StartLoop
      <4>2. QED
        BY <2>1, <2>2, <2>3, <3>1, <4>1, OtherStarts, OwnStart
    <3>2. ASSUME NEW q \in Pods, Life!Start(q)
          PROVE  Undisturbed(p)'
      BY <2>1, <2>2, <2>3, <3>2, StartStep
    <3>3. QED
      BY <2>1, <2>2, <2>3, <3>1, <3>2, ServingStep DEF Life!Next, Life!PodNext
  <2>4. QED
    BY <2>2, <2>3 DEF Indexed
<1>3. Indexed => UndisturbedStartIndexes
  BY DEF Indexed, Undisturbed, Whole, UndisturbedStartIndexes, Life!UndisturbedStartIndexes
<1>4. QED
  BY <1>1, <1>2, <1>3, PTL DEF Life!Spec

-----------------------------------------------------------------------------
(* The parts together                                                      *)

\* Whichever part a behaviour of MCParts is one of, it keeps what each of them promises.
THEOREM PartsKeepTheirPromises ==
  AllSpec => /\ []CutsOnlyAStreak /\ PauseIsKept
             /\ PauseEndsByOlderUse
             /\ []UselessRestartsStop
             /\ []UndisturbedStartIndexes
<1>1. AllInit => Init /\ Service!Init /\ Remedy!Init /\ Life!Init
  BY DEF AllInit
<1>2. [AllNext]_<<part, vars, service, remedy, pods>> =>
        /\ [Next]_vars /\ [Service!Next]_(Service!vars)
        /\ [Remedy!Next]_(Remedy!vars) /\ [Life!Next]_(Life!vars)
  <2>1. SUFFICES ASSUME [AllNext]_<<part, vars, service, remedy, pods>>
                 PROVE  /\ [Next]_vars /\ [Service!Next]_(Service!vars)
                        /\ [Remedy!Next]_(Remedy!vars) /\ [Life!Next]_(Life!vars)
    OBVIOUS
  <2>2. Next \/ UNCHANGED vars
    BY <2>1 DEF AllNext, LoopNext, ServiceNext, RemedyNext, PodsNext
  <2>3. Service!Next \/ UNCHANGED service
    BY <2>1 DEF AllNext, LoopNext, ServiceNext, RemedyNext, PodsNext
  <2>4. Remedy!Next \/ UNCHANGED remedy
    BY <2>1 DEF AllNext, LoopNext, ServiceNext, RemedyNext, PodsNext
  <2>5. Life!Next \/ UNCHANGED pods
    BY <2>1 DEF AllNext, LoopNext, ServiceNext, RemedyNext, PodsNext
  <2>6. UNCHANGED service => UNCHANGED Service!vars
    BY DEF service, Service!vars, Service!keys
  <2>7. UNCHANGED remedy => UNCHANGED Remedy!vars
    BY DEF remedy, Remedy!vars, Remedy!kube, Remedy!table, Remedy!loop
  <2>8. UNCHANGED pods => UNCHANGED Life!vars
    BY DEF pods, Life!vars, Life!process, Life!stored, Life!bounds
  <2>9. QED
    BY <2>2, <2>3, <2>4, <2>5, <2>6, <2>7, <2>8
<1>3. AllSpec => Spec /\ Service!Spec /\ Remedy!Spec /\ Life!Spec
  BY <1>1, <1>2, PTL DEF AllSpec, Spec, Service!Spec, Remedy!Spec, Life!Spec
<1>4. QED
  BY <1>3, OnlyAStreakCuts, PauseLasts, OnlyOlderUsesEndPauses, UselessRestartsEnd,
    UndisturbedStartsIndex, PTL
=============================================================================
