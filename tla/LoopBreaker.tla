---------------------------- MODULE LoopBreaker ----------------------------
(***************************************************************************)
(* The in-process circuit breaker of the SRE loop (class CircuitBreaker of *)
(* agents/sre/scheduler.py) with the threads that use it: that of the      *)
(* loop, whose runs ask is_open first and record their outcome last, and   *)
(* those of the API, where get_loop_state reads `state` and so may move    *)
(* OPEN to HALF_OPEN.  There is no lock: a step is one access to _state or *)
(* _opened_at, and the steps of the threads interleave.                    *)
(***************************************************************************)
EXTENDS Integers

CONSTANTS
  Threshold,    \* SRE_CB_THRESHOLD
  ResetSeconds, \* SRE_CB_RESET_SECONDS, in ticks
  Loop,         \* the thread of the scheduler
  Readers       \* threads of the API in get_loop_state

ASSUME BreakerAssumption ==
  /\ Threshold \in Nat \ {0} /\ ResetSeconds \in Nat
  /\ Loop \notin Readers

Threads == Readers \cup {Loop}

VARIABLES
  state,      \* _state
  failures,   \* _failures, saturating at Threshold: it is compared with no more
  openedAge,  \* time since _opened_at, saturating past ResetSeconds
  at,         \* the next statement of each thread; "away": outside of the breaker
  \* history
  streak,     \* failing runs since the last good one, saturating at Threshold
  lastFail,   \* time since the last failing run, saturating past ResetSeconds
  early       \* readings that began before the last opening was complete

vars == <<state, failures, openedAge, at, streak, lastFail, early>>

Long == ResetSeconds + 1

Reading == {"age", "move"}

TypeOK ==
  /\ state \in {"CLOSED", "OPEN", "HALF_OPEN"}
  /\ failures \in 0..Threshold
  /\ openedAge \in 0..Long
  /\ at \in [Threads -> Reading \cup {"away", "answer", "run", "open", "stamp"}]
  /\ \A r \in Readers : at[r] \in Reading \cup {"away"}
  /\ streak \in 0..Threshold
  /\ lastFail \in 0..Long
  /\ early \subseteq Readers

Init ==
  /\ state = "CLOSED"
  /\ failures = 0
  /\ openedAge = Long
  /\ at = [t \in Threads |-> "away"]
  /\ streak = 0
  /\ lastFail = Long
  /\ early = {}

Goto(t, label) == at' = [at EXCEPT ![t] = label]

-----------------------------------------------------------------------------
(* The property `state`                                                    *)

\* Where a thread goes when `state` has its answer: the loop runs unless the
\* breaker is OPEN.
Answered(t) == IF t = Loop THEN "run" ELSE "away"

\* `if self._state == self.OPEN`: any other state is the answer at once.  An
\* answer to the API changes nothing.
Ask(t) ==
  /\ at[t] = "away"
  /\ IF state = "OPEN" THEN Goto(t, "age") ELSE t = Loop /\ Goto(t, Answered(t))
  /\ early' = IF at[Loop] = "stamp" /\ state = "OPEN" THEN early \cup {t} ELSE early
  /\ UNCHANGED <<state, failures, openedAge, streak, lastFail>>

\* Mutant: the reset time is not looked at.
AgeIgnored(t) ==
  /\ at[t] = "age"
  /\ Goto(t, "move")
  /\ UNCHANGED <<state, failures, openedAge, streak, lastFail, early>>

\* Mutant: the pause never ends.
AgeForEver(t) ==
  /\ at[t] = "age"
  /\ Goto(t, IF t = Loop THEN "answer" ELSE "away")
  /\ UNCHANGED <<state, failures, openedAge, streak, lastFail, early>>

\* _opened_at is compared with the clock.
Age(t) ==
  /\ at[t] = "age"
  /\ Goto(t, IF openedAge > ResetSeconds THEN "move" ELSE IF t = Loop THEN "answer" ELSE "away")
  /\ UNCHANGED <<state, failures, openedAge, streak, lastFail, early>>

\* `self._state = self.HALF_OPEN`, whatever it is by now.
Move(t) ==
  /\ at[t] = "move"
  /\ state' = "HALF_OPEN"
  /\ Goto(t, Answered(t))
  /\ UNCHANGED <<failures, openedAge, streak, lastFail, early>>

\* `return self._state` to is_open: an OPEN breaker skips the run.  What a thread
\* that has moved it reads here is not OPEN, which only the loop sets.
Answer ==
  /\ at[Loop] = "answer"
  /\ Goto(Loop, IF state = "OPEN" THEN "away" ELSE "run")
  /\ UNCHANGED <<state, failures, openedAge, streak, lastFail, early>>

\* get_loop_state in a thread of the API.
ReadStatus(r) == Ask(r) \/ Age(r) \/ Move(r)

\* The interval job fires and asks is_open.
Fire == Ask(Loop) \/ Age(Loop) \/ Move(Loop) \/ Answer

-----------------------------------------------------------------------------
(* The end of a run                                                        *)

\* A run that maintenance or the election stops records nothing.
LeaveUnrecorded ==
  /\ at[Loop] = "run"
  /\ Goto(Loop, "away")
  /\ UNCHANGED <<state, failures, openedAge, streak, lastFail, early>>

\* Mutant: a good run closes the breaker and keeps the count.
CloseOnly ==
  /\ at[Loop] = "run"
  /\ Goto(Loop, "away")
  /\ state' = "CLOSED"
  /\ streak' = 0
  /\ UNCHANGED <<failures, openedAge, lastFail, early>>

\* record_success: the run ended well.
RecordSuccess ==
  /\ at[Loop] = "run"
  /\ Goto(Loop, "away")
  /\ failures' = 0
  /\ state' = "CLOSED"
  /\ streak' = 0
  /\ UNCHANGED <<openedAge, lastFail, early>>

Bump(n, cap) == IF n < cap THEN n + 1 ELSE n

\* record_failure: the run raised.  Only a CLOSED breaker opens.
RecordFailure ==
  /\ at[Loop] = "run"
  /\ failures' = Bump(failures, Threshold)
  /\ Goto(Loop, IF failures' >= Threshold /\ state = "CLOSED" THEN "open" ELSE "away")
  /\ streak' = Bump(streak, Threshold)
  /\ lastFail' = 0
  /\ UNCHANGED <<state, openedAge, early>>

\* `self._state = self.OPEN`, while _opened_at still is that of the last opening.
Open ==
  /\ at[Loop] = "open"
  /\ state' = "OPEN"
  /\ Goto(Loop, "stamp")
  /\ early' = {r \in Readers : at[r] # "away"}
  /\ UNCHANGED <<failures, openedAge, streak, lastFail>>

\* `self._opened_at = time.time()`.
Stamp ==
  /\ at[Loop] = "stamp"
  /\ openedAge' = 0
  /\ Goto(Loop, "away")
  /\ UNCHANGED <<state, failures, streak, lastFail, early>>

Tick ==
  /\ openedAge' = Bump(openedAge, Long)
  /\ lastFail' = Bump(lastFail, Long)
  /\ UNCHANGED <<state, failures, at, streak, early>>

Finish == LeaveUnrecorded \/ RecordSuccess \/ RecordFailure \/ Open \/ Stamp

Next == Fire \/ Finish \/ Tick \/ \E r \in Readers : ReadStatus(r)

Spec == Init /\ [][Next]_vars

\* The scheduler keeps firing, a run ends, time goes on.
FairSpec == Spec /\ WF_vars(Fire) /\ WF_vars(Finish) /\ WF_vars(Tick)

-----------------------------------------------------------------------------
\* The loop is cut only by Threshold failing runs in a row: a good run in
\* between starts the count again, whatever a late reading has made of the state.
CutsOnlyAStreak == state = "OPEN" => streak = Threshold

\* Once cut, the loop does not run until the reset time is over: before that no
\* run starts and nothing takes the breaker out of OPEN but a reading that began
\* before the opening was complete, when OPEN could be seen without its new time.
PauseIsKept ==
  [][ state = "OPEN" /\ (state' # "OPEN" \/ at'[Loop] = "run") =>
        \/ lastFail > ResetSeconds
        \/ \E r \in early : at[r] = "move" /\ at'[r] = "away" ]_vars

\* A cut loop is tried again some day, without an operator.
CutLoopIsRetried == state = "OPEN" ~> at[Loop] = "run"

\* "Corta el loop autonomo tras N errores consecutivos": when the last
\* Threshold runs or more have failed, the next run waits for the reset time.
FailingLoopPauses ==
  [][ streak = Threshold /\ at[Loop] # "run" /\ at'[Loop] = "run"
        => lastFail > ResetSeconds ]_vars
=============================================================================
