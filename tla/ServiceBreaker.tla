--------------------------- MODULE ServiceBreaker ---------------------------
(***************************************************************************)
(* The circuit breaker that guards a remote service of the chat            *)
(* (core/circuit_breaker.py): three keys of Redis, read and written one    *)
(* command at a time by every thread of every pod that calls the service   *)
(* (_k8s and _productivity of interfaces/api/routers/chat.py).  Keys have  *)
(* expiry times; a plain SET clears the one its key had.                   *)
(***************************************************************************)
EXTENDS Integers, FiniteSets

CONSTANTS
  Callers,    \* threads that call the service
  Threshold,  \* failure_threshold
  Recovery,   \* recovery_timeout, in ticks
  MaxFaults   \* commands that fail in a behaviour, a bound of the model

FailuresTTL == 4 * Recovery
StateTTL == 10 * Recovery

Forever == StateTTL + 1   \* the TTL of a key without one
NoKey == -1               \* the age of an opened_at that is not there

VARIABLES
  state,        \* the key :state, "closed" when it is not there
  stateTTL,     \* its time to live, Forever without one
  failures,     \* the key :failures, saturating at Threshold
  failuresTTL,  \* its time to live
  openedAge,    \* time since :opened_at, saturating at Recovery
  pc,           \* the next command of each caller
  faults,       \* commands that have failed
  \* history
  older         \* callers whose use of the breaker began before the last opening,
                \* and those that a failing Redis let through

keys == <<state, stateTTL, failures, failuresTTL, openedAge>>
vars == <<keys, pc, faults, older>>

\* In the order of the code: is_open, the call, record_success, record_failure.
Commands == {"check", "checkOpenedAt", "setHalfOpen", "call",
             "readState", "setClosed", "deleteBoth", "clearFailures",
             "incr", "expireFailures", "expireThenOpen",
             "setOpen", "setOpenedAt", "expireState"}

TypeOK ==
  /\ state \in {"closed", "open", "half_open"}
  /\ stateTTL \in 1..Forever
  /\ failures \in 0..Threshold
  /\ failuresTTL \in 1..Forever
  /\ openedAge \in NoKey..Recovery
  /\ pc \in [Callers -> Commands \cup {"idle"}]
  /\ faults \in 0..MaxFaults
  /\ older \subseteq Callers

Init ==
  /\ state = "closed"
  /\ stateTTL = Forever
  /\ failures = 0
  /\ failuresTTL = Forever
  /\ openedAge = NoKey
  /\ pc = [c \in Callers |-> "idle"]
  /\ faults = 0
  /\ older = {}

-----------------------------------------------------------------------------
Goto(c, label) == pc' = [pc EXCEPT ![c] = label]

Busy == {c \in Callers : pc[c] # "idle"}

\* _k8s, _productivity: every call asks the breaker first.
Begin(c) ==
  /\ pc[c] = "idle"
  /\ Goto(c, "check")
  /\ older' = older \ {c}
  /\ UNCHANGED <<keys, faults>>

\* is_open: GET state.  CLOSED and HALF_OPEN let the call through.
CheckState(c) ==
  /\ pc[c] = "check"
  /\ Goto(c, IF state = "open" THEN "checkOpenedAt" ELSE "call")
  /\ UNCHANGED <<keys, faults, older>>

\* Mutant: the age of the opening is not looked at.
CheckPresence(c) ==
  /\ pc[c] = "checkOpenedAt"
  /\ Goto(c, IF openedAge # NoKey THEN "setHalfOpen" ELSE "idle")
  /\ UNCHANGED <<keys, faults, older>>

\* is_open: GET opened_at.  Without it, or too soon, the call is refused.
CheckOpenedAt(c) ==
  /\ pc[c] = "checkOpenedAt"
  /\ Goto(c, IF openedAge = Recovery THEN "setHalfOpen" ELSE "idle")
  /\ UNCHANGED <<keys, faults, older>>

\* is_open: SET state half_open; this call is the probe.
SetHalfOpen(c) ==
  /\ pc[c] = "setHalfOpen"
  /\ state' = "half_open"
  /\ stateTTL' = Forever
  /\ Goto(c, "call")
  /\ UNCHANGED <<failures, failuresTTL, openedAge, faults, older>>

\* The service answers 200, or it does not: another status or an exception.
CallSucceeds(c) ==
  /\ pc[c] = "call"
  /\ Goto(c, "readState")
  /\ UNCHANGED <<keys, faults, older>>

CallFails(c) ==
  /\ pc[c] = "call"
  /\ Goto(c, "incr")
  /\ UNCHANGED <<keys, faults, older>>

\* record_success: GET state.
ReadForSuccess(c) ==
  /\ pc[c] = "readState"
  /\ Goto(c, IF state = "closed" THEN "clearFailures" ELSE "setClosed")
  /\ UNCHANGED <<keys, faults, older>>

\* record_success: SET state closed.
SetClosed(c) ==
  /\ pc[c] = "setClosed"
  /\ state' = "closed"
  /\ stateTTL' = Forever
  /\ Goto(c, "deleteBoth")
  /\ UNCHANGED <<failures, failuresTTL, openedAge, faults, older>>

\* record_success: DELETE failures opened_at.
DeleteBoth(c) ==
  /\ pc[c] = "deleteBoth"
  /\ failures' = 0
  /\ failuresTTL' = Forever
  /\ openedAge' = NoKey
  /\ Goto(c, "idle")
  /\ UNCHANGED <<state, stateTTL, faults, older>>

\* record_success in CLOSED: DELETE failures.
ClearFailures(c) ==
  /\ pc[c] = "clearFailures"
  /\ failures' = 0
  /\ failuresTTL' = Forever
  /\ Goto(c, "idle")
  /\ UNCHANGED <<state, stateTTL, openedAge, faults, older>>

\* record_failure: INCR failures.  The answer decides what follows EXPIRE.
Incr(c) ==
  /\ pc[c] = "incr"
  /\ failures' = IF failures < Threshold THEN failures + 1 ELSE failures
  /\ Goto(c, IF failures' = Threshold THEN "expireThenOpen" ELSE "expireFailures")
  /\ UNCHANGED <<state, stateTTL, failuresTTL, openedAge, faults, older>>

\* record_failure: EXPIRE failures, which does nothing when a success has
\* deleted the key meanwhile.
ExpireFailures(c) ==
  /\ pc[c] \in {"expireFailures", "expireThenOpen"}
  /\ failuresTTL' = IF failures = 0 THEN failuresTTL ELSE FailuresTTL
  /\ Goto(c, IF pc[c] = "expireThenOpen" THEN "setOpen" ELSE "idle")
  /\ UNCHANGED <<state, stateTTL, failures, openedAge, faults, older>>

\* record_failure: SET state open, still without an expiry time.
SetOpen(c) ==
  /\ pc[c] = "setOpen"
  /\ state' = "open"
  /\ stateTTL' = Forever
  /\ older' = Busy \ {c}
  /\ Goto(c, "setOpenedAt")
  /\ UNCHANGED <<failures, failuresTTL, openedAge, faults>>

\* record_failure: SET opened_at.
SetOpenedAt(c) ==
  /\ pc[c] = "setOpenedAt"
  /\ openedAge' = 0
  /\ older' = older \cup (Busy \ {c})
  /\ Goto(c, "expireState")
  /\ UNCHANGED <<state, stateTTL, failures, failuresTTL, faults>>

\* record_failure: EXPIRE state, whatever the key holds by now.
ExpireState(c) ==
  /\ pc[c] = "expireState"
  /\ stateTTL' = StateTTL
  /\ Goto(c, "idle")
  /\ UNCHANGED <<state, failures, failuresTTL, openedAge, faults, older>>

-----------------------------------------------------------------------------
\* A command raises.  is_open lets the call through and _get_state says
\* CLOSED; record_success and record_failure leave the rest undone.
CommandFails(c) ==
  /\ faults < MaxFaults
  /\ pc[c] \notin {"idle", "call"}
  /\ faults' = faults + 1
  /\ LET asking == pc[c] \in {"check", "checkOpenedAt", "setHalfOpen"} IN
       /\ Goto(c, CASE asking -> "call"
                    [] pc[c] = "readState" -> "clearFailures"
                    [] OTHER -> "idle")
       /\ older' = IF asking THEN older \cup {c} ELSE older
  /\ UNCHANGED keys

\* The pod dies wherever its thread is.
CallerDies(c) ==
  /\ faults < MaxFaults
  /\ pc[c] # "idle"
  /\ faults' = faults + 1
  /\ Goto(c, "idle")
  /\ UNCHANGED <<keys, older>>

\* Time passes, between two commands too: a thread may stall.
Tick ==
  /\ LET left(ttl) == IF ttl = Forever THEN Forever ELSE ttl - 1
         gone(ttl) == left(ttl) = 0
     IN /\ state' = IF gone(stateTTL) THEN "closed" ELSE state
        /\ stateTTL' = IF gone(stateTTL) THEN Forever ELSE left(stateTTL)
        /\ failures' = IF gone(failuresTTL) THEN 0 ELSE failures
        /\ failuresTTL' = IF gone(failuresTTL) THEN Forever ELSE left(failuresTTL)
        /\ openedAge' = IF openedAge \in 0..Recovery - 1 THEN openedAge + 1 ELSE openedAge
  /\ UNCHANGED <<pc, faults, older>>

IsOpen(c) == CheckState(c) \/ CheckOpenedAt(c) \/ SetHalfOpen(c)

Call(c) == CallSucceeds(c) \/ CallFails(c)

RecordSuccess(c) ==
  ReadForSuccess(c) \/ SetClosed(c) \/ DeleteBoth(c) \/ ClearFailures(c)

RecordFailure(c) ==
  \/ Incr(c) \/ ExpireFailures(c)
  \/ SetOpen(c) \/ SetOpenedAt(c) \/ ExpireState(c)

Step(c) == IsOpen(c) \/ Call(c) \/ RecordSuccess(c) \/ RecordFailure(c)

Next ==
  \/ \E c \in Callers : Begin(c) \/ Step(c) \/ CommandFails(c) \/ CallerDies(c)
  \/ Tick

Spec == Init /\ [][Next]_vars

-----------------------------------------------------------------------------
\* During the pause that follows an opening, only a use of the breaker that
\* began before it (or one that a failing Redis let through) can end it.
PauseEndsByOlderUse ==
  [][ \A c \in Callers :
        state = "open" /\ state' # "open" /\ openedAge \in 0..Recovery - 1
          /\ pc'[c] # pc[c]
        => c \in older ]_vars

\* "1 llamada de prueba en HALF_OPEN".
OneProbe ==
  state = "half_open" => Cardinality({c \in Callers \ older : pc[c] = "call"}) <= 1
=============================================================================
