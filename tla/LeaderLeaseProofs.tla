------------------------- MODULE LeaderLeaseProofs -------------------------
(***************************************************************************)
(* What the election of LeaderLease guarantees for any set of pods, any    *)
(* lease duration and any bound on a run.                                  *)
(***************************************************************************)
EXTENDS LeaderLease, TLAPS

\* Every state of the election has the types the module declares: whatever
\* fails, races or terminates in _try_acquire_lease.
THEOREM TypeCorrect == Spec => []TypeOK
<1> USE LeaseAssumption DEF TypeOK, OldAge, Labels
<1>1. Init => TypeOK
  BY DEF Init
<1>2. TypeOK /\ [Next]_vars => TypeOK'
  <2> SUFFICES ASSUME TypeOK, [Next]_vars
               PROVE  TypeOK'
    OBVIOUS
  <2>1. ASSUME NEW p \in Pods, TakeNow(p)
        PROVE  TypeOK'
    BY <2>1 DEF TakeNow, Goto
  <2>2. ASSUME NEW p \in Pods, ReadLease(p)
        PROVE  TypeOK'
    <3>1. isLeader' \in [Pods -> BOOLEAN]
      BY <2>2, Zenon DEF ReadLease
    <3>2. QED
      BY <2>2, <3>1 DEF ReadLease, Goto
  <2>3. ASSUME NEW p \in Pods, ReplaceLease(p)
        PROVE  TypeOK'
    <3>1. isLeader' \in [Pods -> BOOLEAN]
      BY <2>3, Zenon DEF ReplaceLease, WriteLease
    <3>2. holder' \in Pods \cup {Gone, NoLease} /\ age' \in 0..OldAge
      BY <2>3 DEF ReplaceLease, WriteLease
    <3>3. pc' \in [Pods -> Labels]
      BY <2>3 DEF ReplaceLease, WriteLease, Goto
    <3>4. fresh' \subseteq Pods /\ elapsed' = elapsed
      BY <2>3 DEF ReplaceLease, WriteLease
    <3>5. QED
      BY <3>1, <3>2, <3>3, <3>4
  <2>4. ASSUME NEW p \in Pods, CreateLease(p)
        PROVE  TypeOK'
    <3>1. isLeader' \in [Pods -> BOOLEAN]
      BY <2>4, Zenon DEF CreateLease, WriteLease
    <3>2. holder' \in Pods \cup {Gone, NoLease} /\ age' \in 0..OldAge
      BY <2>4 DEF CreateLease, WriteLease
    <3>3. pc' \in [Pods -> Labels]
      BY <2>4 DEF CreateLease, WriteLease, Goto
    <3>4. fresh' \subseteq Pods /\ elapsed' = elapsed
      BY <2>4 DEF CreateLease, WriteLease
    <3>5. QED
      BY <3>1, <3>2, <3>3, <3>4
  <2>5. ASSUME NEW p \in Pods, EndRun(p)
        PROVE  TypeOK'
    BY <2>5 DEF EndRun, Goto
  <2>6. ASSUME NEW p \in Pods, ElectionError(p)
        PROVE  TypeOK'
    BY <2>6 DEF ElectionError, Goto
  <2>7. ASSUME NEW p \in Pods, Terminate(p)
        PROVE  TypeOK'
    BY <2>7 DEF Terminate, Goto
  <2>8. CASE Tick
    BY <2>8 DEF Tick, Busy
  <2>9. CASE UNCHANGED vars
    BY <2>9 DEF vars
  <2>10. QED
    BY <2>1, <2>2, <2>3, <2>4, <2>5, <2>6, <2>7, <2>8, <2>9 DEF Next, Run
<1>3. QED
  BY <1>1, <1>2, PTL DEF Spec

-----------------------------------------------------------------------------
\* A pod about to replace another holder's Lease with a copy that is still the
\* stored one saw it expired, and it has only grown older since.
FreshCopyExpired ==
  \A p \in Pods : pc[p] = "replace" /\ p \in fresh
                    => holder = p \/ Expired(p)

\* The step of an inductive proof, shared by the two theorems below: no step
\* makes a fresh copy of an unexpired Lease of another holder.
LEMMA FreshCopyStep ==
  TypeOK /\ FreshCopyExpired /\ [Next]_vars => FreshCopyExpired'
<1> USE LeaseAssumption DEF TypeOK, OldAge, FreshCopyExpired, Expired
<1> SUFFICES ASSUME TypeOK, FreshCopyExpired, [Next]_vars
             PROVE  FreshCopyExpired'
  OBVIOUS
<1>1. ASSUME NEW p \in Pods, TakeNow(p)
      PROVE  FreshCopyExpired'
  BY <1>1 DEF TakeNow, Goto
<1>2. ASSUME NEW p \in Pods, ReadLease(p)
      PROVE  FreshCopyExpired'
  BY <1>2 DEF ReadLease, Goto
<1>3. ASSUME NEW p \in Pods, ReplaceLease(p)
      PROVE  FreshCopyExpired'
  BY <1>3 DEF ReplaceLease, WriteLease, Goto
<1>4. ASSUME NEW p \in Pods, CreateLease(p)
      PROVE  FreshCopyExpired'
  BY <1>4 DEF CreateLease, WriteLease, Goto
<1>5. ASSUME NEW p \in Pods, EndRun(p)
      PROVE  FreshCopyExpired'
  BY <1>5 DEF EndRun, Goto
<1>6. ASSUME NEW p \in Pods, ElectionError(p)
      PROVE  FreshCopyExpired'
  BY <1>6 DEF ElectionError, Goto
<1>7. ASSUME NEW p \in Pods, Terminate(p)
      PROVE  FreshCopyExpired'
  BY <1>7 DEF Terminate, Goto
<1>8. CASE Tick
  BY <1>8 DEF Tick, Busy
<1>9. CASE UNCHANGED vars
  BY <1>9 DEF vars
<1>10. QED
  BY <1>1, <1>2, <1>3, <1>4, <1>5, <1>6, <1>7, <1>8, <1>9 DEF Next, Run

\* A copy is fresh in no initial state.
LEMMA FreshCopyInit == Init => FreshCopyExpired
BY DEF Init, FreshCopyExpired

\* No pod takes the Lease from another holder before it has expired, whatever
\* calls fail and however long runs last: the answer 409 to an outdated copy
\* and the use of an old `now` both err on the safe side.
THEOREM TakeoverWaits == Spec => TakeoverOnlyAfterExpiry
<1>1. TypeOK /\ FreshCopyExpired /\ [Next]_vars
        => [holder # NoLease /\ holder' # holder => age > LeaseDuration]_vars
  <2> SUFFICES ASSUME TypeOK, FreshCopyExpired, Next,
                      holder # NoLease, holder' # holder
               PROVE  age > LeaseDuration
    OBVIOUS
  <2> USE LeaseAssumption DEF TypeOK, OldAge, FreshCopyExpired, Expired
  <2>1. PICK p \in Pods : ReplaceLease(p) \/ ElectionError(p)
    BY DEF Next, Run, TakeNow, ReadLease, CreateLease, WriteLease, EndRun,
           Terminate, Tick
  <2>2. pc[p] = "replace" /\ p \in fresh /\ holder' = p
    BY <2>1 DEF ReplaceLease, WriteLease, ElectionError
  <2>3. QED
    BY <2>2
<1>2. QED
  BY <1>1, TypeCorrect, FreshCopyInit, FreshCopyStep, PTL
     DEF Spec, TakeoverOnlyAfterExpiry

-----------------------------------------------------------------------------
\* The invariant behind exclusion: the pod that the Lease let through still
\* holds it, and its renewTime is the `now` its run started from.
LeaderHoldsLease ==
  \A p \in Granted : holder = p /\ age = elapsed[p]

LeaseInv == FreshCopyExpired /\ LeaderHoldsLease

\* What the configuration has to grant: a run ends within the lease duration.
ShortRuns == MaxRun <= LeaseDuration

\* LeaseInv is inductive when runs are short.
LEMMA LeaseInvStep ==
  ShortRuns /\ TypeOK /\ LeaseInv /\ [Next]_vars => LeaseInv'
<1> USE LeaseAssumption DEF TypeOK, OldAge, LeaseInv, LeaderHoldsLease, Granted
<1> SUFFICES ASSUME ShortRuns, TypeOK, LeaseInv, [Next]_vars
             PROVE  LeaseInv'
  OBVIOUS
<1>0. FreshCopyExpired'
  BY FreshCopyStep
<1>1. ASSUME NEW p \in Pods, TakeNow(p)
      PROVE  LeaseInv'
  BY <1>0, <1>1 DEF TakeNow, Goto
<1>2. ASSUME NEW p \in Pods, ReadLease(p)
      PROVE  LeaseInv'
  BY <1>0, <1>2 DEF ReadLease, Goto
<1>3. ASSUME NEW p \in Pods, ReplaceLease(p)
      PROVE  LeaseInv'
  <2>1. CASE p \in fresh
    <3>1. \A q \in Pods : q # p => pc[q] # "running"
      BY <1>3, <2>1 DEF ReplaceLease, FreshCopyExpired, Expired, ShortRuns
    <3>2. QED
      BY <1>0, <1>3, <2>1, <3>1 DEF ReplaceLease, WriteLease, Goto
  <2>2. CASE p \notin fresh
    BY <1>0, <1>3, <2>2 DEF ReplaceLease, Goto
  <2>3. QED
    BY <2>1, <2>2
<1>4. ASSUME NEW p \in Pods, CreateLease(p)
      PROVE  LeaseInv'
  <2>1. CASE holder = NoLease
    <3>1. \A q \in Pods : pc[q] # "running"
      BY <2>1
    <3>2. QED
      BY <1>0, <1>4, <2>1, <3>1 DEF CreateLease, WriteLease, Goto
  <2>2. CASE holder # NoLease
    BY <1>0, <1>4, <2>2 DEF CreateLease, Goto
  <2>3. QED
    BY <2>1, <2>2
<1>5. ASSUME NEW p \in Pods, EndRun(p)
      PROVE  LeaseInv'
  BY <1>0, <1>5 DEF EndRun, Goto
<1>6. ASSUME NEW p \in Pods, ElectionError(p)
      PROVE  LeaseInv'
  <2>1. CASE holder' = holder /\ age' = age
    BY <1>0, <1>6, <2>1 DEF ElectionError, Goto
  <2>2. CASE \/ pc[p] = "replace" /\ p \in fresh
             \/ pc[p] = "create" /\ holder = NoLease
    <3>1. \A q \in Pods : q # p => pc[q] # "running"
      BY <2>2 DEF FreshCopyExpired, Expired, ShortRuns
    <3>2. QED
      BY <1>0, <1>6, <3>1 DEF ElectionError, Goto
  <2>3. QED
    BY <1>6, <2>1, <2>2 DEF ElectionError
<1>7. ASSUME NEW p \in Pods, Terminate(p)
      PROVE  LeaseInv'
  BY <1>0, <1>7 DEF Terminate, Goto
<1>8. CASE Tick
  BY <1>0, <1>8 DEF Tick, Busy, ShortRuns
<1>9. CASE UNCHANGED vars
  BY <1>9 DEF vars, FreshCopyExpired, Expired
<1>10. QED
  BY <1>1, <1>2, <1>3, <1>4, <1>5, <1>6, <1>7, <1>8, <1>9 DEF Next, Run

\* The Lease lets at most one pod run the autonomous loop at a time, for any
\* number of pods that start, race and terminate, whether or not the Lease
\* exists at first and whichever calls fail, when every run ends within the
\* lease duration.
THEOREM LeaderIsUnique == ShortRuns /\ Spec => []GrantedLeaderIsUnique
<1> SUFFICES ASSUME ShortRuns
             PROVE  Spec => []GrantedLeaderIsUnique
  OBVIOUS
<1>1. Init => LeaseInv
  BY LeaseAssumption, FreshCopyInit
     DEF Init, LeaseInv, LeaderHoldsLease, Granted
<1>2. TypeOK /\ LeaseInv /\ [Next]_vars => LeaseInv'
  BY LeaseInvStep
<1>3. LeaseInv => GrantedLeaderIsUnique
  BY DEF LeaseInv, LeaderHoldsLease, GrantedLeaderIsUnique
<1>4. QED
  BY <1>1, <1>2, <1>3, TypeCorrect, PTL DEF Spec
=============================================================================
