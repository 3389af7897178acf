-------------------------- MODULE GitOpsFixProofs --------------------------
(***************************************************************************)
(* What the handoff to Camael guarantees for any incidents, deployments    *)
(* and delays, until Redis fails, when a thread of Camael does not outlive *)
(* the lock of its handoff.                                                *)
(***************************************************************************)
EXTENDS GitOpsFix, TLAPS

\* Every state of the handoff, of Camael's threads and of the verification has
\* the types the module declares, whatever fails.
THEOREM TypeCorrect == Spec => []TypeOK
<1> USE FixAssumption DEF TypeOK
<1>1. Init => TypeOK
  <2>1. Init => outage \in BOOLEAN /\ redisUp \in BOOLEAN
    BY Zenon DEF Init
  <2>2. Init => job \in [Incidents -> BOOLEAN]
    BY Zenon DEF Init
  <2>3. QED
    BY <2>1, <2>2 DEF Init
<1>2. TypeOK /\ [Next]_vars => TypeOK'
  <2> SUFFICES ASSUME TypeOK, [Next]_vars
               PROVE  TypeOK'
    OBVIOUS
  <2>1. ASSUME NEW i \in Incidents, Handoff(i)
        PROVE  TypeOK'
    <3>1. job' \in [Incidents -> BOOLEAN]
      BY <2>1, Zenon DEF Handoff, Schedule
    <3>2. due' \in [Incidents -> 0..VerifyDelay] /\ handoffs' \in 0..MaxHandoffs
      BY <2>1 DEF Handoff, Schedule
    <3>3. /\ gitops' \in [Deployments -> 0..HandoffTTL] /\ memLock' \subseteq Deployments
          /\ fix' \in [Incidents -> {"none", "check", "create", "save"}]
          /\ fixAge' \in [Incidents -> 0..FixTicks]
          /\ late' \subseteq acting
      BY <2>1 DEF Handoff, LockAndStart, SkipHandoff, StartThread
    <3>4. QED
      BY <2>1, <3>1, <3>2, <3>3 DEF Handoff
  <2>2. ASSUME NEW i \in Incidents, Camael(i) \/ FixError(i)
        PROVE  TypeOK'
    BY <2>2 DEF Camael, CheckPending, CreatePR, SavePending, FixError, EndThread
  <2>3. ASSUME NEW i \in Incidents, Settle(i)
        PROVE  TypeOK'
    BY <2>3 DEF Settle
  <2>4. ASSUME NEW i \in Incidents, VerifyWait(i)
        PROVE  TypeOK'
    <3>1. job' \in [Incidents -> BOOLEAN]
      BY <2>4, Zenon DEF VerifyWait, Schedule
    <3>2. QED
      BY <2>4, <3>1 DEF VerifyWait, Schedule
  <2>5. ASSUME NEW i \in Incidents, VerifyOk(i) \/ VerifyFails(i)
        PROVE  TypeOK'
    <3>1. job' \in [Incidents -> BOOLEAN]
      BY <2>5, Zenon DEF VerifyOk, VerifyFails, EndJob
    <3>2. QED
      BY <2>5, <3>1 DEF VerifyOk, VerifyFails, EndJob
  <2>6. ASSUME NEW i \in Incidents, Act(i)
        PROVE  TypeOK'
    BY <2>6 DEF Act
  <2>7. CASE Crash
    BY <2>7 DEF Crash
  <2>8. CASE SetRedis
    BY <2>8 DEF SetRedis
  <2>9. CASE Tick
    BY <2>9 DEF Tick, Less, Working
  <2>10. CASE UNCHANGED vars
    BY <2>10 DEF vars
  <2>11. QED
    BY <2>1, <2>2, <2>3, <2>4, <2>5, <2>6, <2>7, <2>8, <2>9, <2>10
       DEF Next, Verify
<1>3. QED
  BY <1>1, <1>2, PTL DEF Spec

-----------------------------------------------------------------------------
\* A thread that prepares a fix is covered by the lock of its handoff: the key
\* has lost no more of its life than the thread has lived.
LockCovers ==
  \A i \in Incidents : Working(i) => gitops[Target[i]] + fixAge[i] >= HandoffTTL

Disjoint ==
  \A i, j \in Incidents : Working(i) /\ Working(j) /\ Target[i] = Target[j] => i = j

FixInv == ~outage => redisUp /\ LockCovers /\ Disjoint

\* While the thread lives the key is there.
LEMMA LockThere ==
  ASSUME TypeOK, LockCovers, NEW i \in Incidents, Working(i)
  PROVE  gitops[Target[i]] > 0
BY FixAssumption DEF TypeOK, LockCovers

\* Only a handoff starts a thread, and it takes the lock first.
LEMMA FixInvStep ==
  TypeOK /\ FixInv /\ [Next]_vars => FixInv'
<1> SUFFICES ASSUME TypeOK, FixInv, [Next]_vars
             PROVE  FixInv'
  OBVIOUS
<1> USE FixAssumption DEF TypeOK, FixInv, LockCovers, Disjoint, Working
<1>1. ASSUME NEW i \in Incidents, Handoff(i)
      PROVE  FixInv'
  <2>1. CASE outage
    BY <1>1, <2>1 DEF Handoff
  <2>2. CASE SkipHandoff
    BY <1>1, <2>2 DEF Handoff, SkipHandoff
  <2>3. CASE /\ ~outage
             /\ gitops[Target[i]] = 0
             /\ gitops' = [gitops EXCEPT ![Target[i]] = HandoffTTL]
             /\ StartThread(i)
    <3>1. \A j \in Incidents : Target[j] = Target[i] => fix[j] = "none"
      BY <2>3, LockThere
    <3>2. QED
      BY <1>1, <2>3, <3>1 DEF Handoff, StartThread
  <2>4. QED
    BY <1>1, <2>1, <2>2, <2>3 DEF Handoff, LockAndStart
<1>2. ASSUME NEW i \in Incidents, Camael(i) \/ FixError(i)
      PROVE  FixInv'
  BY <1>2 DEF Camael, CheckPending, CreatePR, SavePending, FixError, EndThread
<1>3. ASSUME NEW i \in Incidents, Settle(i) \/ Verify(i)
      PROVE  FixInv'
  BY <1>3 DEF Settle, Verify, VerifyWait, VerifyOk, VerifyFails, Act
<1>4. CASE Crash
  BY <1>4 DEF Crash
<1>5. CASE Tick
  BY <1>5 DEF Tick, Less
<1>6. CASE UNCHANGED vars
  BY <1>6 DEF vars
<1>7. QED
  BY <1>1, <1>2, <1>3, <1>4, <1>5, <1>6 DEF Next, SetRedis

\* The invariant holds from the start.
LEMMA FixInvariant == Spec => []FixInv
<1>1. Init => FixInv
  BY DEF Init, FixInv, LockCovers, Disjoint, Working
<1>2. TypeOK /\ FixInv /\ [Next]_vars => FixInv'
  BY FixInvStep
<1>3. QED
  BY <1>1, <1>2, TypeCorrect, PTL DEF Spec

\* Until Redis fails, at most one thread prepares a fix for a deployment,
\* whatever pods crash and whatever calls fail: the SET NX of
\* handoff_to_camael is the only gate, and it stays shut as long as the thread
\* lives.
THEOREM OneFixPerDeployment == Spec => []OneFixAtATime
<1>1. FixInv => OneFixAtATime
  BY DEF FixInv, Disjoint, OneFixAtATime
<1>2. QED
  BY <1>1, FixInvariant, PTL

\* What a step leaves to a verification that acts and found no fix: whoever has
\* begun to act found neither key, and only a handoff starts a thread.
LEMMA ActingStep ==
  TypeOK /\ TypeOK' /\ FixInv /\ NoRollbackOverFix /\ [Next]_vars => NoRollbackOverFix'
<1> SUFFICES ASSUME TypeOK, TypeOK', FixInv, NoRollbackOverFix, [Next]_vars, ~outage',
                    NEW i \in Incidents, i \in acting' \ late'
             PROVE  /\ pending'[i] = 0
                    /\ \A j \in Incidents : Target[j] = Target[i] => fix'[j] = "none"
  BY DEF NoRollbackOverFix, Working, TypeOK
<1> DEFINE Goal == /\ pending'[i] = 0
                   /\ \A j \in Incidents : Target[j] = Target[i] => fix'[j] = "none"
<1> USE FixAssumption
<1>1. ~outage
  BY DEF Next, vars, Handoff, Camael, CheckPending, CreatePR, SavePending, FixError,
         Settle, Verify, VerifyWait, VerifyOk, VerifyFails, Act, Crash, SetRedis, Tick
<1>2. ASSUME i \in acting \ late
      PROVE  /\ pending[i] = 0
             /\ \A j \in Incidents : Target[j] = Target[i] => fix[j] = "none"
  BY <1>1, <1>2 DEF NoRollbackOverFix, Working
<1>3. ASSUME NEW k \in Incidents, Handoff(k)
      PROVE  Goal
  <2>1. acting' = acting /\ pending' = pending
    BY <1>3 DEF Handoff
  <2>2. CASE UNCHANGED <<fix, late>>
    BY <1>2, <2>1, <2>2
  <2>3. CASE StartThread(k)
    <3>1. fix' = [fix EXCEPT ![k] = "check"]
          /\ late' = late \cup {j \in acting : Target[j] = Target[k]}
      BY <2>3 DEF StartThread
    <3>2. i \in acting \ late /\ Target[i] # Target[k]
      BY <2>1, <3>1
    <3>3. \A j \in Incidents \ {k} : fix'[j] = fix[j]
      BY <3>1 DEF TypeOK
    <3>4. QED
      BY <1>2, <2>1, <3>2, <3>3
  <2>4. QED
    BY <1>3, <2>2, <2>3 DEF Handoff, LockAndStart, SkipHandoff
<1>4. ASSUME NEW k \in Incidents, Camael(k) \/ FixError(k)
      PROVE  Goal
  <2>1. acting' = acting /\ late' = late /\ fix[k] # "none"
    BY <1>4 DEF Camael, CheckPending, CreatePR, SavePending, FixError
  <2>2. Target[k] # Target[i]
    BY <1>2, <2>1
  <2>3. \A j \in Incidents \ {k} : fix'[j] = fix[j] /\ pending'[j] = pending[j]
    BY <1>4 DEF Camael, CheckPending, CreatePR, SavePending, FixError, EndThread, TypeOK
  <2>4. QED
    BY <1>2, <2>1, <2>2, <2>3
<1>5. ASSUME NEW k \in Incidents, Settle(k)
      PROVE  Goal
  <2>1. pending'[i] \in {pending[i], 0} /\ UNCHANGED <<acting, late, fix>>
    BY <1>5 DEF Settle, TypeOK
  <2>2. QED
    BY <1>2, <2>1
<1>6. ASSUME NEW k \in Incidents, VerifyWait(k) \/ VerifyOk(k)
      PROVE  Goal
  BY <1>2, <1>6 DEF VerifyWait, VerifyOk
<1>7. ASSUME NEW k \in Incidents, VerifyFails(k)
      PROVE  Goal
  <2>1. UNCHANGED <<pending, fix>> /\ acting' = acting \cup {k} /\ late' = late \ {k}
    BY <1>7 DEF VerifyFails
  <2>2. CASE i # k
    BY <1>2, <2>1, <2>2
  <2>3. CASE i = k
    <3>1. pending[i] <= 0 /\ gitops[Target[i]] <= 0
      BY <1>1, <1>7, <2>3 DEF VerifyFails, HasPendingPR, FixInv, TypeOK
    <3>2. ASSUME NEW j \in Incidents, Target[j] = Target[i]
          PROVE  fix[j] = "none"
      BY <1>1, <3>1, <3>2, LockThere DEF FixInv, TypeOK, Working
    <3>3. pending[i] = 0
      BY <3>1 DEF TypeOK
    <3>4. QED
      BY <2>1, <3>2, <3>3
  <2>4. QED
    BY <2>2, <2>3
<1>8. ASSUME NEW k \in Incidents, Act(k)
      PROVE  Goal
  BY <1>2, <1>8 DEF Act
<1>9. CASE Crash
  BY <1>9 DEF Crash
<1>10. CASE Tick
  <2>1. pending'[i] = Less(pending[i]) /\ UNCHANGED <<acting, late, fix>>
    BY <1>10 DEF Tick
  <2>2. QED
    BY <1>2, <2>1 DEF Less
<1>11. CASE UNCHANGED vars
  BY <1>2, <1>11 DEF vars
<1>12. QED
  BY <1>3, <1>4, <1>5, <1>6, <1>7, <1>8, <1>9, <1>10, <1>11 DEF Next, Verify, SetRedis

\* Until Redis fails, a verification that is about to roll a deployment back does
\* so over no fix on its way, unless that one was handed off after it had looked:
\* the lock of a handoff covers its thread until the pending key takes over.
THEOREM RollbackWaitsForFix == Spec => []NoRollbackOverFix
<1>1. Init => NoRollbackOverFix
  BY DEF Init, NoRollbackOverFix
<1>2. QED
  BY <1>1, ActingStep, TypeCorrect, FixInvariant, PTL DEF Spec
=============================================================================
