---------------------------- MODULE LeaderLease ----------------------------
(***************************************************************************)
(* Leader election of the SRE loop over one Kubernetes Lease               *)
(* (agents/sre/scheduler.py, _try_acquire_lease).  Every pod that runs the *)
(* backend fires the loop, each run first tries to take or renew the Lease *)
(* and only a pod that got TRUE goes on to observe and to heal.            *)
(*                                                                         *)
(* Time is relative: "age" is how long ago the renewTime written in the    *)
(* Lease was, "elapsed[p]" how long ago pod p captured its `now`.  The     *)
(* API server's optimistic concurrency (resourceVersion) is the set        *)
(* "fresh" of the pods whose copy of the Lease is still the stored one.    *)
(***************************************************************************)
EXTENDS Integers

CONSTANTS
  Pods,          \* pod names that ever run (a restarted pod has a new name)
  Gone,          \* holder left behind by an earlier pod
  NoLease,       \* the Lease object does not exist
  LeaseDuration, \* _LEASE_DURATION_S, in clock ticks
  MaxRun,        \* bound: ticks between a run's `now` and the end of the run
  ApiErrors      \* may a call to the API server fail

ASSUME LeaseAssumption ==
  /\ Gone \notin Pods
  /\ NoLease \notin Pods \cup {Gone}
  /\ LeaseDuration \in Nat
  /\ MaxRun \in Nat
  /\ ApiErrors \in BOOLEAN

VARIABLES
  holder,   \* spec.holderIdentity, or NoLease
  age,      \* time since spec.renewTime, saturating at OldAge
  fresh,    \* pods whose copy has the stored resourceVersion
  pc,       \* where each pod's loop job is
  elapsed,  \* time since `now` was captured by the pod's current run
  isLeader  \* _loop_state.is_leader of each pod

vars == <<holder, age, fresh, pc, elapsed, isLeader>>

\* Ages past this one are indistinguishable: the Lease has expired for every
\* `now` a run may still hold.
OldAge == LeaseDuration + MaxRun + 1

Labels == {"idle", "read", "replace", "create", "running", "assumed", "down"}

TypeOK ==
  /\ holder \in Pods \cup {Gone, NoLease}
  /\ age \in 0..OldAge
  /\ fresh \subseteq Pods
  /\ pc \in [Pods -> Labels]
  /\ elapsed \in [Pods -> 0..MaxRun]
  /\ isLeader \in [Pods -> BOOLEAN]

Init ==
  /\ holder \in Pods \cup {Gone, NoLease}
  /\ age = 0
  /\ fresh = {}
  /\ pc = [p \in Pods |-> "idle"]
  /\ elapsed = [p \in Pods |-> 0]
  /\ isLeader = [p \in Pods |-> FALSE]

\* The pods whose run the Lease let through, and all the pods in a run: those
\* that an exception of the election let through are there as well.
Granted == {p \in Pods : pc[p] = "running"}
Leading == {p \in Pods : pc[p] \in {"running", "assumed"}}

-----------------------------------------------------------------------------
Goto(p, label) == pc' = [pc EXCEPT ![p] = label]

\* The interval job fires and the pod captures `now`, before it reads.
TakeNow(p) ==
  /\ pc[p] = "idle"
  /\ Goto(p, "read")
  /\ elapsed' = [elapsed EXCEPT ![p] = 0]
  /\ UNCHANGED <<holder, age, fresh, isLeader>>

\* Mutant: the two times of the comparison are swapped.
ExpiredSwapped(p) == elapsed[p] - age > LeaseDuration

\* `expired` in the code: now - renewTime > _LEASE_DURATION_S, with p's `now`.
Expired(p) == age - elapsed[p] > LeaseDuration

\* read_namespaced_lease: 404 leads to the creation, a Lease that is ours or
\* expired to its replacement, any other to "not the leader".
ReadLease(p) ==
  /\ pc[p] = "read"
  /\ \/ /\ holder = NoLease
        /\ Goto(p, "create")
        /\ UNCHANGED <<fresh, isLeader>>
     \/ /\ holder # NoLease
        /\ holder = p \/ Expired(p)
        /\ Goto(p, "replace")
        /\ fresh' = fresh \cup {p}
        /\ UNCHANGED isLeader
     \/ /\ holder \notin {NoLease, p}
        /\ ~Expired(p)
        /\ Goto(p, "idle")
        /\ isLeader' = [isLeader EXCEPT ![p] = FALSE]
        /\ UNCHANGED fresh
  /\ UNCHANGED <<holder, age, elapsed>>

\* The Lease is written with holder p and renewTime the `now` of p; every
\* other pod's copy becomes outdated.
WriteLease(p) ==
  /\ holder' = p
  /\ age' = elapsed[p]
  /\ fresh' = {}
  /\ isLeader' = [isLeader EXCEPT ![p] = TRUE]
  /\ Goto(p, "running")

\* Mutant: the Lease is written whatever its resourceVersion.
Overwrite(p) ==
  /\ pc[p] = "replace"
  /\ WriteLease(p)
  /\ UNCHANGED elapsed

\* replace_namespaced_lease, refused with 409 when the copy is outdated.
ReplaceLease(p) ==
  /\ pc[p] = "replace"
  /\ \/ /\ p \in fresh
        /\ WriteLease(p)
     \/ /\ p \notin fresh
        /\ isLeader' = [isLeader EXCEPT ![p] = FALSE]
        /\ Goto(p, "idle")
        /\ UNCHANGED <<holder, age, fresh>>
  /\ UNCHANGED elapsed

\* create_namespaced_lease.  When another pod created it first the 409 is
\* raised inside the handler of the 404 and reaches the outer except.
CreateLease(p) ==
  /\ pc[p] = "create"
  /\ \/ /\ holder = NoLease
        /\ WriteLease(p)
     \/ /\ holder # NoLease
        /\ Goto(p, "assumed")
        /\ UNCHANGED <<holder, age, fresh, isLeader>>
  /\ UNCHANGED elapsed

\* Any other exception: the pod assumes it leads and leaves is_leader alone.
\* A write whose answer is lost may have been applied.
ElectionError(p) ==
  /\ ApiErrors
  /\ pc[p] \in {"read", "replace", "create"}
  /\ Goto(p, "assumed")
  /\ \/ /\ fresh' = fresh \ {p}
        /\ UNCHANGED <<holder, age>>
     \/ /\ \/ pc[p] = "replace" /\ p \in fresh
           \/ pc[p] = "create" /\ holder = NoLease
        /\ holder' = p
        /\ age' = elapsed[p]
        /\ fresh' = {}
  /\ UNCHANGED <<elapsed, isLeader>>

\* The run that _try_acquire_lease let through comes to its end.
EndRun(p) ==
  /\ pc[p] \in {"running", "assumed"}
  /\ Goto(p, "idle")
  /\ UNCHANGED <<holder, age, fresh, elapsed, isLeader>>

\* The pod is terminated (rollout, scale down, crash); its Lease stays.
Terminate(p) ==
  /\ pc[p] # "down"
  /\ Goto(p, "down")
  /\ fresh' = fresh \ {p}
  /\ UNCHANGED <<holder, age, elapsed, isLeader>>

Busy(p) == pc[p] \notin {"idle", "down"}

Tick ==
  /\ \A p \in Pods : Busy(p) => elapsed[p] < MaxRun
  /\ age' = IF age = OldAge THEN age ELSE age + 1
  /\ elapsed' = [p \in Pods |-> IF Busy(p) THEN elapsed[p] + 1 ELSE elapsed[p]]
  /\ UNCHANGED <<holder, fresh, pc, isLeader>>

Run(p) ==
  \/ TakeNow(p) \/ ReadLease(p) \/ ReplaceLease(p)
  \/ CreateLease(p) \/ EndRun(p)

Next ==
  \/ \E p \in Pods : Run(p) \/ ElectionError(p) \/ Terminate(p)
  \/ Tick

Spec == Init /\ [][Next]_vars

\* APScheduler keeps firing the job of a live pod and a run it started goes
\* on; time does not stop.  Nothing makes a call fail or a pod terminate.
Fairness == SF_vars(Tick) /\ \A p \in Pods : WF_vars(Run(p))

FairSpec == Spec /\ Fairness

-----------------------------------------------------------------------------
\* Two pods never run the autonomous loop at the same time: what the Lease is
\* there for ("Kubernetes Lease para single-leader en multi-pod").
SingleLeader == \A p, q \in Leading : p = q

\* The Lease itself lets through one pod at a time, whichever calls fail and
\* whichever pods were let through by an exception next to it.
GrantedLeaderIsUnique == \A p, q \in Granted : p = q

\* A pod takes the Lease over from another holder only once the renewTime is
\* really older than the lease duration, although it decided so on a copy of
\* the Lease and on a `now` that are both older than the write.
TakeoverOnlyAfterExpiry ==
  [][ holder # NoLease /\ holder' # holder => age > LeaseDuration ]_vars

\* The loop survives the death of its leader: as long as one pod stays up some
\* pod leads again and again, after the dead holder's lease has expired.
LoopGoesOn ==
  \/ []<>(Leading # {})
  \/ <>(\A p \in Pods : pc[p] = "down")
=============================================================================
