------------------------- MODULE ChatWorkflowProofs -------------------------
(***************************************************************************)
(* What the pipeline of the chat keeps for any requests, plans and         *)
(* settings: its types, that LangGraph never cuts it off when the settings *)
(* leave room, and that it implements PlanExecution when no batch can be   *)
(* turned away.  What planner and grouper compute is proved by induction,  *)
(* from the well-foundedness of the natural numbers.                       *)
(***************************************************************************)
EXTENDS ChatWorkflow, FiniteSetTheorems, SequenceTheorems, TLAPS

\* The settings are numbers.
LEMMA Settings ==
  /\ MaxPlanSteps \in Nat /\ MaxPlanSteps > 1
  /\ MaxRetries \in Nat /\ RecursionLimit \in Nat /\ MaxRawSteps \in Nat
  /\ MaxGraphIterations = MaxPlanSteps + 2
  /\ MaxConcurrentSteps \in Nat /\ MaxConcurrentSteps > 0 /\ MaxQueueDepth \in Nat
BY WorkflowAssumption

-----------------------------------------------------------------------------
(* Induction                                                               *)

\* A set of numbers that holds 0 and with a number its successor holds them all.
LEMMA InductiveSet ==
  ASSUME NEW T, 0 \in T, \A n \in Nat : n \in T => n + 1 \in T
  PROVE  Nat \subseteq T
<1> SUFFICES ASSUME Nat \ T # {}
             PROVE  FALSE
  OBVIOUS
<1> DEFINE R == {ss \in Nat \X Nat : ss[1] < ss[2]}
           U == Nat \ T
<1>1. IsWellFoundedOn(R, Nat)
  BY NatLessThanWellFounded DEF OpToRel
<1>2. \A j, k \in Nat : <<j, k>> \in R <=> j < k
  OBVIOUS
<1>3. PICK m \in U : \A k \in U : ~ (<<k, m>> \in R)
  <2>1. U \subseteq Nat /\ U # {}
    OBVIOUS
  <2> HIDE DEF R, U
  <2>2. QED
    BY <1>1, <2>1, WFMin
<1>4. ASSUME NEW k \in U
      PROVE  m <= k
  <2>1. k \in Nat /\ m \in Nat /\ ~ (<<k, m>> \in R)
    BY <1>3
  <2>2. ~ (k < m)
    <3> HIDE DEF R
    <3> QED
      BY <1>2, <2>1
  <2>3. QED
    BY <2>1, <2>2
<1>5. m # 0 /\ m - 1 \in Nat
  OBVIOUS
<1>6. m - 1 \in T
  BY <1>4, <1>5
<1>7. QED
  BY <1>5, <1>6

-----------------------------------------------------------------------------
(* The planner                                                             *)

\* The loop of _validate_plan: what it has collected after a step follows from
\* what it had collected before.
Kept(raw, steps, n) == IF raw[n] = "INVALID" THEN steps ELSE Append(steps, raw[n])

\* Such a loop over n steps has a result.
LEMMA KeptExists ==
  ASSUME NEW raw, NEW n \in Nat
  PROVE  \E f : f = [k \in 0..n |-> IF k = 0 THEN <<>> ELSE Kept(raw, f[k - 1], k)]
<1> DEFINE Good(f, m) == f = [k \in 0..m |-> IF k = 0 THEN <<>> ELSE Kept(raw, f[k - 1], k)]
           T == {m \in Nat : \E f : Good(f, m)}
<1>1. 0 \in T
  <2>1. Good([k \in 0..0 |-> <<>>], 0)
    OBVIOUS
  <2>2. QED
    BY <2>1
<1>2. ASSUME NEW m \in Nat, m \in T
      PROVE  m + 1 \in T
  <2>1. PICK f : Good(f, m)
    BY <1>2
  <2> DEFINE g == [k \in 0..(m + 1) |-> IF k = m + 1 THEN Kept(raw, f[m], m + 1) ELSE f[k]]
  <2>2. Good(g, m + 1)
    <3>1. ASSUME NEW k \in 0..(m + 1)
          PROVE  g[k] = IF k = 0 THEN <<>> ELSE Kept(raw, g[k - 1], k)
      BY <2>1
    <3>2. QED
      BY <3>1
  <2>3. QED
    <3> HIDE DEF Good, g
    <3> QED
      BY <2>2
<1>3. n \in T
  <2> HIDE DEF T
  <2> QED
    BY <1>1, <1>2, InductiveSet
<1>4. QED
  BY <1>3

\* Validated is the result of that loop.
LEMMA ValidatedRec ==
  ASSUME NEW raw \in Seq(RawKinds)
  PROVE  \E f : /\ Validated(raw) = f[Len(raw)]
                /\ f = [k \in 0..Len(raw) |-> IF k = 0 THEN <<>> ELSE Kept(raw, f[k - 1], k)]
<1>1. PICK g : g = [k \in 0..Len(raw) |-> IF k = 0 THEN <<>> ELSE Kept(raw, g[k - 1], k)]
  <2>1. Len(raw) \in Nat
    OBVIOUS
  <2>2. QED
    BY <2>1, KeptExists
<1>2. QED
  BY <1>1, Zenon DEF Validated, Kept

\* Only valid steps are collected.
LEMMA ValidatedType ==
  ASSUME NEW raw \in Seq(RawKinds)
  PROVE  Validated(raw) \in Seq(Kinds)
<1>1. PICK f : /\ Validated(raw) = f[Len(raw)]
               /\ f = [k \in 0..Len(raw) |-> IF k = 0 THEN <<>> ELSE Kept(raw, f[k - 1], k)]
  BY ValidatedRec
<1>2. Len(raw) \in Nat
  OBVIOUS
<1> DEFINE T == {k \in Nat : k <= Len(raw) => f[k] \in Seq(Kinds)}
<1>3. 0 \in T
  BY <1>1
<1>4. ASSUME NEW k \in Nat, k \in T
      PROVE  k + 1 \in T
  <2> SUFFICES ASSUME k + 1 <= Len(raw)
               PROVE  f[k + 1] \in Seq(Kinds)
    BY <1>4
  <2>1. f[k] \in Seq(Kinds)
    BY <1>2, <1>4
  <2>2. f[k + 1] = Kept(raw, f[k], k + 1)
    BY <1>1, <1>2
  <2>3. raw[k + 1] \in RawKinds
    BY <1>2
  <2>4. QED
    BY <2>1, <2>2, <2>3 DEF Kept, RawKinds
<1>5. Nat \subseteq T
  <2> HIDE DEF T
  <2> QED
    BY <1>3, <1>4, InductiveSet
<1>6. QED
  BY <1>1, <1>2, <1>5

\* Whatever the LLM answers, the plan has a step, none that is invalid and no more
\* than MAX_PLAN_STEPS.
LEMMA PlanIsGood ==
  ASSUME NEW len \in Nat, NEW raw \in [1..len -> RawKinds], NEW r,
         NEW valid, valid = ValidatePlan(raw),
         NEW steps, steps = FastPath(r, IF valid = <<>> THEN <<"REASONING">> ELSE valid)
  PROVE  steps \in Seq(Kinds) /\ Len(steps) \in 1..MaxPlanSteps
<1>1. raw \in Seq(RawKinds)
  OBVIOUS
<1>2. Validated(raw) \in Seq(Kinds)
  BY <1>1, ValidatedType
<1>3. valid \in Seq(Kinds) /\ Len(valid) <= MaxPlanSteps
  <2> DEFINE v == Validated(raw)
             n == Least(Len(v), MaxPlanSteps)
  <2>1. n \in 0..Len(v) /\ n <= MaxPlanSteps
    BY <1>2, Settings DEF Least
  <2>2. valid = SubSeq(v, 1, n)
    BY DEF ValidatePlan
  <2>3. v \in Seq(Kinds)
    BY <1>2
  <2> HIDE DEF v, n
  <2>4. \A i \in 1..n : v[i] \in Kinds
    BY <2>1, <2>3
  <2>5. SubSeq(v, 1, n) \in Seq(Kinds) /\ Len(SubSeq(v, 1, n)) = n
    BY <2>1, <2>3
  <2>6. QED
    BY <2>1, <2>2, <2>5
<1>4. CASE steps = <<"TOOL", "REASONING">>
  <2>1. "TOOL" \in Kinds /\ "REASONING" \in Kinds
    BY DEF Kinds
  <2>2. <<"TOOL", "REASONING">> \in Seq(Kinds) /\ Len(<<"TOOL", "REASONING">>) = 2
    BY <2>1
  <2>3. 2 \in 1..MaxPlanSteps
    BY Settings
  <2>4. QED
    BY <1>4, <2>2, <2>3
<1>5. CASE steps = IF valid = <<>> THEN <<"REASONING">> ELSE valid
  <2>1. CASE valid = <<>>
    <3>1. "REASONING" \in Kinds
      BY DEF Kinds
    <3>2. <<"REASONING">> \in Seq(Kinds) /\ Len(<<"REASONING">>) = 1
      BY <3>1
    <3>3. 1 \in 1..MaxPlanSteps
      BY Settings
    <3>4. QED
      BY <1>5, <2>1, <3>2, <3>3
  <2>2. CASE valid # <<>>
    BY <1>3, <1>5, <2>2
  <2>3. QED
    BY <2>1, <2>2
<1>6. QED
  BY <1>4, <1>5 DEF FastPath

-----------------------------------------------------------------------------
(* The grouper                                                             *)

Nothing == [full |-> <<>>, open |-> {}]

\* One turn of the loop of group_plan_into_batches.
Grouping(steps, b, n) ==
  IF steps[n] = "REASONING"
  THEN [full |-> Append(Flush(b), {n}), open |-> {}]
  ELSE [full |-> b.full, open |-> b.open \cup {n}]

\* Such a loop over n steps has a result.
LEMMA GroupingExists ==
  ASSUME NEW steps, NEW n \in Nat
  PROVE  \E f : f = [k \in 0..n |-> IF k = 0 THEN Nothing ELSE Grouping(steps, f[k - 1], k)]
<1> DEFINE Good(f, m) ==
             f = [k \in 0..m |-> IF k = 0 THEN Nothing ELSE Grouping(steps, f[k - 1], k)]
           T == {m \in Nat : \E f : Good(f, m)}
<1>1. 0 \in T
  <2>1. Good([k \in 0..0 |-> Nothing], 0)
    OBVIOUS
  <2>2. QED
    BY <2>1
<1>2. ASSUME NEW m \in Nat, m \in T
      PROVE  m + 1 \in T
  <2>1. PICK f : Good(f, m)
    BY <1>2
  <2> DEFINE g == [k \in 0..(m + 1) |->
                     IF k = m + 1 THEN Grouping(steps, f[m], m + 1) ELSE f[k]]
  <2>2. Good(g, m + 1)
    <3>1. ASSUME NEW k \in 0..(m + 1)
          PROVE  g[k] = IF k = 0 THEN Nothing ELSE Grouping(steps, g[k - 1], k)
      BY <2>1
    <3>2. QED
      BY <3>1
  <2>3. QED
    <3> HIDE DEF Good, g
    <3> QED
      BY <2>2
<1>3. n \in T
  <2> HIDE DEF T
  <2> QED
    BY <1>1, <1>2, InductiveSet
<1>4. QED
  BY <1>3

\* Collected is what that loop has after each step.
LEMMA CollectedRec ==
  ASSUME NEW steps \in Seq(Kinds)
  PROVE  Collected(steps)
           = [k \in 0..Len(steps) |->
                IF k = 0 THEN Nothing ELSE Grouping(steps, Collected(steps)[k - 1], k)]
<1>1. PICK g : g = [k \in 0..Len(steps) |->
                      IF k = 0 THEN Nothing ELSE Grouping(steps, g[k - 1], k)]
  <2>1. Len(steps) \in Nat
    OBVIOUS
  <2>2. QED
    BY <2>1, GroupingExists
<1>2. QED
  BY <1>1, Zenon DEF Collected, Grouping, Nothing

\* What `bs` are the batches of: the first n steps, in order, none of them empty and
\* none shared, and a REASONING step alone in its batch.
Batched(steps, bs, n) ==
  /\ bs \in Seq(SUBSET (1..n)) /\ Len(bs) <= n
  /\ \A k \in 1..Len(bs) : bs[k] # {}
  /\ \A m \in 1..n : \E k \in 1..Len(bs) : m \in bs[k]
  /\ \A j, k \in 1..Len(bs) : \A l \in bs[j], m \in bs[k] : j < k => l < m
  /\ \A k \in 1..Len(bs) : \A m \in bs[k] : steps[m] = "REASONING" => bs[k] = {m}

\* The loop has the first n steps in its batches and, after them, in its tools.
LEMMA AppendBatch ==
  ASSUME NEW steps, NEW bs, NEW l \in Nat, NEW n \in Nat, l < n, Batched(steps, bs, l),
         NEW b, b = (l + 1)..n, \A m \in b : steps[m] = "REASONING" => b = {m}
  PROVE  Batched(steps, Append(bs, b), n)
<1> DEFINE cs == Append(bs, b)
<1>1. /\ bs \in Seq(SUBSET (1..l)) /\ Len(bs) \in Nat /\ Len(bs) <= l
      /\ \A k \in 1..Len(bs) : bs[k] \subseteq 1..l /\ bs[k] # {}
  BY DEF Batched
<1>2. b \subseteq 1..n /\ b # {} /\ \A m \in b : m > l
  OBVIOUS
<1>3. cs \in Seq(SUBSET (1..n))
  <2>1. bs \in Seq(SUBSET (1..n))
    <3>1. SUBSET (1..l) \subseteq SUBSET (1..n)
      OBVIOUS
    <3>2. QED
      BY <1>1, <3>1, SeqMonotonic
  <2>2. QED
    BY <1>2, <2>1
<1>4. /\ Len(cs) = Len(bs) + 1 /\ cs[Len(bs) + 1] = b
      /\ \A k \in 1..Len(bs) : cs[k] = bs[k]
  BY <1>1
<1> HIDE DEF cs
<1>5. \A k \in 1..Len(cs) : k = Len(bs) + 1 \/ k \in 1..Len(bs)
  BY <1>1, <1>4
<1>6. \A k \in 1..Len(cs) : cs[k] # {}
  BY <1>1, <1>2, <1>4, <1>5
<1>7. ASSUME NEW m \in 1..n
      PROVE  \E k \in 1..Len(cs) : m \in cs[k]
  <2>1. CASE m <= l
    <3> m \in 1..l
      BY <2>1
    <3>1. PICK k \in 1..Len(bs) : m \in bs[k]
      BY DEF Batched
    <3>2. k \in 1..Len(cs)
      BY <1>1, <1>4
    <3>3. QED
      BY <1>4, <3>1, <3>2
  <2>2. CASE m > l
    <3>1. m \in b /\ Len(bs) + 1 \in 1..Len(cs)
      BY <1>1, <1>4, <2>2
    <3>2. QED
      BY <1>4, <3>1
  <2>3. QED
    BY <2>1, <2>2
<1>8. ASSUME NEW j \in 1..Len(cs), NEW k \in 1..Len(cs), j < k,
             NEW x \in cs[j], NEW m \in cs[k]
      PROVE  x < m
  <2>1. j \in 1..Len(bs)
    BY <1>1, <1>4, <1>8
  <2>2. x \in bs[j] /\ x \in 1..l
    BY <1>1, <1>4, <2>1
  <2>3. CASE k \in 1..Len(bs)
    BY <1>4, <1>8, <2>1, <2>2, <2>3 DEF Batched
  <2>4. CASE k = Len(bs) + 1
    BY <1>2, <1>4, <2>2, <2>4
  <2>5. QED
    BY <1>5, <2>3, <2>4
<1>9. ASSUME NEW k \in 1..Len(cs), NEW m \in cs[k], steps[m] = "REASONING"
      PROVE  cs[k] = {m}
  <2>1. CASE k \in 1..Len(bs)
    BY <1>4, <1>9, <2>1 DEF Batched
  <2>2. CASE k = Len(bs) + 1
    BY <1>4, <1>9, <2>2
  <2>3. QED
    BY <1>5, <2>1, <2>2
<1>10. Len(cs) <= n
  BY <1>1, <1>4
<1>11. Batched(steps, cs, n)
  BY <1>3, <1>6, <1>7, <1>8, <1>9, <1>10 DEF Batched
<1>12. QED
  BY <1>11 DEF cs

\* What the loop has of the first k steps: the batches of the first l, the others
\* open, none of those a REASONING.
Halfway(steps, b, l, k) ==
  /\ l \in 0..k
  /\ b = [full |-> b.full, open |-> b.open]
  /\ Batched(steps, b.full, l)
  /\ b.open = (l + 1)..k
  /\ \A m \in b.open : steps[m] # "REASONING"

\* Flushing what the loop has open completes the batches of the first k steps.
LEMMA FlushBatches ==
  ASSUME NEW steps, NEW b, NEW l, NEW k \in Nat, Halfway(steps, b, l, k)
  PROVE  Batched(steps, Flush(b), k)
<1>1. l \in Nat /\ l <= k
  BY DEF Halfway
<1>2. CASE l = k
  <2>1. b.open = {}
    BY <1>1, <1>2 DEF Halfway
  <2>2. QED
    BY <1>2, <2>1 DEF Halfway, Flush
<1>3. CASE l # k
  <2>1. l < k
    BY <1>1, <1>3
  <2>2. b.open = (l + 1)..k /\ b.open # {}
    BY <1>1, <2>1 DEF Halfway
  <2>3. Batched(steps, b.full, l)
    BY DEF Halfway
  <2>4. \A m \in b.open : steps[m] = "REASONING" => b.open = {m}
    BY DEF Halfway
  <2>5. Batched(steps, Append(b.full, b.open), k)
    BY <1>1, <2>1, <2>2, <2>3, <2>4, AppendBatch
  <2>6. QED
    BY <2>2, <2>5 DEF Flush
<1>4. QED
  BY <1>2, <1>3

\* The loop begins with nothing.
LEMMA NoBatches ==
  ASSUME NEW steps
  PROVE  Halfway(steps, Nothing, 0, 0)
<1>1. <<>> \in Seq(SUBSET (1..0)) /\ Len(<<>>) = 0
  OBVIOUS
<1>2. 1..0 = {} /\ (0 + 1)..0 = {} /\ 0 \in 0..0
  OBVIOUS
<1>3. Batched(steps, <<>>, 0)
  BY <1>1, <1>2 DEF Batched
<1>4. QED
  BY <1>2, <1>3 DEF Halfway, Nothing

\* A turn of the loop takes one more step into its batches.
LEMMA NextStep ==
  ASSUME NEW steps, NEW b, NEW l, NEW k \in Nat, Halfway(steps, b, l, k)
  PROVE  \E m : Halfway(steps, Grouping(steps, b, k + 1), m, k + 1)
<1>1. l \in 0..k /\ l \in Nat /\ k + 1 \in Nat
  BY DEF Halfway
<1>2. CASE steps[k + 1] = "REASONING"
  <2> DEFINE c == [full |-> Append(Flush(b), {k + 1}), open |-> {}]
  <2>1. Grouping(steps, b, k + 1) = c
    BY <1>2 DEF Grouping
  <2>2. Batched(steps, Flush(b), k)
    BY FlushBatches
  <2>3. {k + 1} = (k + 1)..(k + 1) /\ k < k + 1
    OBVIOUS
  <2>4. \A m \in {k + 1} : steps[m] = "REASONING" => {k + 1} = {m}
    OBVIOUS
  <2>5. Batched(steps, Append(Flush(b), {k + 1}), k + 1)
    BY <1>1, <2>2, <2>3, <2>4, AppendBatch
  <2>6. c.open = {} /\ c.full = Append(Flush(b), {k + 1})
    OBVIOUS
  <2>7. ((k + 1) + 1)..(k + 1) = {} /\ k + 1 \in 0..(k + 1)
    OBVIOUS
  <2>8. c = [full |-> c.full, open |-> c.open]
    OBVIOUS
  <2> HIDE DEF c
  <2>9. Halfway(steps, c, k + 1, k + 1)
    BY <2>5, <2>6, <2>7, <2>8 DEF Halfway
  <2>10. QED
    BY <2>1, <2>9
<1>3. CASE steps[k + 1] # "REASONING"
  <2> DEFINE c == [full |-> b.full, open |-> b.open \cup {k + 1}]
  <2>1. Grouping(steps, b, k + 1) = c
    BY <1>3 DEF Grouping
  <2>2. c.full = b.full /\ c.open = b.open \cup {k + 1}
    OBVIOUS
  <2>3. c = [full |-> c.full, open |-> c.open]
    OBVIOUS
  <2> HIDE DEF c
  <2>4. c.open = (l + 1)..(k + 1)
    <3>1. b.open = (l + 1)..k
      BY DEF Halfway
    <3>2. ((l + 1)..k) \cup {k + 1} = (l + 1)..(k + 1)
      BY <1>1
    <3>3. QED
      BY <2>2, <3>1, <3>2
  <2>5. \A m \in c.open : steps[m] # "REASONING"
    BY <1>3, <2>2 DEF Halfway
  <2>6. l \in 0..(k + 1)
    BY <1>1
  <2>7. Batched(steps, c.full, l)
    BY <2>2 DEF Halfway
  <2>8. Halfway(steps, c, l, k + 1)
    BY <2>3, <2>4, <2>5, <2>6, <2>7 DEF Halfway
  <2>9. QED
    BY <2>1, <2>8
<1>4. QED
  BY <1>2, <1>3

\* The batches of a plan are its steps in order, each in exactly one batch.
LEMMA GroupPlanIsGood ==
  ASSUME NEW steps \in Seq(Kinds)
  PROVE  Batched(steps, GroupPlan(steps), Len(steps))
<1> DEFINE f == Collected(steps)
           T == {k \in Nat : k <= Len(steps) => \E l : Halfway(steps, f[k], l, k)}
<1>1. Len(steps) \in Nat
  OBVIOUS
<1>2. f = [k \in 0..Len(steps) |-> IF k = 0 THEN Nothing ELSE Grouping(steps, f[k - 1], k)]
  BY CollectedRec
<1> HIDE DEF f
<1>3. 0 \in T
  <2>1. f[0] = Nothing
    BY <1>1, <1>2
  <2>2. QED
    BY <2>1, NoBatches
<1>4. ASSUME NEW k \in Nat, k \in T
      PROVE  k + 1 \in T
  <2> SUFFICES ASSUME k + 1 <= Len(steps)
               PROVE  \E l : Halfway(steps, f[k + 1], l, k + 1)
    OBVIOUS
  <2>1. PICK l : Halfway(steps, f[k], l, k)
    BY <1>1, <1>4
  <2>2. f[k + 1] = Grouping(steps, f[k], k + 1)
    BY <1>1, <1>2
  <2>3. QED
    BY <2>1, <2>2, NextStep
<1>5. Len(steps) \in T
  <2> HIDE DEF T
  <2> QED
    BY <1>1, <1>3, <1>4, InductiveSet
<1>6. PICK l : Halfway(steps, f[Len(steps)], l, Len(steps))
  BY <1>1, <1>5
<1>7. QED
  BY <1>1, <1>6, FlushBatches DEF GroupPlan, f

-----------------------------------------------------------------------------
(* The pipeline                                                            *)

Idle == queued = {} /\ waiting = {} /\ running = {} /\ done = {}

Executing == node \in {"batch_executor", "pool", "supervisor"}

\* What the nodes of the graph may rely on.
Shape ==
  /\ node = "none" <=> active = NoRequest
  /\ node = "none" => supersteps = 0
  /\ Planned => plan # <<>>
  /\ Executing => Batched(plan, batches, Len(plan))
  /\ node \in {"batch_executor", "pool"} => currentBatch < Len(batches)
  /\ node = "supervisor" => currentBatch = Len(batches)

\* The pool has the steps of one batch, each in one place, and nobody else's.
PoolShape ==
  /\ pendingSteps = Cardinality(queued)
  /\ node # "pool" => Idle
  /\ node = "pool" =>
       /\ queued \cup waiting \cup running \cup done = Batch
       /\ queued \cap waiting = {} /\ queued \cap running = {} /\ queued \cap done = {}
       /\ waiting \cap running = {} /\ waiting \cap done = {} /\ running \cap done = {}
       /\ \A n \in Batch : plan[n] # "REASONING"

InOrder == TypeOK /\ Shape /\ PoolShape

\* The batch that is executed is a set of steps of the plan.
LEMMA BatchInPlan ==
  ASSUME InOrder, node \in {"batch_executor", "pool"}
  PROVE  /\ currentBatch + 1 \in 1..Len(batches)
         /\ Batch \subseteq 1..Len(plan) /\ Batch # {}
         /\ Batch \subseteq Positions
         /\ Len(batches) \in Nat /\ Len(batches) <= MaxPlanSteps
<1>1. Batched(plan, batches, Len(plan)) /\ currentBatch < Len(batches)
  BY DEF InOrder, Shape, Executing
<1>2. Len(plan) \in Nat /\ Len(plan) <= MaxPlanSteps /\ currentBatch \in Nat
  BY Settings DEF InOrder, TypeOK
<1>3. Len(batches) \in Nat /\ Len(batches) <= Len(plan)
  BY <1>1 DEF Batched
<1>4. currentBatch + 1 \in 1..Len(batches)
  BY <1>1, <1>2, <1>3
<1>5. batches[currentBatch + 1] \subseteq 1..Len(plan) /\ batches[currentBatch + 1] # {}
  BY <1>1, <1>4 DEF Batched
<1>6. 1..Len(plan) \subseteq Positions
  BY <1>2, Settings DEF Positions
<1>7. QED
  BY <1>2, <1>3, <1>4, <1>5, <1>6, Settings DEF Batch

\* The text of a step, made in the current attempt, is a source.
LEMMA SourcesOf ==
  ASSUME InOrder, NEW n \in Positions
  PROVE  Source(n) \in Sources
BY DEF InOrder, TypeOK, Source, Sources

\* Executing some steps counts them.
LEMMA CountType ==
  ASSUME InOrder, NEW steps, Count(steps)
  PROVE  ran' \in [Positions -> Nat]
<1>1. ran \in [Positions -> Nat]
  BY DEF InOrder, TypeOK
<1>2. QED
  BY <1>1 DEF Count

\* A pipeline that is over leaves its pod in order.
LEMMA EndStep ==
  ASSUME InOrder, NEW outcome \in Ended, End(outcome), Idle', pendingSteps' = 0
  PROVE  InOrder'
<1>1. TypeOK'
  <2>1. status' \in [Requests -> {"new", "running"} \cup Ended]
    BY DEF InOrder, TypeOK, End
  <2>2. ran' \in [Positions -> Nat]
    BY DEF End
  <2>3. supersteps' \in 0..RecursionLimit /\ currentBatch' \in 0..MaxGraphIterations
        /\ retryCount' \in 0..MaxRetries /\ pendingSteps' \in 0..MaxQueueDepth
    BY Settings DEF End
  <2>4. plan' \in Seq(Kinds) /\ Len(plan') <= MaxPlanSteps /\ batches' \in Seq(SUBSET Positions)
    <3>1. plan' = <<>> /\ batches' = <<>>
      BY DEF End
    <3>2. <<>> \in Seq(Kinds) /\ <<>> \in Seq(SUBSET Positions) /\ Len(<<>>) = 0
      OBVIOUS
    <3>3. QED
      BY <3>1, <3>2, Settings
  <2>5. QED
    BY <2>1, <2>2, <2>3, <2>4 DEF TypeOK, End, Idle, Nodes
<1>2. Shape'
  BY DEF Shape, End, Planned, Executing
<1>3. PoolShape'
  BY FS_EmptySet DEF PoolShape, End, Idle
<1>4. QED
  BY <1>1, <1>2, <1>3 DEF InOrder

\* A batch whose results are there leaves the pipeline in order, at the next batch
\* or at the supervisor.
LEMMA BatchDoneStep ==
  ASSUME InOrder, node \in {"batch_executor", "pool"},
         NEW text \in SUBSET Sources, NEW retrieved \in SUBSET Sources,
         BatchDone(text, retrieved),
         Idle', pendingSteps' = 0, supersteps' \in 0..RecursionLimit,
         ran' \in [Positions -> Nat]
  PROVE  InOrder'
<1>1. /\ currentBatch + 1 \in 1..Len(batches)
      /\ Len(batches) \in Nat /\ Len(batches) <= MaxPlanSteps
  BY BatchInPlan
<1>2. currentBatch' = currentBatch + 1 /\ plan' = plan /\ batches' = batches
  BY DEF BatchDone
<1>3. Least(MaxGraphIterations, Len(batches)) = Len(batches)
  BY <1>1, Settings DEF Least
<1>4. node' = IF currentBatch + 1 < Len(batches) THEN "batch_executor" ELSE "supervisor"
  BY <1>3 DEF BatchDone, ShouldContinue
<1>5. TypeOK'
  <2>1. answer' \subseteq Sources /\ context' \subseteq Sources
    BY DEF BatchDone, InOrder, TypeOK
  <2>2. currentBatch' \in 0..MaxGraphIterations
    BY <1>1, <1>2, Settings
  <2>3. pendingSteps' \in 0..MaxQueueDepth
    BY Settings
  <2>4. node' \in Nodes
    BY <1>4 DEF Nodes
  <2>5. QED
    BY <1>2, <2>1, <2>2, <2>3, <2>4 DEF BatchDone, InOrder, TypeOK, Idle
<1>6. Shape'
  <2>1. active # NoRequest
    BY DEF InOrder, Shape
  <2>2. active' = active
    BY DEF BatchDone
  <2>3. node' = "supervisor" => currentBatch' = Len(batches')
    BY <1>1, <1>2, <1>4
  <2>4. node' = "batch_executor" => currentBatch' < Len(batches')
    BY <1>2, <1>4
  <2>5. plan # <<>> /\ Batched(plan, batches, Len(plan))
    BY DEF InOrder, Shape, Planned, Executing
  <2>6. Batched(plan, batches, Len(plan))'
    BY <1>2, <2>5 DEF Batched
  <2>7. node' \in {"batch_executor", "supervisor"}
    BY <1>4
  <2>8. QED
    BY <1>2, <2>1, <2>2, <2>3, <2>4, <2>5, <2>6, <2>7 DEF Shape, Planned, Executing
<1>7. PoolShape'
  <2>1. node' # "pool"
    BY <1>4
  <2>2. QED
    BY <2>1, FS_EmptySet DEF PoolShape, Idle
<1>8. QED
  BY <1>5, <1>6, <1>7 DEF InOrder

\* Before the first request nothing is planned and the pool is empty.
LEMMA InitInOrder == Init => InOrder
<1> SUFFICES ASSUME Init PROVE InOrder
  OBVIOUS
<1>1. <<>> \in Seq(Kinds) /\ <<>> \in Seq(SUBSET Positions) /\ Len(<<>>) = 0
  OBVIOUS
<1>2. TypeOK
  BY <1>1, Settings DEF Init, TypeOK, Nodes
<1>3. Shape
  BY DEF Init, Shape, Planned, Executing
<1>4. PoolShape
  BY FS_EmptySet DEF Init, PoolShape, Idle
<1>5. QED
  BY <1>2, <1>3, <1>4 DEF InOrder

\* run_workflow takes up a request when the graph is idle.
LEMMA RunWorkflowStep ==
  ASSUME InOrder, NEW r \in Requests, RunWorkflow(r)
  PROVE  InOrder'
<1>1. TypeOK'
  BY DEF RunWorkflow, InOrder, TypeOK, Nodes, agState, pool
<1>2. Shape'
  <2>1. r # NoRequest
    BY WorkflowAssumption
  <2>2. node = "none"
    BY DEF RunWorkflow, InOrder, Shape
  <2>3. active' = r /\ node' = "planner"
    BY DEF RunWorkflow
  <2>4. QED
    BY <2>1, <2>3 DEF Shape, Planned, Executing
<1>3. PoolShape'
  <2>1. node # "pool"
    BY DEF RunWorkflow, InOrder, Shape
  <2>2. QED
    BY <2>1 DEF RunWorkflow, InOrder, PoolShape, Idle, pool
<1>4. QED
  BY <1>1, <1>2, <1>3 DEF InOrder

\* The plan that planner_node leaves.
LEMMA PlannerPlans ==
  ASSUME Planner
  PROVE  plan' \in Seq(Kinds) /\ Len(plan') \in 1..MaxPlanSteps
<1>1. PICK len \in 0..MaxRawSteps : \E raw \in [1..len -> RawKinds] :
         LET valid == ValidatePlan(raw)
         IN plan' = FastPath(active, IF valid = <<>> THEN <<"REASONING">> ELSE valid)
  BY DEF Planner
<1>2. PICK raw \in [1..len -> RawKinds] :
         plan' = FastPath(active, IF ValidatePlan(raw) = <<>> THEN <<"REASONING">>
                                  ELSE ValidatePlan(raw))
  BY <1>1
<1>3. len \in Nat
  OBVIOUS
<1>4. \A r, valid, steps :
        valid = ValidatePlan(raw)
          /\ steps = FastPath(r, IF valid = <<>> THEN <<"REASONING">> ELSE valid)
        => steps \in Seq(Kinds) /\ Len(steps) \in 1..MaxPlanSteps
  BY <1>3, PlanIsGood
<1>5. QED
  BY <1>2, <1>4, Zenon

\* planner_node leaves a plan that the grouper can take.
LEMMA PlannerStep ==
  ASSUME InOrder, Planner
  PROVE  InOrder'
<1>1. plan' \in Seq(Kinds) /\ Len(plan') \in 1..MaxPlanSteps
  BY PlannerPlans
<1>2. node = "planner" /\ node' = "grouper" /\ active' = active
  BY DEF Planner, At
<1>3. TypeOK'
  <2>1. supersteps' \in 0..RecursionLimit
    BY Settings DEF Planner, At, Counted, InOrder, TypeOK
  <2>2. ran' \in [Positions -> Nat]
    BY DEF Planner
  <2>3. Len(plan') <= MaxPlanSteps
    BY <1>1, Settings
  <2>4. QED
    BY <1>1, <1>2, <2>1, <2>2, <2>3 DEF Planner, InOrder, TypeOK, Nodes, pool
<1>4. Shape'
  <2>1. active # NoRequest
    BY <1>2 DEF InOrder, Shape
  <2>2. plan' # <<>>
    BY <1>1
  <2>3. QED
    BY <1>2, <2>1, <2>2 DEF Shape, Planned, Executing
<1>5. PoolShape'
  BY <1>2 DEF Planner, InOrder, PoolShape, Idle, pool
<1>6. QED
  BY <1>3, <1>4, <1>5 DEF InOrder

\* grouper_node leaves at least one batch, and the loop at the first.
LEMMA GrouperStep ==
  ASSUME InOrder, Grouper
  PROVE  InOrder'
<1>1. node = "grouper" /\ node' = "batch_executor" /\ active' = active /\ plan' = plan
      /\ currentBatch' = 0
  BY DEF Grouper, At
<1>2. plan \in Seq(Kinds) /\ Len(plan) \in Nat /\ plan # <<>> /\ Len(plan) <= MaxPlanSteps
  BY <1>1 DEF InOrder, TypeOK, Shape, Planned
<1>3. Batched(plan, batches', Len(plan))
  BY <1>2, GroupPlanIsGood DEF Grouper
<1>4. 1 \in 1..Len(plan)
  BY <1>2
<1>5. Len(batches') \in Nat /\ Len(batches') > 0
  BY <1>3, <1>4 DEF Batched
<1>6. batches' \in Seq(SUBSET Positions)
  <2>1. SUBSET (1..Len(plan)) \subseteq SUBSET Positions
    BY <1>2, Settings DEF Positions
  <2>2. batches' \in Seq(SUBSET (1..Len(plan)))
    BY <1>3 DEF Batched
  <2>3. QED
    BY <2>1, <2>2, SeqMonotonic
<1>7. TypeOK'
  <2>1. supersteps' \in 0..RecursionLimit
    BY Settings DEF Grouper, At, Counted, InOrder, TypeOK
  <2>2. currentBatch' \in 0..MaxGraphIterations
    BY <1>1, Settings
  <2>3. QED
    BY <1>1, <1>6, <2>1, <2>2 DEF Grouper, InOrder, TypeOK, Nodes, pool
<1>8. Shape'
  <2>1. active # NoRequest
    BY <1>1 DEF InOrder, Shape
  <2>2. Batched(plan, batches, Len(plan))'
    BY <1>1, <1>3 DEF Batched
  <2>3. currentBatch' < Len(batches')
    BY <1>1, <1>5
  <2>4. QED
    BY <1>1, <1>2, <2>1, <2>2, <2>3 DEF Shape, Planned, Executing
<1>9. PoolShape'
  BY <1>1 DEF Grouper, InOrder, PoolShape, Idle, pool
<1>10. QED
  BY <1>7, <1>8, <1>9 DEF InOrder

\* A REASONING step is a batch that is done at once.
LEMMA ReasoningStep ==
  ASSUME InOrder, Reasoning
  PROVE  InOrder'
<1>1. node = "batch_executor"
  BY DEF Reasoning, At
<1>2. PICK n \in Batch :
        /\ Count({n})
        /\ \E text \in {answer \cup {Source(n)}, {}} : BatchDone(text, {})
  BY DEF Reasoning
<1>3. n \in Positions
  BY <1>1, BatchInPlan
<1>4. PICK text : text \in {answer \cup {Source(n)}, {}} /\ BatchDone(text, {})
  BY <1>2
<1>5. text \in SUBSET Sources /\ {} \in SUBSET Sources
  BY <1>3, <1>4, SourcesOf DEF InOrder, TypeOK
<1>6. supersteps' \in 0..RecursionLimit
  BY Settings DEF Reasoning, At, Counted, InOrder, TypeOK
<1>7. ran' \in [Positions -> Nat]
  BY <1>2, CountType
<1>8. Idle' /\ pendingSteps' = 0
  BY <1>1, FS_EmptySet DEF Reasoning, InOrder, PoolShape, Idle, pool
<1>9. QED
  BY <1>1, <1>4, <1>5, <1>6, <1>7, <1>8, BatchDoneStep

\* A tool alone is a batch that is done at once.
LEMMA SingleToolStep ==
  ASSUME InOrder, SingleTool
  PROVE  InOrder'
<1>1. node = "batch_executor"
  BY DEF SingleTool, At
<1>2. PICK n \in Batch :
        /\ Count({n})
        /\ \E text \in {{Source(n)}, {}} :
             BatchDone(text, IF text = {} THEN {} ELSE Retrieved({n}))
  BY DEF SingleTool
<1>3. n \in Positions
  BY <1>1, BatchInPlan
<1>4. PICK text, retrieved :
        /\ text \in {{Source(n)}, {}}
        /\ retrieved \in {{}, Retrieved({n})}
        /\ BatchDone(text, retrieved)
  BY <1>2
<1>5. text \in SUBSET Sources /\ retrieved \in SUBSET Sources
  BY <1>3, <1>4, SourcesOf DEF Retrieved
<1>6. supersteps' \in 0..RecursionLimit
  BY Settings DEF SingleTool, At, Counted, InOrder, TypeOK
<1>7. ran' \in [Positions -> Nat]
  BY <1>2, CountType
<1>8. Idle' /\ pendingSteps' = 0
  BY <1>1, FS_EmptySet DEF SingleTool, InOrder, PoolShape, Idle, pool
<1>9. QED
  BY <1>1, <1>4, <1>5, <1>6, <1>7, <1>8, BatchDoneStep

\* A batch of several steps has no REASONING step.
LEMMA OnlyToolsShare ==
  ASSUME InOrder, node = "batch_executor", Cardinality(Batch) > 1, NEW n \in Batch
  PROVE  plan[n] # "REASONING"
<1>1. Batched(plan, batches, Len(plan)) /\ currentBatch + 1 \in 1..Len(batches)
  BY BatchInPlan DEF InOrder, Shape, Executing
<1>2. ASSUME plan[n] = "REASONING"
      PROVE  Batch = {n}
  BY <1>1, <1>2 DEF Batched, Batch
<1>3. Cardinality({n}) = 1
  BY FS_Singleton
<1>4. QED
  BY <1>2, <1>3

\* A batch of tools is turned away or fills the empty pool.
LEMMA ParallelBatchStep ==
  ASSUME InOrder, ParallelBatch
  PROVE  InOrder'
<1>1. node = "batch_executor" /\ Cardinality(Batch) > 1
  BY DEF ParallelBatch, At
<1>2. supersteps' \in 0..RecursionLimit
  BY Settings DEF ParallelBatch, At, Counted, InOrder, TypeOK
<1>3. Idle /\ pendingSteps = 0
  BY <1>1, FS_EmptySet DEF InOrder, PoolShape, Idle
<1>4. CASE pendingSteps + Cardinality(Batch) > MaxQueueDepth
  <2>1. BatchDone({}, {}) /\ Idle' /\ pendingSteps' = 0 /\ ran' = ran
    BY <1>3, <1>4 DEF ParallelBatch, Idle
  <2>2. ran' \in [Positions -> Nat] /\ {} \in SUBSET Sources
    BY <2>1 DEF InOrder, TypeOK
  <2>3. QED
    BY <1>1, <1>2, <2>1, <2>2, BatchDoneStep
<1>5. CASE ~ (pendingSteps + Cardinality(Batch) > MaxQueueDepth)
  <2>1. /\ pendingSteps' = pendingSteps + Cardinality(Batch)
        /\ queued' = Batch /\ node' = "pool"
        /\ UNCHANGED <<status, active, plan, batches, currentBatch, retryCount, answer,
                       context, waiting, running, done, ran>>
    BY <1>5 DEF ParallelBatch, agState
  <2>2. Batch \subseteq Positions /\ Batch # {}
    BY <1>1, BatchInPlan
  <2>3. Cardinality(Batch) \in Nat
    <3>1. IsFiniteSet(Positions)
      BY Settings, FS_Interval DEF Positions
    <3>2. IsFiniteSet(Batch)
      BY <2>2, <3>1, FS_Subset
    <3>3. QED
      BY <3>2, FS_CardinalityType
  <2>4. pendingSteps' \in 0..MaxQueueDepth /\ pendingSteps' = Cardinality(Batch)
    BY <1>3, <1>5, <2>1, <2>3, Settings
  <2>5. TypeOK'
    BY <1>2, <2>1, <2>2, <2>4 DEF InOrder, TypeOK, Nodes
  <2>6. Shape'
    <3>1. Batched(plan, batches, Len(plan))'
      BY <1>1, <2>1 DEF InOrder, Shape, Executing, Batched
    <3>2. QED
      BY <1>1, <2>1, <3>1 DEF InOrder, Shape, Planned, Executing
  <2>7. PoolShape'
    <3>1. Batch' = Batch
      BY <2>1 DEF Batch
    <3>2. \A n \in Batch : plan[n] # "REASONING"
      BY <1>1, OnlyToolsShare
    <3>3. waiting' = {} /\ running' = {} /\ done' = {}
      BY <1>3, <2>1 DEF Idle
    <3>4. pendingSteps' = Cardinality(queued')
      BY <2>1, <2>4
    <3>5. \A n \in Batch' : plan'[n] # "REASONING"
      BY <2>1, <3>1, <3>2
    <3>6. QED
      BY <2>1, <3>1, <3>3, <3>4, <3>5 DEF PoolShape
  <2>8. QED
    BY <2>5, <2>6, <2>7 DEF InOrder
<1>6. QED
  BY <1>4, <1>5

\* The steps are in the pool only when the graph waits for it.
LEMMA InPool ==
  ASSUME InOrder, \/ node = "pool"
                  \/ \E n : n \in queued \/ n \in waiting \/ n \in running
  PROVE  /\ node = "pool"
         /\ queued \cup waiting \cup running \cup done = Batch
         /\ queued \cap waiting = {} /\ queued \cap running = {} /\ queued \cap done = {}
         /\ waiting \cap running = {} /\ waiting \cap done = {} /\ running \cap done = {}
         /\ \A n \in Batch : plan[n] # "REASONING"
BY DEF InOrder, PoolShape, Idle

\* A step that leaves the graph alone leaves its shape.
LEMMA SameShape ==
  ASSUME InOrder,
         UNCHANGED <<active, node, supersteps, plan, batches, currentBatch>>
  PROVE  Shape' /\ Batch' = Batch
<1>1. Batched(plan, batches, Len(plan))' <=> Batched(plan, batches, Len(plan))
  BY DEF Batched
<1>2. QED
  BY <1>1 DEF InOrder, Shape, Planned, Executing, Batch

\* A worker takes one step, which is pending no longer.
LEMMA StartStepStep ==
  ASSUME InOrder, NEW n \in Positions, StartStep(n)
  PROVE  InOrder'
<1>1. n \in queued /\ queued' = queued \ {n} /\ waiting' = waiting \cup {n}
      /\ pendingSteps' = pendingSteps - 1
      /\ UNCHANGED <<status, active, node, supersteps, plan, batches, currentBatch,
                     retryCount, answer, context, running, done, ran>>
  BY DEF StartStep, agState
<1>2. Shape' /\ Batch' = Batch
  BY <1>1, SameShape
<1>3. pendingSteps = Cardinality(queued) /\ queued \subseteq Positions
  BY DEF InOrder, PoolShape, TypeOK
<1>4. IsFiniteSet(queued)
  <2>1. IsFiniteSet(Positions)
    BY Settings, FS_Interval DEF Positions
  <2>2. QED
    BY <1>3, <2>1, FS_Subset
<1>5. Cardinality(queued') = pendingSteps - 1
  <2>1. Cardinality(queued \ {n}) = Cardinality(queued) - 1
    BY <1>1, <1>4, FS_RemoveElement
  <2>2. QED
    BY <1>1, <1>3, <2>1
<1>6. pendingSteps' \in 0..MaxQueueDepth
  <2>1. IsFiniteSet(queued')
    BY <1>1, <1>4, FS_Subset
  <2>2. Cardinality(queued') \in Nat
    BY <2>1, FS_CardinalityType
  <2>3. QED
    BY <1>1, <1>5, <2>2, Settings DEF InOrder, TypeOK
<1>7. TypeOK'
  BY <1>1, <1>6 DEF InOrder, TypeOK
<1>8. PoolShape'
  BY <1>1, <1>2, <1>5, InPool DEF PoolShape
<1>9. QED
  BY <1>2, <1>7, <1>8 DEF InOrder

\* A waiting step gets the semaphore.
LEMMA AcquireSemaphoreStep ==
  ASSUME InOrder, NEW n \in Positions, AcquireSemaphore(n)
  PROVE  InOrder'
<1>1. n \in waiting /\ waiting' = waiting \ {n} /\ running' = running \cup {n}
      /\ UNCHANGED <<status, active, node, supersteps, plan, batches, currentBatch,
                     retryCount, answer, context, pendingSteps, queued, done>>
  BY DEF AcquireSemaphore, agState
<1>2. Shape' /\ Batch' = Batch
  BY <1>1, SameShape
<1>3. ran' \in [Positions -> Nat]
  BY CountType DEF AcquireSemaphore
<1>4. TypeOK'
  BY <1>1, <1>3 DEF InOrder, TypeOK
<1>5. pendingSteps' = Cardinality(queued')
  BY <1>1 DEF InOrder, PoolShape
<1>6. PoolShape'
  BY <1>1, <1>2, <1>5, InPool DEF PoolShape
<1>7. QED
  BY <1>2, <1>4, <1>6 DEF InOrder

\* A running step leaves its result.
LEMMA FinishStepStep ==
  ASSUME InOrder, NEW n \in Positions, FinishStep(n)
  PROVE  InOrder'
<1>1. n \in running /\ running' = running \ {n} /\ done' = done \cup {n}
      /\ UNCHANGED <<status, active, node, supersteps, plan, batches, currentBatch,
                     retryCount, answer, context, pendingSteps, queued, waiting, ran>>
  BY DEF FinishStep, agState
<1>2. Shape' /\ Batch' = Batch
  BY <1>1, SameShape
<1>3. TypeOK'
  BY <1>1 DEF InOrder, TypeOK
<1>4. pendingSteps' = Cardinality(queued')
  BY <1>1 DEF InOrder, PoolShape
<1>5. PoolShape'
  BY <1>1, <1>2, <1>4, InPool DEF PoolShape
<1>6. QED
  BY <1>2, <1>3, <1>5 DEF InOrder

\* When all results are there the pool is empty again.
LEMMA CollectBatchStep ==
  ASSUME InOrder, CollectBatch
  PROVE  InOrder'
<1>1. node = "pool" /\ done = Batch
  BY DEF CollectBatch
<1>2. queued = {} /\ waiting = {} /\ running = {}
  BY <1>1, InPool
<1>3. Idle' /\ pendingSteps' = 0
  BY <1>2, FS_EmptySet DEF CollectBatch, Idle, InOrder, PoolShape
<1>4. PICK text, retrieved :
        /\ text = {Source(n) : n \in Batch} /\ retrieved = Retrieved(Batch)
        /\ BatchDone(text, retrieved)
  BY DEF CollectBatch
<1>5. Batch \subseteq Positions
  BY <1>1, BatchInPlan
<1>6. text \in SUBSET Sources /\ retrieved \in SUBSET Sources
  BY <1>4, <1>5, SourcesOf DEF Retrieved
<1>7. supersteps' \in 0..RecursionLimit /\ ran' \in [Positions -> Nat]
  BY DEF CollectBatch, InOrder, TypeOK
<1>8. QED
  BY <1>1, <1>3, <1>4, <1>6, <1>7, BatchDoneStep

\* The supervisor accepts, or sends back to the planner once more.
LEMMA SupervisorStep ==
  ASSUME InOrder, Supervisor
  PROVE  InOrder'
<1>1. node = "supervisor" /\ supersteps < RecursionLimit /\ UNCHANGED pool
  BY DEF Supervisor, At
<1>2. Idle' /\ pendingSteps' = 0
  BY <1>1, FS_EmptySet DEF InOrder, PoolShape, Idle, pool
<1>3. CASE End("answered")
  BY <1>2, <1>3, EndStep DEF Ended
<1>4. CASE /\ retryCount' = retryCount + 1 /\ retryCount' <= MaxRetries
           /\ node' = "planner" /\ supersteps' = supersteps + 1
           /\ UNCHANGED <<status, active, plan, batches, currentBatch, answer,
                          context, ran>>
  <2>1. TypeOK'
    BY <1>1, <1>4, Settings DEF InOrder, TypeOK, Nodes, pool
  <2>2. Shape'
    BY <1>1, <1>4 DEF InOrder, Shape, Planned, Executing
  <2>3. PoolShape'
    BY <1>2, <1>4, FS_EmptySet DEF PoolShape, Idle
  <2>4. QED
    BY <2>1, <2>2, <2>3 DEF InOrder
<1>5. retryCount \in Nat
  BY DEF InOrder, TypeOK
<1>6. QED
  BY <1>3, <1>4, <1>5, Settings DEF Supervisor, Counted

\* An exception ends the request; none leaves the pool filled.
LEMMA RequestFailsStep ==
  ASSUME InOrder, RequestFails
  PROVE  InOrder'
<1>1. node \notin {"none", "pool"}
  BY DEF RequestFails, Raising
<1>2. Idle' /\ pendingSteps' = 0
  BY <1>1, FS_EmptySet DEF RequestFails, InOrder, PoolShape, Idle, pool
<1>3. QED
  BY <1>2, EndStep DEF RequestFails, Ended

\* A new pod has nothing in memory.
LEMMA PodRestartsStep ==
  ASSUME InOrder, PodRestarts
  PROVE  InOrder'
BY EndStep DEF PodRestarts, Ended, Idle

\* Every step leaves the pod in order.
LEMMA StaysInOrder == InOrder /\ [Next]_vars => InOrder'
<1> SUFFICES ASSUME InOrder, [Next]_vars
             PROVE  InOrder'
  OBVIOUS
<1>1. CASE UNCHANGED vars
  <2>1. Shape' /\ Batch' = Batch
    BY <1>1, SameShape DEF vars, agState
  <2>2. QED
    BY <1>1, <2>1 DEF vars, agState, pool, InOrder, TypeOK, PoolShape, Idle
<1>2. CASE \E r \in Requests : RunWorkflow(r)
  BY <1>2, RunWorkflowStep
<1>3. CASE GraphStep
  BY <1>3, PlannerStep, GrouperStep, ReasoningStep, SingleToolStep, ParallelBatchStep,
     SupervisorStep, RequestFailsStep DEF GraphStep
<1>4. CASE PoolStep
  BY <1>4, StartStepStep, AcquireSemaphoreStep, FinishStepStep, CollectBatchStep
     DEF PoolStep
<1>5. CASE PodRestarts
  BY <1>5, PodRestartsStep
<1>6. QED
  BY <1>1, <1>2, <1>3, <1>4, <1>5 DEF Next

\* The invariant holds in every reachable state.
LEMMA AlwaysInOrder == Spec => []InOrder
BY InitInOrder, StaysInOrder, PTL DEF Spec

\* Whatever the LLM plans, whatever raises and whenever the pod dies, every field of
\* AgentState and every set of the pool keeps its type: the batches are sets of
\* positions of the plan and current_batch stays within the loop.
THEOREM TypeCorrect == Spec => []TypeOK
<1>1. InOrder => TypeOK
  BY DEF InOrder
<1>2. QED
  BY <1>1, AlwaysInOrder, PTL

-----------------------------------------------------------------------------
(* Supersteps                                                              *)

\* A plan takes a superstep each of planner, grouper and supervisor and one of
\* the batch executor for every batch; there are no more batches than steps.
PerPlan == MaxPlanSteps + 3

\* The supersteps of the plans that the supervisor has sent back.
Earlier == retryCount * PerPlan

WithinBudget ==
  /\ node = "planner" => supersteps <= Earlier
  /\ node = "grouper" => supersteps <= Earlier + 1
  /\ node = "batch_executor" => supersteps <= Earlier + 2 + currentBatch
  /\ node = "pool" => supersteps <= Earlier + 3 + currentBatch
  /\ node = "supervisor" => supersteps <= Earlier + 2 + Len(batches)

\* What of multiplication the count of supersteps needs.
LEMMA Product ==
  ASSUME NEW m \in Nat, NEW n \in Nat, NEW w \in Nat, m <= n
  PROVE  /\ m * w \in Nat /\ (m + 1) * w = m * w + w
         /\ m * w <= n * w
<1>1. \A a, b \in Nat : a * b \in Nat
  OBVIOUS
<1>2. m * w \in Nat /\ (m + 1) * w = m * w + w
  BY <1>1
<1>3. n - m \in Nat /\ n = m + (n - m)
  OBVIOUS
<1>4. (n - m) * w \in Nat
  BY <1>1, <1>3
<1>5. n * w = m * w + (n - m) * w
  OBVIOUS
<1>6. QED
  BY <1>2, <1>4, <1>5

\* No step of the pipeline spends more than its share.
LEMMA BudgetStep ==
  ASSUME InOrder, InOrder', WithinBudget, [Next]_vars
  PROVE  WithinBudget'
<1>0. retryCount \in Nat /\ supersteps \in Nat /\ currentBatch \in Nat /\ PerPlan \in Nat
  BY Settings DEF InOrder, TypeOK, PerPlan
<1>1. Earlier \in Nat
  BY <1>0, Product DEF Earlier
<1>2. retryCount' = retryCount => Earlier' = Earlier
  BY DEF Earlier
<1>3. CASE UNCHANGED vars
  BY <1>3 DEF vars, agState, WithinBudget, Earlier
<1>4. ASSUME NEW outcome, End(outcome)
      PROVE  WithinBudget'
  BY <1>4 DEF End, WithinBudget
<1>5. CASE \E r \in Requests : RunWorkflow(r)
  <2>1. node' = "planner" /\ supersteps' = supersteps /\ retryCount' = retryCount
        /\ supersteps = 0
    BY <1>5 DEF RunWorkflow, agState, InOrder, Shape
  <2>2. QED
    BY <1>1, <1>2, <2>1 DEF WithinBudget
<1>6. CASE Planner
  BY <1>0, <1>1, <1>2, <1>6 DEF Planner, At, Counted, WithinBudget
<1>7. CASE Grouper
  BY <1>0, <1>1, <1>2, <1>7 DEF Grouper, At, Counted, WithinBudget
<1>8. ASSUME node \in {"batch_executor", "pool"},
             NEW text, NEW retrieved, BatchDone(text, retrieved),
             \/ supersteps' = supersteps + 1 /\ node = "batch_executor"
             \/ supersteps' = supersteps /\ node = "pool"
      PROVE  WithinBudget'
  <2>1. supersteps' <= Earlier + 3 + currentBatch
    BY <1>0, <1>1, <1>8 DEF WithinBudget
  <2>2. node' \in {"batch_executor", "supervisor"} /\ retryCount' = retryCount
        /\ currentBatch' = currentBatch + 1
    BY <1>8 DEF BatchDone, ShouldContinue
  <2>3. node' = "supervisor" => Len(batches') = currentBatch + 1
    BY <2>2 DEF InOrder, Shape
  <2>4. supersteps' <= Earlier' + 2 + (currentBatch + 1)
    BY <1>0, <1>1, <1>2, <2>1, <2>2
  <2>5. QED
    BY <2>2, <2>3, <2>4 DEF WithinBudget
<1>9. CASE Reasoning
  <2>1. node = "batch_executor" /\ supersteps' = supersteps + 1
    BY <1>9 DEF Reasoning, At, Counted
  <2>2. PICK text : BatchDone(text, {})
    BY <1>9 DEF Reasoning
  <2>3. QED
    BY <1>8, <2>1, <2>2
<1>10. CASE SingleTool
  <2>1. node = "batch_executor" /\ supersteps' = supersteps + 1
    BY <1>10 DEF SingleTool, At, Counted
  <2>2. PICK text, retrieved : BatchDone(text, retrieved)
    BY <1>10 DEF SingleTool
  <2>3. QED
    BY <1>8, <2>1, <2>2
<1>11. CASE ParallelBatch
  <2>1. node = "batch_executor" /\ supersteps' = supersteps + 1
    BY <1>11 DEF ParallelBatch, At, Counted
  <2>2. CASE BatchDone({}, {})
    BY <1>8, <2>1, <2>2
  <2>3. CASE node' = "pool" /\ UNCHANGED <<status, active, agState>>
    <3>1. retryCount' = retryCount /\ currentBatch' = currentBatch
      BY <2>3 DEF agState
    <3>2. QED
      BY <1>0, <1>1, <1>2, <2>1, <2>3, <3>1 DEF WithinBudget
  <2>4. QED
    BY <1>11, <2>2, <2>3 DEF ParallelBatch
<1>12. CASE Supervisor
  <2>1. CASE End("answered")
    BY <1>4, <2>1
  <2>2. CASE retryCount' = retryCount + 1 /\ node' = "planner" /\ Counted
    <3>1. node = "supervisor" /\ supersteps' = supersteps + 1
      BY <1>12, <2>2 DEF Supervisor, At, Counted
    <3>2. Len(batches) \in Nat /\ Len(batches) <= MaxPlanSteps
      <4>1. Batched(plan, batches, Len(plan)) /\ Len(plan) \in Nat /\ Len(plan) <= MaxPlanSteps
        BY <3>1 DEF InOrder, Shape, Executing, TypeOK
      <4>2. QED
        BY <4>1, Settings DEF Batched
    <3>3. Earlier' = Earlier + PerPlan
      BY <1>0, <2>2, Product DEF Earlier, PerPlan
    <3>4. supersteps' <= Earlier'
      BY <1>0, <1>1, <3>1, <3>2, <3>3, Settings DEF WithinBudget, PerPlan
    <3>5. QED
      BY <2>2, <3>4 DEF WithinBudget
  <2>3. QED
    BY <1>0, <1>12, <2>1, <2>2 DEF Supervisor
<1>13. CASE RequestFails
  BY <1>4, <1>13 DEF RequestFails
<1>14. CASE PodRestarts
  BY <1>4, <1>14 DEF PodRestarts
<1>15. ASSUME UNCHANGED <<node, supersteps, agState>>
       PROVE  WithinBudget'
  BY <1>15 DEF agState, WithinBudget, Earlier
<1>16. CASE PoolStep
  <2>1. CASE CollectBatch
    <3>1. node = "pool" /\ supersteps' = supersteps
      BY <2>1 DEF CollectBatch
    <3>2. PICK text, retrieved : BatchDone(text, retrieved)
      BY <2>1 DEF CollectBatch
    <3>3. QED
      BY <1>8, <3>1, <3>2
  <2>2. CASE \E n \in Positions : StartStep(n) \/ AcquireSemaphore(n) \/ FinishStep(n)
    BY <1>15, <2>2 DEF StartStep, AcquireSemaphore, FinishStep
  <2>3. QED
    BY <1>16, <2>1, <2>2 DEF PoolStep
<1>17. QED
  BY <1>3, <1>5, <1>6, <1>7, <1>9, <1>10, <1>11, <1>12, <1>13, <1>14, <1>16
     DEF Next, GraphStep

\* The supersteps stay within what the attempts so far may take.
LEMMA AlwaysWithinBudget == Spec => []WithinBudget
<1>1. Init => WithinBudget
  BY DEF Init, WithinBudget
<1>2. InOrder /\ InOrder' /\ WithinBudget /\ [Next]_vars => WithinBudget'
  BY BudgetStep
<1>3. QED
  BY <1>1, <1>2, AlwaysInOrder, PTL DEF Spec

\* If the recursion limit leaves a plan of MAX_PLAN_STEPS steps its supersteps for
\* each attempt, LangGraph never cuts the pipeline off: with 8 steps and 1 retry
\* that takes 22, of the 25 that are its default.
THEOREM TheLimitIsNotReached ==
  ASSUME (MaxRetries + 1) * PerPlan <= RecursionLimit
  PROVE  Spec => []NeverCut
<1>1. InOrder /\ WithinBudget => NeverCut
  <2> SUFFICES ASSUME InOrder, WithinBudget,
                      node \in {"planner", "grouper", "batch_executor", "supervisor"}
               PROVE  supersteps < RecursionLimit
    BY DEF NeverCut
  <2>1. retryCount \in Nat /\ retryCount <= MaxRetries /\ supersteps \in Nat
        /\ currentBatch \in Nat
    BY Settings DEF InOrder, TypeOK
  <2>2. PerPlan \in Nat /\ PerPlan = MaxPlanSteps + 3
    BY Settings DEF PerPlan
  <2>3. Earlier \in Nat /\ Earlier <= MaxRetries * PerPlan /\ MaxRetries * PerPlan \in Nat
    BY <2>1, <2>2, Product, Settings DEF Earlier
  <2>4. (MaxRetries + 1) * PerPlan = MaxRetries * PerPlan + PerPlan
    BY <2>2, Product, Settings
  <2>5. node \in {"batch_executor", "supervisor"}
          => Len(batches) \in Nat /\ Len(batches) <= MaxPlanSteps /\ currentBatch <= Len(batches)
    <3> SUFFICES ASSUME node \in {"batch_executor", "supervisor"}
                 PROVE  Len(batches) \in Nat /\ Len(batches) <= MaxPlanSteps
                        /\ currentBatch <= Len(batches)
      OBVIOUS
    <3>1. Batched(plan, batches, Len(plan)) /\ Len(plan) \in Nat /\ Len(plan) <= MaxPlanSteps
      BY DEF InOrder, Shape, Executing, TypeOK
    <3>2. Len(batches) \in Nat /\ Len(batches) <= MaxPlanSteps
      BY <3>1, Settings DEF Batched
    <3>3. currentBatch <= Len(batches)
      BY <2>1, <3>2 DEF InOrder, Shape
    <3>4. QED
      BY <3>2, <3>3
  <2>6. supersteps <= Earlier + 2 + MaxPlanSteps
    BY <2>1, <2>2, <2>3, <2>5, Settings DEF WithinBudget
  <2> HIDE DEF PerPlan
  <2>7. QED
    BY <2>1, <2>2, <2>3, <2>4, <2>6, Settings
<1>2. QED
  BY <1>1, AlwaysInOrder, AlwaysWithinBudget, PTL

-----------------------------------------------------------------------------
(* Refinement                                                              *)

\* The steps of the batches that have been executed.
Past == {n \in Positions : \E k \in 1..currentBatch : n \in batches[k]}

\* How often the steps have been executed: once those of the past batches and, of
\* the batch in the pool, those that got the semaphore; the others not at all.
RanOnce ==
  /\ node = "grouper" => \A n \in Positions : ran[n] = 0
  /\ Executing => \A n \in Positions :
                    ran[n] = IF n \in Past \cup running \cup done THEN 1 ELSE 0

\* Of a plan in batches: a step of the current batch is in no past one, and what it
\* waits for is in the past ones.
LEMMA BatchAfterPast ==
  ASSUME InOrder, node \in {"batch_executor", "pool"}, NEW n \in Batch
  PROVE  /\ n \notin Past
         /\ \A m \in 1..(n - 1) :
              plan[n] = "REASONING" \/ plan[m] = "REASONING" => m \in Past
<1>1. Batched(plan, batches, Len(plan))
  BY DEF InOrder, Shape, Executing
<1>2. currentBatch + 1 \in 1..Len(batches) /\ currentBatch \in Nat /\ Len(batches) \in Nat
  BY BatchInPlan, Settings DEF InOrder, TypeOK
<1>3. n \in 1..Len(plan) /\ Len(plan) \in Nat /\ Len(plan) <= MaxPlanSteps
  BY BatchInPlan DEF InOrder, TypeOK
<1>4. n \in batches[currentBatch + 1]
  BY DEF Batch
<1>5. n \notin Past
  <2> SUFFICES ASSUME NEW k \in 1..currentBatch, n \in batches[k]
               PROVE  FALSE
    BY DEF Past
  <2>1. k \in 1..Len(batches) /\ k < currentBatch + 1
    BY <1>2
  <2>2. n < n
    BY <1>1, <1>2, <1>4, <2>1 DEF Batched
  <2>3. QED
    BY <1>3, <2>2
<1>6. ASSUME NEW m \in 1..(n - 1), plan[n] = "REASONING" \/ plan[m] = "REASONING"
      PROVE  m \in Past
  <2>1. m \in 1..Len(plan) /\ m < n /\ m \in Positions
    BY <1>3, Settings DEF Positions
  <2>2. PICK k \in 1..Len(batches) : m \in batches[k]
    BY <1>1, <2>1 DEF Batched
  <2>3. ~ (currentBatch + 1 < k)
    <3> SUFFICES ASSUME currentBatch + 1 < k
                 PROVE  FALSE
      OBVIOUS
    <3>1. n < m
      BY <1>1, <1>2, <1>4, <2>2 DEF Batched
    <3>2. QED
      BY <1>3, <2>1, <3>1
  <2>4. k # currentBatch + 1
    <3> SUFFICES ASSUME k = currentBatch + 1
                 PROVE  FALSE
      OBVIOUS
    <3>1. n \in batches[k] /\ m \in batches[k]
      BY <1>4, <2>2
    <3>2. batches[k] = {n} \/ batches[k] = {m}
      BY <1>1, <1>6, <3>1 DEF Batched
    <3>3. n = m
      BY <3>1, <3>2
    <3>4. QED
      BY <1>3, <2>1, <3>3
  <2>5. k \in 1..currentBatch
    BY <1>2, <2>3, <2>4
  <2>6. QED
    BY <2>1, <2>2, <2>5 DEF Past
<1>7. QED
  BY <1>5, <1>6

\* When the last batch is executed, so is the plan.
LEMMA PastIsPlan ==
  ASSUME InOrder, node = "supervisor"
  PROVE  Past = 1..Len(plan)
<1>1. Batched(plan, batches, Len(plan)) /\ currentBatch = Len(batches)
      /\ Len(plan) \in Nat /\ Len(plan) <= MaxPlanSteps
  BY DEF InOrder, Shape, Executing, TypeOK
<1>2. 1..Len(plan) \subseteq Positions
  BY <1>1, Settings DEF Positions
<1>3. 1..Len(plan) \subseteq Past
  BY <1>1, <1>2 DEF Batched, Past
<1>4. Past \subseteq 1..Len(plan)
  <2>1. \A k \in 1..Len(batches) : batches[k] \subseteq 1..Len(plan)
    BY <1>1 DEF Batched
  <2>2. QED
    BY <1>1, <2>1 DEF Past
<1>5. QED
  BY <1>3, <1>4

\* The next batch makes the current one a past one.
LEMMA PastGrows ==
  ASSUME InOrder, node \in {"batch_executor", "pool"},
         batches' = batches, currentBatch' = currentBatch + 1
  PROVE  Past' = Past \cup Batch
<1>1. currentBatch \in Nat
  BY Settings DEF InOrder, TypeOK
<1>2. 1..(currentBatch + 1) = (1..currentBatch) \cup {currentBatch + 1}
  BY <1>1
<1>3. Batch = batches[currentBatch + 1] /\ Batch \subseteq Positions
  BY BatchInPlan DEF Batch
<1>4. Past' = {n \in Positions : \E k \in 1..(currentBatch + 1) : n \in batches[k]}
  BY DEF Past
<1>5. QED
  BY <1>2, <1>3, <1>4 DEF Past

Started == Past \cup running \cup done

\* Executing steps that have not been executed keeps them at once.
LEMMA RanMore ==
  ASSUME InOrder, RanOnce, Executing, NEW steps \in SUBSET Positions,
         Count(steps), steps \cap Started = {}, Started' = Started \cup steps
  PROVE  \A n \in Positions : ran'[n] = IF n \in Started' THEN 1 ELSE 0
<1>1. \A n \in Positions : ran[n] = IF n \in Started THEN 1 ELSE 0
  BY DEF RanOnce, Started
<1>2. \A n \in Positions : ran'[n] = ran[n] + (IF n \in steps THEN 1 ELSE 0)
  BY DEF Count
<1>3. QED
  BY <1>1, <1>2

\* A batch has no more steps than a plan, so that a queue of that size takes it.
LEMMA BatchFits ==
  ASSUME MaxPlanSteps <= MaxQueueDepth, InOrder, node = "batch_executor"
  PROVE  ~ (pendingSteps + Cardinality(Batch) > MaxQueueDepth)
<1>1. pendingSteps = 0
  BY FS_EmptySet DEF InOrder, PoolShape, Idle
<1>2. IsFiniteSet(Positions) /\ Cardinality(Positions) = MaxPlanSteps
  <2>1. IsFiniteSet(1..MaxPlanSteps)
        /\ Cardinality(1..MaxPlanSteps) = IF 1 > MaxPlanSteps THEN 0 ELSE MaxPlanSteps - 1 + 1
    BY Settings, FS_Interval
  <2>2. QED
    BY <2>1, Settings DEF Positions
<1>3. Batch \subseteq Positions
  BY BatchInPlan
<1>4. IsFiniteSet(Batch) /\ Cardinality(Batch) <= Cardinality(Positions)
  BY <1>2, <1>3, FS_Subset
<1>5. Cardinality(Batch) \in Nat
  BY <1>4, FS_CardinalityType
<1>6. QED
  BY <1>1, <1>2, <1>4, <1>5, Settings

\* The steps of a batch of one, executed by the batch executor itself.
LEMMA AloneStep ==
  ASSUME InOrder, RanOnce, node = "batch_executor", UNCHANGED pool,
         NEW n, Batch = {n}, Count({n}),
         NEW text, NEW retrieved, BatchDone(text, retrieved)
  PROVE  /\ RanOnce' /\ Executing' /\ Past' = Past \cup {n}
         /\ n \notin Started /\ n \in Positions
         /\ UNCHANGED <<plan, batches, retryCount>>
<1>1. n \in Positions /\ {n} \in SUBSET Positions
  BY BatchInPlan
<1>2. n \notin Past
  BY BatchAfterPast
<1>3. Idle /\ Idle'
  BY DEF InOrder, PoolShape, Idle, pool
<1>4. batches' = batches /\ currentBatch' = currentBatch + 1 /\ plan' = plan
      /\ retryCount' = retryCount /\ node' \in {"batch_executor", "supervisor"}
  BY DEF BatchDone, ShouldContinue
<1>5. Past' = Past \cup {n}
  BY <1>4, PastGrows
<1>6. Started = Past /\ Started' = Past \cup {n}
  BY <1>3, <1>5 DEF Started, Idle
<1>7. \A m \in Positions : ran'[m] = IF m \in Started' THEN 1 ELSE 0
  BY <1>1, <1>2, <1>6, RanMore DEF Executing
<1>8. RanOnce'
  BY <1>4, <1>7 DEF RanOnce, Started
<1>9. QED
  BY <1>1, <1>2, <1>4, <1>5, <1>6, <1>8 DEF Executing

\* A step of the pool that gets the semaphore.
LEMMA AcquireOnce ==
  ASSUME InOrder, RanOnce, NEW n \in Positions, AcquireSemaphore(n)
  PROVE  /\ RanOnce' /\ n \notin Started /\ n \in Batch
         /\ node = "pool" /\ node' = "pool"
         /\ Past' = Past /\ running' = running \cup {n} /\ done' = done
         /\ UNCHANGED <<plan, batches, retryCount>>
<1>1. n \in waiting /\ running' = running \cup {n}
      /\ UNCHANGED <<node, plan, batches, currentBatch, retryCount, done>>
  BY DEF AcquireSemaphore, agState
<1>2. node = "pool" /\ n \in Batch /\ n \notin running /\ n \notin done
  BY <1>1, InPool
<1>3. n \notin Past
  BY <1>2, BatchAfterPast
<1>4. Past' = Past
  BY <1>1 DEF Past
<1>5. Started' = Started \cup {n} /\ n \notin Started
  BY <1>1, <1>2, <1>3, <1>4 DEF Started
<1>6. \A m \in Positions : ran'[m] = IF m \in Started' THEN 1 ELSE 0
  <2>1. {n} \in SUBSET Positions /\ {n} \cap Started = {}
    BY <1>5
  <2>2. Count({n})
    BY DEF AcquireSemaphore
  <2>3. QED
    BY <1>2, <1>5, <2>1, <2>2, RanMore DEF Executing
<1>7. RanOnce'
  BY <1>1, <1>2, <1>6 DEF RanOnce, Started
<1>8. QED
  BY <1>1, <1>2, <1>4, <1>5, <1>7

\* The plan is executed step by step, none twice and none left out.
LEMMA RanOnceStep ==
  ASSUME MaxPlanSteps <= MaxQueueDepth, InOrder, InOrder', RanOnce, [Next]_vars
  PROVE  RanOnce'
<1>1. ASSUME UNCHANGED <<node, ran, batches, currentBatch>>,
             (running \cup done)' = running \cup done
      PROVE  RanOnce'
  BY <1>1 DEF RanOnce, Executing, Past
<1>2. ASSUME NEW outcome, End(outcome)
      PROVE  RanOnce'
  BY <1>2 DEF End, RanOnce, Executing
<1>3. CASE UNCHANGED vars
  BY <1>1, <1>3 DEF vars, agState, pool
<1>4. CASE \E r \in Requests : RunWorkflow(r)
  BY <1>4 DEF RunWorkflow, RanOnce, Executing
<1>5. CASE Planner
  BY <1>5 DEF Planner, RanOnce, Executing
<1>6. CASE Grouper
  <2>1. node = "grouper" /\ node' = "batch_executor" /\ ran' = ran /\ currentBatch' = 0
    BY <1>6 DEF Grouper, At
  <2>2. running' = {} /\ done' = {}
    BY <2>1 DEF InOrder, PoolShape, Idle
  <2>3. Past' = {}
    BY <2>1 DEF Past
  <2>4. QED
    BY <2>1, <2>2, <2>3 DEF RanOnce, Executing
<1>7. CASE Reasoning
  <2>1. node = "batch_executor" /\ UNCHANGED pool
    BY <1>7 DEF Reasoning, At
  <2>2. PICK n, text : Batch = {n} /\ Count({n}) /\ BatchDone(text, {})
    BY <1>7 DEF Reasoning
  <2>3. QED
    BY <2>1, <2>2, AloneStep
<1>8. CASE SingleTool
  <2>1. node = "batch_executor" /\ UNCHANGED pool
    BY <1>8 DEF SingleTool, At
  <2>2. PICK n, text, retrieved : Batch = {n} /\ Count({n}) /\ BatchDone(text, retrieved)
    BY <1>8 DEF SingleTool
  <2>3. QED
    BY <2>1, <2>2, AloneStep
<1>9. CASE ParallelBatch
  <2>1. node = "batch_executor"
    BY <1>9 DEF ParallelBatch, At
  <2>2. node' = "pool" /\ ran' = ran /\ batches' = batches /\ currentBatch' = currentBatch
        /\ running' = running /\ done' = done
    BY <1>9, <2>1, BatchFits DEF ParallelBatch, agState
  <2>3. Past' = Past
    BY <2>2 DEF Past
  <2>4. QED
    BY <2>1, <2>2, <2>3 DEF RanOnce, Executing
<1>10. CASE Supervisor
  <2>1. CASE node' = "planner"
    BY <2>1 DEF RanOnce, Executing
  <2>2. CASE End("answered")
    BY <1>2, <2>2
  <2>3. QED
    BY <1>10, <2>1, <2>2 DEF Supervisor
<1>11. CASE RequestFails
  BY <1>2, <1>11 DEF RequestFails
<1>12. CASE PodRestarts
  BY <1>2, <1>12 DEF PodRestarts
<1>13. ASSUME NEW n \in Positions, StartStep(n)
       PROVE  RanOnce'
  BY <1>1, <1>13 DEF StartStep, agState
<1>14. ASSUME NEW n \in Positions, AcquireSemaphore(n)
       PROVE  RanOnce'
  BY <1>14, AcquireOnce
<1>15. ASSUME NEW n \in Positions, FinishStep(n)
       PROVE  RanOnce'
  <2>1. UNCHANGED <<node, ran, batches, currentBatch>>
    BY <1>15 DEF FinishStep, agState
  <2>2. n \in running /\ running' = running \ {n} /\ done' = done \cup {n}
    BY <1>15 DEF FinishStep
  <2>3. running' \cup done' = running \cup done
    BY <2>2
  <2>4. QED
    BY <1>1, <2>1, <2>3
<1>16. CASE CollectBatch
  <2>1. node = "pool" /\ done = Batch /\ done' = {} /\ running' = running /\ ran' = ran
    BY <1>16 DEF CollectBatch
  <2>2. running = {}
    BY <2>1, InPool
  <2>3. batches' = batches /\ currentBatch' = currentBatch + 1
        /\ node' \in {"batch_executor", "supervisor"}
    BY <1>16 DEF CollectBatch, BatchDone, ShouldContinue
  <2>4. Past' = Past \cup Batch
    BY <2>1, <2>3, PastGrows
  <2>5. Past' \cup running' \cup done' = Past \cup running \cup done
    BY <2>1, <2>2, <2>4
  <2>6. QED
    BY <2>1, <2>3, <2>5 DEF RanOnce, Executing
<1>17. QED
  BY <1>3, <1>4, <1>5, <1>6, <1>7, <1>8, <1>9, <1>10, <1>11, <1>12, <1>13, <1>14,
     <1>15, <1>16 DEF Next, GraphStep, PoolStep

FinishedArePast == {n \in Positions : ran[n] > 0} \ running = Past \cup done

\* Of an executing plan the finished steps are those of the past batches and those
\* that the pool has done with.
LEMMA FinishedSteps == InOrder /\ RanOnce /\ Executing => FinishedArePast
<1> SUFFICES ASSUME InOrder, RanOnce, Executing
             PROVE  FinishedArePast
  OBVIOUS
<1>1. Past \subseteq Positions /\ done \subseteq Positions /\ running \cap done = {}
  BY InPool DEF InOrder, TypeOK, Past
<1>2. running \cap Past = {}
  <2> SUFFICES ASSUME NEW n \in running
               PROVE  n \notin Past
    OBVIOUS
  <2>1. node = "pool" /\ n \in Batch
    BY InPool
  <2>2. QED
    BY <2>1, BatchAfterPast
<1>3. {n \in Positions : ran[n] > 0} = Past \cup running \cup done
  <2>1. \A n \in Positions : ran[n] = IF n \in Past \cup running \cup done THEN 1 ELSE 0
    BY DEF RanOnce
  <2>2. Past \cup running \cup done \subseteq Positions
    BY <1>1 DEF InOrder, TypeOK
  <2>3. QED
    BY <2>1, <2>2
<1>4. QED
  BY <1>1, <1>2, <1>3 DEF FinishedArePast

\* The same of the next state.
LEMMA FinishedStepsNext == InOrder' /\ RanOnce' /\ Executing' => FinishedArePast'
BY FinishedSteps, PTL

\* A step of the plan that is executed when what it waits for is finished is an
\* execution of PlanExecution.
LEMMA Executes ==
  ASSUME InOrder, InOrder', RanOnce, RanOnce', Executing, Executing',
         UNCHANGED <<plan, retryCount>>, NEW n \in Batch, Count({n}),
         node \in {"batch_executor", "pool"}, n \notin Started,
         \/ (Past \cup done)' = Past \cup done
         \/ (Past \cup done)' = Past \cup done \cup {n}
  PROVE  Execution!Execute(n) /\ n \in DOMAIN plan
<1>1. n \in 1..Len(plan) /\ n \in Positions /\ n \in DOMAIN plan
  BY BatchInPlan DEF InOrder, TypeOK
<1>2. ran[n] = 0 /\ ran \in [Positions -> Nat]
  BY <1>1 DEF RanOnce, Started, InOrder, TypeOK
<1>3. ran' = [ran EXCEPT ![n] = 1]
  <2>1. \A m \in Positions : ran'[m] = ran[m] + (IF m \in {n} THEN 1 ELSE 0)
    BY DEF Count
  <2>2. ran' = [m \in Positions |-> ran'[m]]
    BY DEF Count
  <2>3. \A m \in Positions : ran'[m] = IF m = n THEN 1 ELSE ran[m]
    BY <1>2, <2>1
  <2>4. QED
    BY <1>1, <1>2, <2>2, <2>3
<1>4. \A m \in 1..(n - 1) : plan[n] = "REASONING" \/ plan[m] = "REASONING" => m \in Past
  BY BatchAfterPast
<1>5. {m \in Positions : ran[m] > 0} \ running = Past \cup done
  BY FinishedSteps DEF FinishedArePast
<1>6. ({m \in Positions : ran[m] > 0} \ running)' = (Past \cup done)'
  BY FinishedStepsNext DEF FinishedArePast
<1>7. Planned /\ Planned' /\ node \notin {"none", "planner"} /\ node' \notin {"none", "planner"}
  BY DEF Executing, Planned
<1>8. QED
  BY <1>1, <1>2, <1>3, <1>4, <1>5, <1>6, <1>7
     DEF Execution!Execute, Execution!Start, Execution!Before

\* Where the plan is not in view, or nothing of it changes, PlanExecution stutters.
LEMMA Stutters ==
  ASSUME InOrder, InOrder', RanOnce, RanOnce', Executing, Executing',
         UNCHANGED <<plan, retryCount, ran>>, (Past \cup done)' = Past \cup done
  PROVE  UNCHANGED Execution!vars
<1>1. {m \in Positions : ran[m] > 0} \ running = Past \cup done
  BY FinishedSteps DEF FinishedArePast
<1>2. ({m \in Positions : ran[m] > 0} \ running)' = (Past \cup done)'
  BY FinishedStepsNext DEF FinishedArePast
<1>3. Planned /\ Planned' /\ node \notin {"none", "planner"} /\ node' \notin {"none", "planner"}
  BY DEF Executing, Planned
<1>4. QED
  BY <1>1, <1>2, <1>3 DEF Execution!vars

\* Between two plans there is none: a request that ends gives it up.
LEMMA GivesUp ==
  ASSUME node # "none", NEW outcome, End(outcome)
  PROVE  Execution!GiveUp
BY DEF End, Planned, Execution!GiveUp, Execution!Clear, Execution!Nothing,
   Execution!Positions, Positions

\* Each node of the graph is a step of PlanExecution or a stutter.
LEMMA GraphRefines ==
  ASSUME MaxPlanSteps <= MaxQueueDepth, InOrder, InOrder', RanOnce, RanOnce', GraphStep
  PROVE  [Execution!Next]_(Execution!vars)
<1>1. CASE Planner
  <2>1. node = "planner" /\ node' = "grouper" /\ retryCount' = retryCount
        /\ ran' = [n \in Positions |-> 0]
    BY <1>1 DEF Planner, At
  <2>2. plan' \in Seq(Kinds) /\ Len(plan') \in Positions
    BY <1>1, PlannerPlans DEF Positions
  <2>3. {n \in Positions : ran'[n] > 0} \ running' = {}
    BY <2>1
  <2>4. Execution!Adopt
    BY <2>1, <2>2, <2>3 DEF Execution!Adopt, Execution!Positions, Positions, Planned
  <2>5. QED
    BY <2>4 DEF Execution!Next
<1>2. CASE Grouper
  <2>1. node = "grouper" /\ node' = "batch_executor" /\ retryCount' = retryCount
        /\ ran' = ran /\ plan' = plan
    BY <1>2 DEF Grouper, At
  <2>2. running = {} /\ running' = {}
    BY <2>1 DEF InOrder, PoolShape, Idle
  <2>3. UNCHANGED Execution!vars
    BY <2>1, <2>2 DEF Execution!vars, Planned
  <2>4. QED
    BY <2>3
<1>3. ASSUME node = "batch_executor", UNCHANGED pool,
             NEW n, Batch = {n}, Count({n}), NEW text, NEW retrieved,
             BatchDone(text, retrieved)
      PROVE  Execution!Next
  <2>1. Executing' /\ Past' = Past \cup {n} /\ n \notin Started
        /\ UNCHANGED <<plan, retryCount>>
    BY <1>3, AloneStep
  <2>2. done' = done /\ Executing
    BY <1>3 DEF pool, Executing
  <2>3. (Past \cup done)' = Past \cup done \cup {n}
    BY <2>1, <2>2
  <2>4. Execution!Execute(n) /\ n \in DOMAIN plan
    BY <1>3, <2>1, <2>2, <2>3, Executes
  <2>5. QED
    BY <1>3, <2>4 DEF Execution!Next, Planned
<1>4. CASE Reasoning
  <2>1. node = "batch_executor" /\ UNCHANGED pool
    BY <1>4 DEF Reasoning, At
  <2>2. PICK n, text : Batch = {n} /\ Count({n}) /\ BatchDone(text, {})
    BY <1>4 DEF Reasoning
  <2>3. QED
    BY <1>3, <2>1, <2>2
<1>5. CASE SingleTool
  <2>1. node = "batch_executor" /\ UNCHANGED pool
    BY <1>5 DEF SingleTool, At
  <2>2. PICK n, text, retrieved : Batch = {n} /\ Count({n}) /\ BatchDone(text, retrieved)
    BY <1>5 DEF SingleTool
  <2>3. QED
    BY <1>3, <2>1, <2>2
<1>6. CASE ParallelBatch
  <2>1. node = "batch_executor"
    BY <1>6 DEF ParallelBatch, At
  <2>2. node' = "pool"
        /\ UNCHANGED <<ran, plan, batches, currentBatch, retryCount, running, done>>
    BY <1>6, <2>1, BatchFits DEF ParallelBatch, agState
  <2>3. (Past \cup done)' = Past \cup done
    BY <2>2 DEF Past
  <2>4. QED
    BY <2>1, <2>2, <2>3, Stutters DEF Executing
<1>7. CASE Supervisor
  <2>1. node = "supervisor" /\ Past = 1..Len(plan) /\ done = {}
    BY <1>7, PastIsPlan DEF Supervisor, At, InOrder, PoolShape, Idle
  <2>2. {n \in Positions : ran[n] > 0} \ running = DOMAIN plan
    <3>1. DOMAIN plan = 1..Len(plan)
      BY DEF InOrder, TypeOK
    <3>2. {n \in Positions : ran[n] > 0} \ running = Past \cup done
      BY <2>1, FinishedSteps DEF FinishedArePast, Executing
    <3>3. QED
      BY <2>1, <3>1, <3>2
  <2>3. CASE End("answered")
    BY <2>1, <2>2, <2>3 DEF End, Planned, Execution!Next, Execution!Judge,
       Execution!Clear, Execution!Nothing, Execution!Positions, Positions
  <2>4. CASE node' = "planner" /\ retryCount' = retryCount + 1 /\ retryCount' <= MaxRetries
    <3>1. retryCount < MaxRetries
      BY <2>4, Settings DEF InOrder, TypeOK
    <3>2. QED
      BY <2>1, <2>2, <2>4, <3>1 DEF Planned, Execution!Next, Execution!Judge,
         Execution!Clear, Execution!Nothing, Execution!Positions, Positions
  <2>5. QED
    <3>1. retryCount \in Nat
      BY DEF InOrder, TypeOK
    <3>2. QED
      BY <1>7, <2>3, <2>4, <3>1 DEF Supervisor
<1>8. CASE RequestFails
  <2>1. node # "none"
    BY <1>8 DEF RequestFails, Raising
  <2>2. Execution!GiveUp
    BY <1>8, <2>1, GivesUp DEF RequestFails
  <2>3. QED
    BY <2>2 DEF Execution!Next
<1>9. QED
  BY <1>1, <1>2, <1>4, <1>5, <1>6, <1>7, <1>8 DEF GraphStep

\* Each step of the pool is a step of PlanExecution or a stutter.
LEMMA PoolRefines ==
  ASSUME InOrder, InOrder', RanOnce, RanOnce', PoolStep
  PROVE  [Execution!Next]_(Execution!vars)
<1>1. ASSUME NEW n \in Positions, StartStep(n)
      PROVE  UNCHANGED Execution!vars
  <2>1. UNCHANGED <<node, ran, plan, batches, currentBatch, retryCount, running, done>>
    BY <1>1 DEF StartStep, agState
  <2>2. node = "pool"
    BY <1>1, InPool DEF StartStep
  <2>3. (Past \cup done)' = Past \cup done
    BY <2>1 DEF Past
  <2>4. QED
    BY <2>1, <2>2, <2>3, Stutters DEF Executing
<1>2. ASSUME NEW n \in Positions, AcquireSemaphore(n)
      PROVE  Execution!Next
  <2>1. /\ n \notin Started /\ n \in Batch /\ node = "pool" /\ node' = "pool"
        /\ Past' = Past /\ done' = done /\ UNCHANGED <<plan, retryCount>>
    BY <1>2, AcquireOnce
  <2>2. Count({n})
    BY <1>2 DEF AcquireSemaphore
  <2>3. Execution!Execute(n) /\ n \in DOMAIN plan
    BY <2>1, <2>2, Executes DEF Executing
  <2>4. QED
    BY <2>1, <2>3 DEF Execution!Next, Planned
<1>3. ASSUME NEW n \in Positions, FinishStep(n)
      PROVE  Execution!Next
  <2>1. /\ n \in running /\ running' = running \ {n} /\ done' = done \cup {n}
        /\ UNCHANGED <<node, ran, plan, batches, currentBatch, retryCount>>
    BY <1>3 DEF FinishStep, agState
  <2>2. node = "pool" /\ n \in Batch
    BY <2>1, InPool
  <2>3. n \in DOMAIN plan
    <3>1. n \in 1..Len(plan)
      BY <2>2, BatchInPlan
    <3>2. DOMAIN plan = 1..Len(plan)
      BY DEF InOrder, TypeOK
    <3>3. QED
      BY <3>1, <3>2
  <2>4. ran[n] = 1
    BY <1>3, <2>1, <2>2 DEF RanOnce, Executing
  <2>5. {m \in Positions : ran'[m] > 0} \ running'
          = ({m \in Positions : ran[m] > 0} \ running) \cup {n}
    BY <1>3, <2>1, <2>4
  <2>6. Execution!Finish(n)
    BY <2>1, <2>2, <2>4, <2>5 DEF Execution!Finish, Planned
  <2>7. QED
    BY <2>2, <2>3, <2>6 DEF Execution!Next, Planned
<1>4. CASE CollectBatch
  <2>1. node = "pool" /\ done = Batch /\ done' = {} /\ running' = running /\ ran' = ran
    BY <1>4 DEF CollectBatch
  <2>2. batches' = batches /\ currentBatch' = currentBatch + 1 /\ plan' = plan
        /\ retryCount' = retryCount /\ node' \in {"batch_executor", "supervisor"}
    BY <1>4 DEF CollectBatch, BatchDone, ShouldContinue
  <2>3. Past' = Past \cup Batch
    BY <2>1, <2>2, PastGrows
  <2>4. (Past \cup done)' = Past \cup done
    BY <2>1, <2>3
  <2>5. QED
    BY <2>1, <2>2, <2>4, Stutters DEF Executing
<1>5. QED
  BY <1>1, <1>2, <1>3, <1>4 DEF PoolStep

\* When the queue of the backpressure takes a batch of MAX_PLAN_STEPS steps (8 and
\* 12 in the code), planner, grouper, loop over the batches, thread pool and
\* supervisor implement PlanExecution.
THEOREM ThePlanIsExecuted ==
  ASSUME MaxPlanSteps <= MaxQueueDepth
  PROVE  Spec => ExecutesPlan
<1>1. Init => RanOnce
  BY DEF Init, RanOnce, Executing
<1>2. Init => Execution!Init
  BY DEF Init, Planned, Execution!Init, Execution!Nothing, Execution!Positions, Positions
<1>3. InOrder /\ InOrder' /\ RanOnce /\ [Next]_vars => RanOnce'
  BY RanOnceStep
<1>4. InOrder /\ InOrder' /\ RanOnce /\ RanOnce' /\ [Next]_vars
        => [Execution!Next]_(Execution!vars)
  <2> SUFFICES ASSUME InOrder, InOrder', RanOnce, RanOnce', [Next]_vars
               PROVE  [Execution!Next]_(Execution!vars)
    OBVIOUS
  <2>1. CASE UNCHANGED vars
    BY <2>1 DEF vars, agState, pool, Execution!vars, Planned
  <2>2. CASE \E r \in Requests : RunWorkflow(r)
    <3>1. node = "none" /\ node' = "planner" /\ retryCount' = retryCount
      BY <2>2 DEF RunWorkflow, agState, InOrder, Shape
    <3>2. QED
      BY <3>1 DEF Planned, Execution!Next, Execution!Begin
  <2>3. CASE GraphStep
    BY <2>3, GraphRefines
  <2>4. CASE PoolStep
    BY <2>4, PoolRefines
  <2>5. CASE PodRestarts
    <3>1. node # "none"
      BY <2>5 DEF PodRestarts, InOrder, Shape
    <3>2. QED
      BY <2>5, <3>1, GivesUp DEF PodRestarts, Execution!Next
  <2>6. QED
    BY <2>1, <2>2, <2>3, <2>4, <2>5 DEF Next
<1>5. QED
  BY <1>1, <1>2, <1>3, <1>4, AlwaysInOrder, PTL DEF Spec, ExecutesPlan, Execution!Spec
==============================================================================
