------------------------ MODULE GitOpsApprovalProofs ------------------------
(***************************************************************************)
(* Theorems about GitOpsApproval, for any incidents, operators and number  *)
(* of pull requests.                                                       *)
(***************************************************************************)
EXTENDS GitOpsApproval, TLAPS

-----------------------------------------------------------------------------
(* Steps that several actions have in common.                               *)

\* What waits under an incident is a pull request.
LEMMA WaitingTypes ==
  ASSUME NEW i
  PROVE  Waiting(i) \subseteq PRs
  BY DEF Waiting

\* Deleting the entry of an incident, whatever incident that is.
LEMMA ForgetTypes ==
  ASSUME KeyTypes, HistoryTypes, NEW i, NEW n, ChatForget(i, n)
  PROVE  /\ pending' \in [Incidents -> 0..MaxPRs]
         /\ dropped' \subseteq PRs /\ swept' \subseteq PRs
<1>1. CASE Forget(i, n)
  <2>1. None \in 0..MaxPRs
    BY ApprovalAssumption DEF None
  <2>2. pending' \in [Incidents -> 0..MaxPRs]
    BY <1>1, <2>1 DEF KeyTypes, Forget
  <2>3. dropped' \subseteq PRs /\ swept' \subseteq PRs
    BY <1>1, WaitingTypes DEF HistoryTypes, Forget
  <2>4. QED
    BY <2>2, <2>3
<1>2. CASE UNCHANGED <<pending, dropped, swept>>
  BY <1>2 DEF KeyTypes, HistoryTypes
<1>3. QED
  BY <1>1, <1>2 DEF ChatForget

\* A request that ends.
LEMMA AnswerTypes ==
  ASSUME RequestTypes, NEW h \in Handlers, Answer(h)
  PROVE  RequestTypes'
  BY ApprovalAssumption DEF RequestTypes, Answer, NoRequest, None

\* A request that goes on.
LEMMA ServeTypes ==
  ASSUME RequestTypes, NEW h \in Handlers, req[h].at # "idle",
         NEW label \in {"untrack", "advance", "clear"}, Serve(h, label)
  PROVE  RequestTypes'
<1>1. req'[h] = [req[h] EXCEPT !.at = label]
  BY DEF RequestTypes, Serve
<1>2. \A g \in Handlers \ {h} : req'[g] = req[g]
  BY DEF RequestTypes, Serve
<1>3. QED
  BY <1>1, <1>2 DEF RequestTypes, Serve, None

(* The variables are always of the declared types, whoever dies or fails; a   *)
(* thread of Camael and a request of an operator always have a pull request. *)
THEOREM TypeCorrect == Spec => []TypeOK
<1> USE ApprovalAssumption DEF PRs, None
<1>1. Init => TypeOK
  BY DEF Init, NoRequest, TypeOK, BitbucketTypes, ServiceNowTypes, KeyTypes,
         ThreadTypes, RequestTypes, HistoryTypes
<1>2. TypeOK /\ [Next]_vars => TypeOK'
  <2> SUFFICES ASSUME BitbucketTypes, ServiceNowTypes, KeyTypes,
                      ThreadTypes, RequestTypes, HistoryTypes, [Next]_vars
               PROVE  TypeOK'
    BY DEF TypeOK
  <2>1. ASSUME NEW i \in Incidents, CreatePR(i)
        PROVE  TypeOK'
    <3>1. BitbucketTypes'
      BY <2>1 DEF CreatePR, BitbucketTypes, bitbucket
    <3>2. ThreadTypes'
      BY <2>1 DEF CreatePR, BitbucketTypes, ThreadTypes, thread
    <3>3. ServiceNowTypes' /\ KeyTypes' /\ RequestTypes'
      BY <2>1 DEF CreatePR, ServiceNowTypes, KeyTypes, RequestTypes, servicenow, keys
    <3>4. HistoryTypes'
      <4>1. prs + 1 \in PRs
        BY <2>1 DEF CreatePR, BitbucketTypes
      <4>2. unseen' \subseteq PRs
        BY <2>1, <4>1 DEF CreatePR, HistoryTypes
      <4>3. QED
        BY <2>1, <4>2 DEF CreatePR, HistoryTypes
    <3>5. QED
      BY <3>1, <3>2, <3>3, <3>4 DEF TypeOK
  <2>2. ASSUME NEW i \in Incidents, CreateRfc(i)
        PROVE  TypeOK'
    <3>1. ServiceNowTypes'
      BY <2>2 DEF CreateRfc, ThreadTypes, ServiceNowTypes, servicenow
    <3>2. KeyTypes'
      <4>1. rfcKey[i] \in 0..MaxPRs /\ draft[i] \in 0..MaxPRs
        BY DEF ThreadTypes, KeyTypes
      <4>2. rfcKey' = rfcKey \/ \E key \in 0..MaxPRs : rfcKey' = [rfcKey EXCEPT ![i] = key]
        BY <2>2, <4>1 DEF CreateRfc
      <4>3. QED
        BY <2>2, <4>2 DEF CreateRfc, KeyTypes
    <3>3. ThreadTypes'
      <4>1. draft[i] \in PRs
        BY <2>2 DEF CreateRfc, ThreadTypes
      <4>2. rfcOf' \in [PRs -> 0..MaxPRs]
        BY <2>2, <4>1 DEF CreateRfc, ThreadTypes, KeyTypes
      <4>3. QED
        BY <2>2, <4>2 DEF CreateRfc, ThreadTypes
    <3>4. BitbucketTypes' /\ RequestTypes' /\ HistoryTypes'
      BY <2>2 DEF CreateRfc, BitbucketTypes, RequestTypes, HistoryTypes,
                  bitbucket, servicenow, keys, thread, history
    <3>5. QED
      BY <3>1, <3>2, <3>3, <3>4 DEF TypeOK
  <2>3. ASSUME NEW i \in Incidents, SavePending(i)
        PROVE  TypeOK'
    <3>1. KeyTypes'
      BY <2>3 DEF SavePending, EndFix, ThreadTypes, KeyTypes, keys
    <3>2. ThreadTypes'
      BY <2>3 DEF SavePending, EndFix, ThreadTypes, thread
    <3>3. BitbucketTypes' /\ ServiceNowTypes' /\ RequestTypes'
      BY <2>3 DEF SavePending, BitbucketTypes, ServiceNowTypes, RequestTypes,
                  bitbucket, servicenow
    <3>4. HistoryTypes'
      <4>1. draft[i] \in PRs
        BY <2>3 DEF SavePending, ThreadTypes
      <4>2. QED
        BY <2>3, <4>1, WaitingTypes DEF SavePending, HistoryTypes
    <3>5. QED
      BY <3>1, <3>2, <3>3, <3>4 DEF TypeOK
  <2>4. ASSUME NEW i \in Incidents, AbandonFix(i)
        PROVE  TypeOK'
    <3>1. ThreadTypes'
      BY <2>4 DEF AbandonFix, EndFix, ThreadTypes, thread
    <3>2. HistoryTypes'
      <4>1. draft[i] \in PRs
        BY <2>4 DEF AbandonFix, EndFix, ThreadTypes
      <4>2. QED
        BY <2>4, <4>1 DEF AbandonFix, EndFix, HistoryTypes
    <3>3. BitbucketTypes' /\ ServiceNowTypes' /\ KeyTypes'
           /\ RequestTypes'
      BY <2>4 DEF AbandonFix, BitbucketTypes, ServiceNowTypes, KeyTypes,
                  RequestTypes, bitbucket, servicenow, keys, thread, history
    <3>4. QED
      BY <3>1, <3>2, <3>3 DEF TypeOK
  <2>5. ASSUME NEW h \in Handlers, NEW i \in Incidents, Approve(h, i)
        PROVE  TypeOK'
    <3>1. RequestTypes'
      BY <2>5 DEF Approve, KeyTypes, RequestTypes
    <3>2. BitbucketTypes' /\ ServiceNowTypes' /\ KeyTypes'
           /\ ThreadTypes' /\ HistoryTypes'
      BY <2>5 DEF Approve, BitbucketTypes, ServiceNowTypes, KeyTypes,
                  ThreadTypes, HistoryTypes, bitbucket, servicenow, keys,
                  thread, history
    <3>3. QED
      BY <3>1, <3>2 DEF TypeOK
  <2>6. ASSUME NEW h \in Handlers, NEW i \in Incidents, RejectInChat(h, i)
        PROVE  TypeOK'
    <3>1. KeyTypes'
      BY <2>6, ForgetTypes DEF RejectInChat, KeyTypes, keys
    <3>2. RequestTypes'
      BY <2>6 DEF RejectInChat, NoRequest, KeyTypes, RequestTypes
    <3>3. HistoryTypes'
      <4>1. pending[i] \in PRs
        BY <2>6 DEF RejectInChat, KeyTypes
      <4>2. QED
        BY <2>6, <4>1, ForgetTypes DEF RejectInChat, HistoryTypes
    <3>4. BitbucketTypes' /\ ServiceNowTypes' /\ ThreadTypes'
      BY <2>6 DEF RejectInChat, BitbucketTypes, ServiceNowTypes, ThreadTypes,
                  bitbucket, servicenow, keys, thread, history
    <3>5. QED
      BY <3>1, <3>2, <3>3, <3>4 DEF TypeOK
  <2>7. ASSUME NEW h \in Handlers, NEW i \in Incidents, RejectByCommand(h, i)
        PROVE  TypeOK'
    <3>1. RequestTypes'
      BY <2>7 DEF RejectByCommand, KeyTypes, RequestTypes
    <3>2. BitbucketTypes' /\ ServiceNowTypes' /\ KeyTypes'
           /\ ThreadTypes' /\ HistoryTypes'
      BY <2>7 DEF RejectByCommand, BitbucketTypes, ServiceNowTypes, KeyTypes,
                  ThreadTypes, HistoryTypes, bitbucket, servicenow, keys,
                  thread, history
    <3>3. QED
      BY <3>1, <3>2 DEF TypeOK
  <2>8. ASSUME NEW h \in Handlers, CancelRfc(h)
        PROVE  TypeOK'
    <3>1. ServiceNowTypes'
      BY <2>8 DEF CancelRfc, ServiceNowTypes, servicenow
    <3>2. RequestTypes'
      BY <2>8, AnswerTypes DEF CancelRfc, RequestTypes
    <3>3. BitbucketTypes' /\ KeyTypes' /\ ThreadTypes' /\ HistoryTypes'
      BY <2>8 DEF CancelRfc, BitbucketTypes, KeyTypes, ThreadTypes,
                  HistoryTypes, bitbucket, servicenow, keys, thread, history
    <3>4. QED
      BY <3>1, <3>2, <3>3 DEF TypeOK
  <2>9. ASSUME NEW h \in Handlers, Merge(h)
        PROVE  TypeOK'
    <3>1. BitbucketTypes'
      <4>1. req[h].pr \in PRs
        BY <2>9 DEF Merge, RequestTypes
      <4>2. QED
        BY <2>9, <4>1 DEF Merge, MergeOpen, BitbucketTypes
    <3>2. RequestTypes'
      BY <2>9, ServeTypes DEF Merge, RequestTypes
    <3>3. ServiceNowTypes' /\ KeyTypes' /\ ThreadTypes' /\ HistoryTypes'
      BY <2>9 DEF Merge, ServiceNowTypes, KeyTypes, ThreadTypes, HistoryTypes,
                  bitbucket, servicenow, keys, thread, history
    <3>4. QED
      BY <3>1, <3>2, <3>3 DEF TypeOK
  <2>10. ASSUME NEW h \in Handlers, MergeRefused(h)
        PROVE  TypeOK'
    <3>1. KeyTypes'
      BY <2>10, ForgetTypes DEF MergeRefused, ChatForget, KeyTypes, keys
    <3>2. RequestTypes'
      BY <2>10, AnswerTypes DEF MergeRefused, RequestTypes
    <3>3. HistoryTypes'
      BY <2>10, ForgetTypes DEF MergeRefused, ChatForget, HistoryTypes, history
    <3>4. BitbucketTypes' /\ ServiceNowTypes' /\ ThreadTypes'
      BY <2>10 DEF MergeRefused, BitbucketTypes, ServiceNowTypes, ThreadTypes,
                   bitbucket, servicenow, keys, thread, history
    <3>5. QED
      BY <3>1, <3>2, <3>3, <3>4 DEF TypeOK
  <2>11. ASSUME NEW h \in Handlers, Untrack(h)
        PROVE  TypeOK'
    <3>1. KeyTypes'
      BY <2>11, ForgetTypes DEF Untrack, ChatForget, KeyTypes, keys
    <3>2. RequestTypes'
      BY <2>11, ServeTypes DEF Untrack, RequestTypes
    <3>3. HistoryTypes'
      BY <2>11, ForgetTypes DEF Untrack, ChatForget, HistoryTypes, history
    <3>4. BitbucketTypes' /\ ServiceNowTypes' /\ ThreadTypes'
      BY <2>11 DEF Untrack, BitbucketTypes, ServiceNowTypes, ThreadTypes,
                   bitbucket, servicenow, keys, thread, history
    <3>5. QED
      BY <3>1, <3>2, <3>3, <3>4 DEF TypeOK
  <2>12. ASSUME NEW h \in Handlers, Advance(h)
        PROVE  TypeOK'
    <3>1. ServiceNowTypes'
      BY <2>12 DEF Advance, MoveOn, ServiceNowTypes, servicenow
    <3>2. RequestTypes'
      BY <2>12, AnswerTypes DEF Advance, RequestTypes
    <3>3. BitbucketTypes' /\ KeyTypes' /\ ThreadTypes' /\ HistoryTypes'
      BY <2>12 DEF Advance, BitbucketTypes, KeyTypes, ThreadTypes,
                   HistoryTypes, bitbucket, servicenow, keys, thread, history
    <3>4. QED
      BY <3>1, <3>2, <3>3 DEF TypeOK
  <2>13. ASSUME NEW h \in Handlers, Decline(h)
        PROVE  TypeOK'
    <3>1. BitbucketTypes'
      BY <2>13 DEF Decline, BitbucketTypes, bitbucket
    <3>2. RequestTypes'
      BY <2>13, ServeTypes DEF Decline, RequestTypes
    <3>3. ServiceNowTypes' /\ KeyTypes' /\ ThreadTypes' /\ HistoryTypes'
      BY <2>13 DEF Decline, ServiceNowTypes, KeyTypes, ThreadTypes,
                   HistoryTypes, bitbucket, servicenow, keys, thread, history
    <3>4. QED
      BY <3>1, <3>2, <3>3 DEF TypeOK
  <2>14. ASSUME NEW h \in Handlers, ClearDeclined(h)
        PROVE  TypeOK'
    <3>1. KeyTypes'
      BY <2>14, ForgetTypes DEF ClearDeclined, ChatForget, KeyTypes, keys
    <3>2. RequestTypes'
      BY <2>14, AnswerTypes DEF ClearDeclined, RequestTypes
    <3>3. HistoryTypes'
      BY <2>14, ForgetTypes DEF ClearDeclined, ChatForget, HistoryTypes, history
    <3>4. BitbucketTypes' /\ ServiceNowTypes' /\ ThreadTypes'
      BY <2>14 DEF ClearDeclined, BitbucketTypes, ServiceNowTypes, ThreadTypes,
                   bitbucket, servicenow, keys, thread, history
    <3>5. QED
      BY <3>1, <3>2, <3>3, <3>4 DEF TypeOK
  <2>15. ASSUME NEW h \in Handlers, AbandonRequest(h)
        PROVE  TypeOK'
    <3>1. RequestTypes'
      BY <2>15, AnswerTypes DEF AbandonRequest, RequestTypes
    <3>2. BitbucketTypes' /\ ServiceNowTypes' /\ KeyTypes'
           /\ ThreadTypes' /\ HistoryTypes'
      BY <2>15 DEF AbandonRequest, BitbucketTypes, ServiceNowTypes, KeyTypes,
                   ThreadTypes, HistoryTypes, bitbucket, servicenow, keys,
                   thread, history
    <3>3. QED
      BY <3>1, <3>2 DEF TypeOK
  <2>16. ASSUME NEW n \in PRs, MergeInBitbucket(n)
        PROVE  TypeOK'
    <3>1. BitbucketTypes'
      BY <2>16 DEF MergeInBitbucket, MergeOpen, BitbucketTypes, bitbucket
    <3>2. ServiceNowTypes' /\ KeyTypes' /\ ThreadTypes' /\ RequestTypes'
           /\ HistoryTypes'
      BY <2>16 DEF MergeInBitbucket, ServiceNowTypes, KeyTypes, ThreadTypes,
                   RequestTypes, HistoryTypes, bitbucket, servicenow, keys,
                   thread, history
    <3>3. QED
      BY <3>1, <3>2 DEF TypeOK
  <2>17. ASSUME NEW n \in PRs, Hook(n)
        PROVE  TypeOK'
    <3>1. BitbucketTypes'
      BY <2>17 DEF Hook, BitbucketTypes, bitbucket
    <3>2. ServiceNowTypes'
      BY <2>17 DEF Hook, MoveOn, ServiceNowTypes, servicenow
    <3>3. KeyTypes' /\ ThreadTypes' /\ RequestTypes' /\ HistoryTypes'
      BY <2>17 DEF Hook, KeyTypes, ThreadTypes, RequestTypes, HistoryTypes,
                   bitbucket, servicenow, keys, thread, history
    <3>4. QED
      BY <3>1, <3>2, <3>3 DEF TypeOK
  <2>18. ASSUME NEW state \in {"Closed", "Review"}, NEW i \in Incidents, Verdict(i, state)
        PROVE  TypeOK'
    <3>1. ServiceNowTypes'
      BY <2>18 DEF Verdict, KeyTypes, ServiceNowTypes, servicenow
    <3>2. BitbucketTypes' /\ KeyTypes' /\ ThreadTypes' /\ RequestTypes'
           /\ HistoryTypes'
      BY <2>18 DEF Verdict, BitbucketTypes, KeyTypes, ThreadTypes,
                   RequestTypes, HistoryTypes, bitbucket, servicenow, keys,
                   thread, history
    <3>3. QED
      BY <3>1, <3>2 DEF TypeOK
  <2>19. ASSUME NEW state \in {"Closed", "Review"}, NEW r \in PRs, UpdateRfc(r, state)
        PROVE  TypeOK'
    <3>1. ServiceNowTypes'
      BY <2>19 DEF UpdateRfc, ServiceNowTypes, servicenow
    <3>2. BitbucketTypes' /\ KeyTypes' /\ ThreadTypes' /\ RequestTypes'
           /\ HistoryTypes'
      BY <2>19 DEF UpdateRfc, BitbucketTypes, KeyTypes, ThreadTypes,
                   RequestTypes, HistoryTypes, bitbucket, servicenow, keys,
                   thread, history
    <3>3. QED
      BY <3>1, <3>2 DEF TypeOK
  <2>20. ASSUME NEW i \in Incidents, ExpirePending(i)
        PROVE  TypeOK'
    <3>1. KeyTypes'
      BY <2>20, ForgetTypes DEF ExpirePending, ChatForget, KeyTypes, keys
    <3>2. HistoryTypes'
      BY <2>20, ForgetTypes DEF ExpirePending, ChatForget, HistoryTypes, history
    <3>3. BitbucketTypes' /\ ServiceNowTypes' /\ ThreadTypes'
           /\ RequestTypes'
      BY <2>20 DEF ExpirePending, BitbucketTypes, ServiceNowTypes, ThreadTypes,
                   RequestTypes, bitbucket, servicenow, keys, thread, history
    <3>4. QED
      BY <3>1, <3>2, <3>3 DEF TypeOK
  <2>21. ASSUME NEW i \in Incidents, ExpireRfcKey(i)
        PROVE  TypeOK'
    <3>1. KeyTypes'
      BY <2>21 DEF ExpireRfcKey, KeyTypes, keys
    <3>2. BitbucketTypes' /\ ServiceNowTypes' /\ ThreadTypes'
           /\ RequestTypes' /\ HistoryTypes'
      BY <2>21 DEF ExpireRfcKey, BitbucketTypes, ServiceNowTypes, ThreadTypes,
                   RequestTypes, HistoryTypes, bitbucket, servicenow, keys,
                   thread, history
    <3>3. QED
      BY <3>1, <3>2 DEF TypeOK
  <2>22. CASE UNCHANGED vars
    BY <2>22 DEF vars, bitbucket, servicenow, keys, thread, history, TypeOK,
                BitbucketTypes, ServiceNowTypes, KeyTypes, ThreadTypes,
                RequestTypes, HistoryTypes
  <2>23. QED
    BY <2>1, <2>2, <2>3, <2>4, <2>5, <2>6, <2>7, <2>8, <2>9, <2>10, <2>11,
       <2>12, <2>13, <2>14, <2>15, <2>16, <2>17, <2>18, <2>19, <2>20, <2>21,
       <2>22
       DEF Next, Camael, Begin, Serving
<1>3. QED
  BY <1>1, <1>2, PTL DEF Spec

-----------------------------------------------------------------------------
(* Pull requests, their incidents and their RFCs                             *)

\* A number that is not given out yet belongs to nothing.
Future ==
  \A n \in PRs : n > prs => pr[n] = "none" /\ rfcOf[n] = None

\* What a thread of Camael works on is the newest pull request of its incident.
Drafts ==
  \A i \in Incidents : camael[i] # "idle" =>
    /\ draft[i] \in PRs
    /\ draft[i] <= prs
    /\ owner[draft[i]] = i
    /\ camael[i] = "rfc" => rfcOf[draft[i]] = None

PRInv == Future /\ Drafts

\* At first nothing is created and no thread works.
LEMMA PRInvInit == Init => PRInv
  BY DEF Init, PRInv, Future, Drafts

\* No action undoes a merge or takes an RFC away from a pull request.
LEMMA Kept ==
  ASSUME TypeOK, PRInv, [Next]_vars, NEW n \in PRs
  PROVE  /\ pr[n] = "merged" => pr'[n] = "merged"
         /\ rfcOf[n] # None => rfcOf'[n] = rfcOf[n]
         /\ pr'[n] = "open" => pr[n] = "open" \/ n = prs + 1
<1> USE DEF PRInv, TypeOK
<1>1. ASSUME NEW i \in Incidents, CreatePR(i)
      PROVE  /\ pr[n] = "merged" => pr'[n] = "merged"
             /\ rfcOf' = rfcOf
             /\ pr'[n] = "open" => pr[n] = "open" \/ n = prs + 1
  BY <1>1 DEF CreatePR, Future, BitbucketTypes, PRs
<1>2. ASSUME NEW i \in Incidents, CreateRfc(i)
      PROVE  pr' = pr /\ (rfcOf[n] # None => rfcOf'[n] = rfcOf[n])
  <2>1. pr' = pr /\ rfcOf[draft[i]] = None /\ draft[i] \in PRs
    BY <1>2 DEF CreateRfc, Drafts, bitbucket
  <2>2. rfcOf' = rfcOf \/ \E r : rfcOf' = [rfcOf EXCEPT ![draft[i]] = r]
    BY <1>2 DEF CreateRfc
  <2>3. QED
    BY <2>1, <2>2 DEF ThreadTypes
<1>3. ASSUME NEW i \in Incidents,
             SavePending(i) \/ AbandonFix(i) \/ ExpirePending(i) \/ ExpireRfcKey(i)
      PROVE  UNCHANGED <<pr, rfcOf>>
  BY <1>3 DEF SavePending, AbandonFix, ExpirePending, ExpireRfcKey, bitbucket,
              thread
<1>4. ASSUME NEW h \in Handlers, NEW i \in Incidents, Begin(h, i)
      PROVE  UNCHANGED <<pr, rfcOf>>
  BY <1>4 DEF Begin, Approve, RejectInChat, RejectByCommand, bitbucket, thread
<1>5. ASSUME NEW h \in Handlers, Merge(h) \/ Decline(h)
      PROVE  /\ pr[n] = "merged" => pr'[n] = "merged"
             /\ rfcOf' = rfcOf
             /\ pr'[n] = "open" => pr[n] = "open"
  BY <1>5 DEF Merge, MergeOpen, Decline, thread, BitbucketTypes
<1>6. ASSUME NEW h \in Handlers,
             \/ MergeRefused(h) \/ Untrack(h) \/ Advance(h) \/ CancelRfc(h)
             \/ ClearDeclined(h) \/ AbandonRequest(h)
      PROVE  UNCHANGED <<pr, rfcOf>>
  BY <1>6 DEF MergeRefused, Untrack, Advance, CancelRfc, ClearDeclined,
              AbandonRequest, bitbucket, thread
<1>7. ASSUME NEW m \in PRs, MergeInBitbucket(m) \/ Hook(m)
      PROVE  /\ pr[n] = "merged" => pr'[n] = "merged"
             /\ rfcOf' = rfcOf
             /\ pr'[n] = "open" => pr[n] = "open"
  BY <1>7 DEF MergeInBitbucket, MergeOpen, Hook, thread, BitbucketTypes
<1>8. ASSUME NEW state, NEW x, Verdict(x, state) \/ UpdateRfc(x, state)
      PROVE  UNCHANGED <<pr, rfcOf>>
  BY <1>8 DEF Verdict, UpdateRfc, bitbucket, thread
<1>9. CASE UNCHANGED vars
  BY <1>9 DEF vars, bitbucket, thread
<1>10. QED
  BY <1>1, <1>2, <1>3, <1>4, <1>5, <1>6, <1>7, <1>8, <1>9
     DEF Next, Camael, Serving

\* Only a thread of Camael touches its draft, and drafts of two incidents differ.
LEMMA PRInvStep == TypeOK /\ PRInv /\ [Next]_vars => PRInv'
<1> SUFFICES ASSUME TypeOK, PRInv, [Next]_vars
             PROVE  PRInv'
  OBVIOUS
<1> USE DEF PRInv, TypeOK
<1>1. ASSUME NEW i \in Incidents, CreatePR(i)
      PROVE  PRInv'
  <2>1. prs' = prs + 1 /\ prs' \in PRs
    BY <1>1, ApprovalAssumption DEF CreatePR, BitbucketTypes, PRs
  <2>2. Future'
    BY <1>1, <2>1 DEF CreatePR, Future, BitbucketTypes, PRs
  <2>3. ASSUME NEW j \in Incidents, camael'[j] # "idle"
        PROVE  /\ draft'[j] \in PRs /\ draft'[j] <= prs'
               /\ owner'[draft'[j]] = j
               /\ camael'[j] = "rfc" => rfcOf'[draft'[j]] = None
    <3>1. CASE j = i
      BY <1>1, <2>1, <3>1 DEF CreatePR, Future, BitbucketTypes, ThreadTypes, PRs
    <3>2. CASE j # i
      BY <1>1, <2>1, <2>3, <3>2
         DEF CreatePR, Drafts, BitbucketTypes, ThreadTypes, PRs
    <3>3. QED
      BY <3>1, <3>2
  <2>4. QED
    BY <2>2, <2>3 DEF Drafts
<1>2. ASSUME NEW i \in Incidents, CreateRfc(i)
      PROVE  PRInv'
  <2>1. UNCHANGED <<prs, pr, owner, draft>> /\ draft[i] \in PRs
    BY <1>2 DEF CreateRfc, Drafts, bitbucket
  <2>2. rfcOf' = rfcOf \/ \E r : rfcOf' = [rfcOf EXCEPT ![draft[i]] = r]
    BY <1>2 DEF CreateRfc
  <2>3. \A n \in PRs \ {draft[i]} : rfcOf'[n] = rfcOf[n]
    BY <2>1, <2>2 DEF ThreadTypes
  <2>4. Future'
    <3>1. draft[i] <= prs
      BY <1>2 DEF CreateRfc, Drafts
    <3>2. QED
      BY <2>1, <2>3, <3>1 DEF Future, BitbucketTypes, PRs
  <2>5. \A j \in Incidents \ {i} : camael'[j] = camael[j]
    BY <1>2 DEF CreateRfc, ThreadTypes
  <2>6. camael[i] = "rfc" /\ camael'[i] = "save"
    BY <1>2 DEF CreateRfc, ThreadTypes
  <2>7. ASSUME NEW j \in Incidents, camael'[j] # "idle"
        PROVE  /\ draft'[j] \in PRs /\ draft'[j] <= prs'
               /\ owner'[draft'[j]] = j
               /\ camael'[j] = "rfc" => rfcOf'[draft'[j]] = None
    <3>1. CASE j = i
      BY <2>1, <2>6, <3>1 DEF Drafts
    <3>2. CASE j # i
      <4>1. draft[j] # draft[i]
        BY <2>5, <2>6, <2>7, <3>2 DEF Drafts
      <4>2. QED
        BY <2>1, <2>3, <2>5, <2>7, <3>2, <4>1 DEF Drafts
    <3>3. QED
      BY <3>1, <3>2
  <2>8. QED
    BY <2>4, <2>7 DEF Drafts
<1>3. ASSUME NEW i \in Incidents, SavePending(i) \/ AbandonFix(i)
      PROVE  PRInv'
  BY <1>3 DEF SavePending, AbandonFix, EndFix, Future, Drafts, bitbucket,
              ThreadTypes
<1>4. ASSUME UNCHANGED <<prs, owner, thread>>,
             \A n \in PRs : pr[n] = "none" => pr'[n] = "none"
      PROVE  PRInv'
  BY <1>4 DEF Future, Drafts, thread
<1>5. ASSUME NEW i \in Incidents, ExpirePending(i) \/ ExpireRfcKey(i)
      PROVE  UNCHANGED <<bitbucket, thread>>
  BY <1>5 DEF ExpirePending, ExpireRfcKey
<1>6. ASSUME NEW h \in Handlers, NEW i \in Incidents, Begin(h, i)
      PROVE  UNCHANGED <<bitbucket, thread>>
  BY <1>6 DEF Begin, Approve, RejectInChat, RejectByCommand
<1>7. ASSUME NEW h \in Handlers, Serving(h) \/ AbandonRequest(h)
      PROVE  /\ UNCHANGED <<prs, owner, thread>>
             /\ \A n \in PRs : pr[n] = "none" => pr'[n] = "none"
  BY <1>7 DEF Serving, Merge, MergeOpen, MergeRefused, Untrack, Advance, CancelRfc,
              Decline, ClearDeclined, AbandonRequest, bitbucket, BitbucketTypes
<1>8. ASSUME NEW m \in PRs, MergeInBitbucket(m) \/ Hook(m)
      PROVE  /\ UNCHANGED <<prs, owner, thread>>
             /\ \A n \in PRs : pr[n] = "none" => pr'[n] = "none"
  BY <1>8 DEF MergeInBitbucket, MergeOpen, Hook, BitbucketTypes
<1>9. ASSUME NEW state, NEW x, Verdict(x, state) \/ UpdateRfc(x, state)
      PROVE  UNCHANGED <<bitbucket, thread>>
  BY <1>9 DEF Verdict, UpdateRfc
<1>10. CASE UNCHANGED vars
  BY <1>4, <1>10 DEF vars, bitbucket
<1>11. UNCHANGED <<bitbucket, thread>> => PRInv'
  BY <1>4 DEF bitbucket
<1>12. QED
  BY <1>1, <1>2, <1>3, <1>4, <1>5, <1>6, <1>7, <1>8, <1>9, <1>10, <1>11
     DEF Next, Camael

\* Both facts hold in every state.
LEMMA PRInvariant == Spec => []PRInv
  BY PRInvInit, PRInvStep, TypeCorrect, PTL DEF Spec

-----------------------------------------------------------------------------
(* One pull request waits                                                    *)

\* What no longer waits, for whatever reason.
Lost == dropped \cup swept

\* An open pull request that is not lost is known to Redis or to a thread.
Tracked ==
  \A n \in PRs : pr[n] = "open" =>
    /\ owner[n] \in Incidents
    /\ \/ n \in Lost
       \/ pending[owner[n]] = n
       \/ camael[owner[n]] # "idle" /\ draft[owner[n]] = n

WaitInv == Tracked /\ OnePRWaits

\* A step after which no more is open and what is open stays known.
LEMMA WaitKept ==
  ASSUME WaitInv, UNCHANGED <<owner, camael, draft, pending, unseen>>,
         Lost \subseteq Lost',
         \A n \in PRs : pr'[n] = "open" => pr[n] = "open"
  PROVE  WaitInv'
<1>1. Tracked'
  BY DEF WaitInv, Tracked
<1>2. OnePRWaits'
  BY DEF WaitInv, OnePRWaits, Lost
<1>3. QED
  BY <1>1, <1>2 DEF WaitInv

\* A request or the TTL deletes an entry, or fails to: what it names is lost.
LEMMA ForgetWaits ==
  ASSUME TypeOK, WaitInv, NEW i, NEW m, ChatForget(i, m),
         UNCHANGED <<bitbucket, thread, unseen>>
  PROVE  WaitInv'
<1>1. CASE Forget(i, m)
  <2>1. \A j \in Incidents : pending'[j] = IF j = i THEN None ELSE pending[j]
    BY <1>1 DEF Forget, TypeOK, KeyTypes
  <2>2. Lost' = Lost \cup Waiting(i)
    BY <1>1 DEF Forget, Lost
  <2>3. ASSUME NEW n \in PRs, pr[n] = "open", pending[owner[n]] = n, owner[n] = i
        PROVE  n \in Lost'
    BY <2>2, <2>3 DEF Waiting
  <2>4. Tracked'
    BY <2>1, <2>2, <2>3 DEF WaitInv, Tracked, bitbucket, thread
  <2>5. OnePRWaits'
    BY <2>2 DEF WaitInv, OnePRWaits, Lost, bitbucket
  <2>6. QED
    BY <2>4, <2>5 DEF WaitInv
<1>2. CASE UNCHANGED <<pending, dropped, swept>>
  BY <1>2, WaitKept DEF bitbucket, thread, Lost
<1>3. QED
  BY <1>1, <1>2 DEF ChatForget

\* The dedup guard leaves no open pull request of the incident that is not lost;
\* where it fails, the new one is unseen.
LEMMA CreateWaits ==
  ASSUME TypeOK, PRInv, WaitInv, NEW i \in Incidents, CreatePR(i)
  PROVE  WaitInv'
<1> USE DEF TypeOK
<1>1. /\ prs' = prs + 1 /\ prs' \in PRs /\ prs' # None
      /\ pr'[prs'] = "open" /\ owner'[prs'] = i
      /\ \A n \in PRs \ {prs'} : pr'[n] = pr[n] /\ owner'[n] = owner[n]
  BY ApprovalAssumption DEF CreatePR, BitbucketTypes, PRs, None
<1>2. /\ draft'[i] = prs' /\ camael'[i] = "rfc"
      /\ \A j \in Incidents \ {i} : draft'[j] = draft[j] /\ camael'[j] = camael[j]
      /\ UNCHANGED <<pending, dropped, swept>>
      /\ unseen \subseteq unseen'
  BY DEF CreatePR, ThreadTypes, keys
<1>3. camael[i] = "idle"
  BY DEF CreatePR
<1>4. ASSUME NEW n \in PRs, pr[n] = "open", owner[n] = i
      PROVE  n \in Lost \/ pending[i] = n
  BY <1>3, <1>4 DEF WaitInv, Tracked
<1>5. pending[i] = None \/ prs' \in unseen'
  BY <1>1 DEF CreatePR, NothingWaits
<1>6. Tracked'
  BY <1>1, <1>2, <1>4 DEF WaitInv, Tracked, Lost
<1>7. ASSUME NEW n \in PRs, NEW m \in PRs, n < m, owner'[n] = owner'[m],
             pr'[n] = "open", pr'[m] = "open"
      PROVE  n \in Lost' \/ m \in unseen'
  <2>1. CASE m = prs'
    <3>1. n # prs' /\ n # None
      BY <1>1, <1>7, <2>1 DEF PRs, None
    <3>2. n \in Lost \/ pending[i] = n
      BY <1>1, <1>4, <1>7, <2>1, <3>1
    <3>3. QED
      BY <1>2, <1>5, <2>1, <3>1, <3>2 DEF Lost
  <2>2. CASE n = prs'
    <3>1. pr[m] = "none" /\ m # prs'
      BY <1>1, <1>7, <2>2 DEF PRInv, Future, BitbucketTypes, PRs
    <3>2. QED
      BY <1>1, <1>7, <3>1
  <2>3. CASE m # prs' /\ n # prs'
    BY <1>1, <1>2, <1>7, <2>3 DEF WaitInv, OnePRWaits, Lost
  <2>4. QED
    BY <2>1, <2>2, <2>3
<1>8. QED
  BY <1>6, <1>7 DEF WaitInv, OnePRWaits, Lost

\* A thread ends: its pull request waits from now on, or is lost, and what waited
\* before it is lost if it is replaced.
LEMMA EndFixWaits ==
  ASSUME TypeOK, PRInv, WaitInv, NEW i \in Incidents,
         SavePending(i) \/ AbandonFix(i)
  PROVE  WaitInv'
<1> USE DEF TypeOK
<1>1. /\ UNCHANGED <<pr, owner, unseen>>
      /\ \A j \in Incidents \ {i} : /\ draft'[j] = draft[j] /\ camael'[j] = camael[j]
                                    /\ pending'[j] = pending[j]
  BY DEF SavePending, AbandonFix, EndFix, ThreadTypes, KeyTypes, bitbucket, keys
<1>2. Lost \subseteq Lost' /\ (pending'[i] = draft[i] \/ draft[i] \in Lost')
  BY DEF SavePending, AbandonFix, KeyTypes, Lost
<1>3. pending' = pending \/ Waiting(i) \subseteq Lost'
  BY DEF SavePending, AbandonFix, Lost, keys
<1>4. ASSUME NEW n \in PRs, pr'[n] = "open"
      PROVE  /\ owner'[n] \in Incidents
             /\ \/ n \in Lost'
                \/ pending'[owner'[n]] = n
                \/ camael'[owner'[n]] # "idle" /\ draft'[owner'[n]] = n
  <2>1. CASE owner[n] = i
    <3>1. pending[i] = n => n \in Waiting(i)
      BY <1>1, <1>4 DEF Waiting
    <3>2. n \in Lost' \/ pending[i] = n \/ draft[i] = n
      BY <1>1, <1>2, <1>4, <2>1 DEF WaitInv, Tracked
    <3>3. QED
      BY <1>1, <1>2, <1>3, <1>4, <2>1, <3>1, <3>2 DEF WaitInv, Tracked
  <2>2. CASE owner[n] # i
    BY <1>1, <1>2, <1>4, <2>2 DEF WaitInv, Tracked
  <2>3. QED
    BY <2>1, <2>2
<1>5. OnePRWaits'
  BY <1>1, <1>2 DEF WaitInv, OnePRWaits, Lost
<1>6. QED
  BY <1>4, <1>5 DEF WaitInv, Tracked

(* What the dedup guard on bb:pending_pr gives, whatever the operators, the    *)
(* webhook and Redis do: two pull requests of an incident are open only when   *)
(* the earlier one was dropped for a reason of its own, its entry went for the *)
(* sake of another, or the guard could not read when the later one was made.   *)
THEOREM OnlyOneWaits == Spec => []OnePRWaits
<1>1. Init => WaitInv
  BY DEF Init, WaitInv, Tracked, OnePRWaits
<1>2. TypeOK /\ PRInv /\ WaitInv /\ [Next]_vars => WaitInv'
  <2> SUFFICES ASSUME TypeOK, PRInv, WaitInv, [Next]_vars
               PROVE  WaitInv'
    OBVIOUS
  <2>1. ASSUME NEW i \in Incidents, Camael(i)
        PROVE  WaitInv'
    <3>1. CASE CreatePR(i)
      BY <3>1, CreateWaits
    <3>2. CASE CreateRfc(i)
      <4>1. UNCHANGED <<pr, owner, draft, pending, dropped, swept, unseen>>
        BY <3>2 DEF CreateRfc, bitbucket, history
      <4>2. \A j \in Incidents : camael'[j] = "idle" <=> camael[j] = "idle"
        BY <3>2 DEF CreateRfc, TypeOK, ThreadTypes
      <4>3. QED
        BY <4>1, <4>2 DEF WaitInv, Tracked, OnePRWaits, Lost
    <3>3. CASE SavePending(i) \/ AbandonFix(i)
      BY <3>3, EndFixWaits
    <3>4. QED
      BY <2>1, <3>1, <3>2, <3>3 DEF Camael
  <2>2. ASSUME NEW i \in Incidents, ExpirePending(i)
        PROVE  WaitInv'
    BY <2>2, ForgetWaits DEF ExpirePending, ChatForget
  <2>3. ASSUME NEW h \in Handlers, NEW i \in Incidents, RejectInChat(h, i)
        PROVE  WaitInv'
    BY <2>3, ForgetWaits DEF RejectInChat
  <2>4. ASSUME NEW h \in Handlers, Untrack(h) \/ ClearDeclined(h)
        PROVE  WaitInv'
    BY <2>4, ForgetWaits DEF Untrack, ClearDeclined, ChatForget
  <2>5. ASSUME UNCHANGED <<bitbucket, thread, pending, history>>
        PROVE  WaitInv'
    BY <2>5, WaitKept DEF bitbucket, thread, history, Lost
  <2>6. ASSUME NEW h \in Handlers, MergeRefused(h)
        PROVE  WaitInv'
    <3>1. CASE req[h].via = "command"
      BY <2>6, <3>1, ForgetWaits DEF MergeRefused, ChatForget
    <3>2. CASE req[h].via # "command"
      BY <2>5, <2>6, <3>2 DEF MergeRefused, history
    <3>3. QED
      BY <3>1, <3>2
  <2>7. ASSUME NEW h \in Handlers, Merge(h) \/ Decline(h)
        PROVE  WaitInv'
    <3>1. UNCHANGED <<owner, camael, draft, pending, history>>
      BY <2>7 DEF Merge, Decline, keys, thread
    <3>2. \A n \in PRs : pr'[n] = "open" => pr[n] = "open"
      BY <2>7 DEF Merge, MergeOpen, Decline, TypeOK, BitbucketTypes
    <3>3. QED
      BY <3>1, <3>2, WaitKept DEF history, Lost
  <2>8. ASSUME NEW m \in PRs, MergeInBitbucket(m) \/ Hook(m)
        PROVE  WaitInv'
    <3>1. UNCHANGED <<owner, camael, draft, pending, history>>
      BY <2>8 DEF MergeInBitbucket, Hook, keys, thread
    <3>2. \A n \in PRs : pr'[n] = "open" => pr[n] = "open"
      BY <2>8 DEF MergeInBitbucket, MergeOpen, Hook, TypeOK, BitbucketTypes
    <3>3. QED
      BY <3>1, <3>2, WaitKept DEF history, Lost
  <2>9. ASSUME NEW h \in Handlers, NEW i \in Incidents,
               Approve(h, i) \/ RejectByCommand(h, i)
        PROVE  UNCHANGED <<bitbucket, thread, pending, history>>
    BY <2>9 DEF Approve, RejectByCommand, keys
  <2>10. ASSUME NEW state, NEW x, Verdict(x, state) \/ UpdateRfc(x, state)
         PROVE  UNCHANGED <<bitbucket, thread, pending, history>>
    BY <2>10 DEF Verdict, UpdateRfc, keys
  <2>11. ASSUME NEW i \in Incidents, ExpireRfcKey(i)
         PROVE  UNCHANGED <<bitbucket, thread, pending, history>>
    BY <2>11 DEF ExpireRfcKey
  <2>12. ASSUME NEW h \in Handlers,
                Advance(h) \/ CancelRfc(h) \/ AbandonRequest(h)
         PROVE  UNCHANGED <<bitbucket, thread, pending, history>>
    BY <2>12 DEF Advance, CancelRfc, AbandonRequest, keys
  <2>13. UNCHANGED vars => UNCHANGED <<bitbucket, thread, pending, history>>
    BY DEF vars, keys
  <2>14. QED
    BY <2>1, <2>2, <2>3, <2>4, <2>5, <2>6, <2>7, <2>8, <2>9, <2>10, <2>11,
       <2>12, <2>13
       DEF Next, Begin, Serving
<1>3. WaitInv => OnePRWaits
  BY DEF WaitInv
<1>4. QED
  BY <1>1, <1>2, <1>3, TypeCorrect, PRInvariant, PTL DEF Spec

-----------------------------------------------------------------------------
(* The RFC moves on after the merge                                          *)

\* Without failures of its creation, what is saved has an RFC, ...
SavedHasRfc ==
  \A i \in Incidents :
    /\ camael[i] = "save" => rfcOf[draft[i]] # None
    /\ pending[i] # None => rfcOf[pending[i]] # None

\* ... so has what an operator decides about, merged before the RFC moves on, ...
RequestsHaveRfc ==
  \A h \in Handlers : req[h].at # "idle" =>
    /\ rfcOf[req[h].pr] # None
    /\ req[h].at \in {"untrack", "advance"} => pr[req[h].pr] = "merged"

\* ... and a webhook tells of a merge.
HooksMerged == \A n \in hooks : pr[n] = "merged"

MergeInv == SavedHasRfc /\ RequestsHaveRfc /\ HooksMerged /\ ImplementedWasMerged

\* What is saved keeps its RFC in every step that saves nothing.
LEMMA SavedKept ==
  ASSUME TypeOK, PRInv, SavedHasRfc, [Next]_vars, UNCHANGED <<camael, draft>>,
         \A i \in Incidents : pending'[i] \in {pending[i], None}
  PROVE  SavedHasRfc'
<1> SUFFICES ASSUME NEW i \in Incidents
             PROVE  /\ camael[i] = "save" => rfcOf'[draft[i]] # None
                    /\ pending'[i] # None => rfcOf'[pending[i]] # None
  BY DEF SavedHasRfc
<1>1. ASSUME camael[i] = "save"
      PROVE  rfcOf'[draft[i]] # None
  BY <1>1, Kept DEF SavedHasRfc, PRInv, Drafts
<1>2. ASSUME pending'[i] # None
      PROVE  rfcOf'[pending[i]] # None
  <2>1. pending[i] \in PRs
    BY <1>2 DEF TypeOK, KeyTypes, PRs, None
  <2>2. QED
    BY <1>2, <2>1, Kept DEF SavedHasRfc
<1>3. QED
  BY <1>1, <1>2

\* So does what a request is about, as long as requests only end.
LEMMA RequestsKept ==
  ASSUME TypeOK, PRInv, RequestsHaveRfc, [Next]_vars,
         \A h \in Handlers : req'[h] = req[h] \/ req'[h].at = "idle"
  PROVE  RequestsHaveRfc'
<1> SUFFICES ASSUME NEW h \in Handlers, req'[h].at # "idle"
             PROVE  /\ rfcOf'[req[h].pr] # None
                    /\ req[h].at \in {"untrack", "advance"} => pr'[req[h].pr] = "merged"
  BY DEF RequestsHaveRfc
<1>1. req'[h] = req[h] /\ req[h].pr \in PRs
  BY DEF TypeOK, RequestTypes, PRs, None
<1>2. QED
  BY <1>1, Kept DEF RequestsHaveRfc

\* A merge that a webhook tells of is not undone.
LEMMA HooksKept ==
  ASSUME TypeOK, PRInv, HooksMerged, [Next]_vars, hooks' \subseteq hooks
  PROVE  HooksMerged'
<1>1. hooks \subseteq PRs
  BY DEF TypeOK, BitbucketTypes
<1>2. QED
  BY <1>1, Kept DEF HooksMerged

\* An RFC that was moved on for a merge keeps the pull request merged for it.
LEMMA ImplementedKept ==
  ASSUME TypeOK, PRInv, ImplementedWasMerged, [Next]_vars,
         \A r \in PRs : rfc'[r] = "Implement" => rfc[r] = "Implement"
  PROVE  ImplementedWasMerged'
<1> SUFFICES ASSUME NEW r \in PRs, rfc'[r] = "Implement"
             PROVE  \E n \in PRs : rfcOf'[n] = r /\ pr'[n] = "merged"
  BY DEF ImplementedWasMerged
<1>1. PICK n \in PRs : rfcOf[n] = r /\ pr[n] = "merged"
  BY DEF ImplementedWasMerged
<1>2. r # None
  BY DEF PRs, None
<1>3. QED
  BY <1>1, <1>2, Kept

\* An RFC moves on while the pull request that carries it is merged.
LEMMA MoveOnImplemented ==
  ASSUME TypeOK, ImplementedWasMerged, NEW n \in PRs, pr[n] = "merged",
         MoveOn(rfcOf[n]), UNCHANGED <<pr, rfcOf>>
  PROVE  ImplementedWasMerged'
<1> SUFFICES ASSUME NEW r \in PRs, rfc'[r] = "Implement"
             PROVE  \E m \in PRs : rfcOf[m] = r /\ pr[m] = "merged"
  BY DEF ImplementedWasMerged
<1>1. CASE rfc[r] = "Implement"
  BY <1>1 DEF ImplementedWasMerged
<1>2. CASE rfc[r] # "Implement"
  <2>1. r = rfcOf[n]
    BY <1>2 DEF MoveOn, TypeOK, ServiceNowTypes
  <2>2. QED
    BY <2>1
<1>3. QED
  BY <1>1, <1>2

(* When creating an RFC never fails, an RFC is moved to Implement only for a  *)
(* merge of a pull request that carries it, whether a request of an operator  *)
(* or the webhook moves it.  With failures the command moves another's RFC.   *)
THEOREM ImplementMeansMerged ==
  ASSUME ~RfcFails
  PROVE  Spec => []ImplementedWasMerged
<1>1. Init => MergeInv
  BY DEF Init, NoRequest, MergeInv, SavedHasRfc, RequestsHaveRfc, HooksMerged,
         ImplementedWasMerged
<1>2. TypeOK /\ PRInv /\ MergeInv /\ [Next]_vars => MergeInv'
  <2> SUFFICES ASSUME TypeOK, PRInv, MergeInv, [Next]_vars
               PROVE  MergeInv'
    OBVIOUS
  <2> USE DEF MergeInv
  <2>1. ASSUME NEW i \in Incidents, CreatePR(i)
        PROVE  MergeInv'
    <3>1. \A j \in Incidents : camael'[j] = "save" => j # i
      BY <2>1 DEF CreatePR, TypeOK, ThreadTypes
    <3>2. SavedHasRfc'
      <4>1. \A j \in Incidents \ {i} : draft'[j] = draft[j] /\ camael'[j] = camael[j]
        BY <2>1 DEF CreatePR, TypeOK, ThreadTypes
      <4>2. UNCHANGED <<rfcOf, pending>>
        BY <2>1 DEF CreatePR, keys
      <4>3. QED
        BY <3>1, <4>1, <4>2 DEF SavedHasRfc
    <3>3. RequestsHaveRfc' /\ HooksMerged' /\ ImplementedWasMerged'
      BY <2>1, RequestsKept, HooksKept, ImplementedKept DEF CreatePR, servicenow
    <3>4. QED
      BY <3>2, <3>3
  <2>2. ASSUME NEW i \in Incidents, CreateRfc(i)
        PROVE  MergeInv'
    <3>1. draft[i] \in PRs /\ draft' = draft /\ pending' = pending
      BY <2>2 DEF CreateRfc, PRInv, Drafts
    <3>2. rfcOf'[draft[i]] # None
      BY <2>2, <3>1 DEF CreateRfc, TypeOK, ThreadTypes, PRs, None
    <3>3. \A j \in Incidents : camael'[j] = "save" => j = i \/ camael[j] = "save"
      BY <2>2 DEF CreateRfc, TypeOK, ThreadTypes
    <3>4. \A j \in Incidents :
            camael[j] = "save" => draft[j] \in PRs /\ rfcOf[draft[j]] # None
      BY DEF SavedHasRfc, PRInv, Drafts
    <3>5. \A j \in Incidents :
            pending[j] # None => pending[j] \in PRs /\ rfcOf[pending[j]] # None
      BY DEF SavedHasRfc, TypeOK, KeyTypes, PRs, None
    <3>6. \A n \in PRs : rfcOf[n] # None => rfcOf'[n] # None
      BY Kept
    <3>7. SavedHasRfc'
      BY <3>1, <3>2, <3>3, <3>4, <3>5, <3>6 DEF SavedHasRfc
    <3>8. RequestsHaveRfc' /\ HooksMerged'
      BY <2>2, RequestsKept, HooksKept DEF CreateRfc, bitbucket
    <3>9. \A r \in PRs : rfc'[r] = "Implement" => rfc[r] = "Implement"
      BY <2>2 DEF CreateRfc, TypeOK, ServiceNowTypes
    <3>10. QED
      BY <3>7, <3>8, <3>9, ImplementedKept
  <2>3. ASSUME NEW i \in Incidents, SavePending(i) \/ AbandonFix(i)
        PROVE  MergeInv'
    <3>1. SavedHasRfc'
      BY <2>3 DEF SavePending, AbandonFix, EndFix, SavedHasRfc, TypeOK,
                  ThreadTypes, KeyTypes, keys
    <3>2. RequestsHaveRfc' /\ HooksMerged' /\ ImplementedWasMerged'
      BY <2>3, RequestsKept, HooksKept, ImplementedKept
         DEF SavePending, AbandonFix, bitbucket, servicenow
    <3>3. QED
      BY <3>1, <3>2
  <2>4. ASSUME NEW i, NEW n, ChatForget(i, n)
        PROVE  \A j \in Incidents : pending'[j] \in {pending[j], None}
    BY <2>4 DEF ChatForget, Forget, TypeOK, KeyTypes
  <2>5. ASSUME NEW i \in Incidents, ExpirePending(i) \/ ExpireRfcKey(i)
        PROVE  MergeInv'
    <3>1. UNCHANGED <<bitbucket, servicenow, thread, req>>
      BY <2>5 DEF ExpirePending, ExpireRfcKey
    <3>2. \A j \in Incidents : pending'[j] \in {pending[j], None}
      BY <2>4, <2>5 DEF ExpirePending, ExpireRfcKey, ChatForget
    <3>3. QED
      BY <3>1, <3>2, SavedKept, RequestsKept, HooksKept, ImplementedKept
         DEF bitbucket, servicenow, thread
  <2>6. ASSUME NEW h \in Handlers, NEW i \in Incidents, Begin(h, i)
        PROVE  MergeInv'
    <3>1. UNCHANGED <<bitbucket, servicenow, thread>> /\ pending[i] # None
      BY <2>6 DEF Begin, Approve, RejectInChat, RejectByCommand
    <3>2. \A j \in Incidents : pending'[j] \in {pending[j], None}
      BY <2>4, <2>6 DEF Begin, Approve, RejectInChat, RejectByCommand, keys
    <3>3. /\ \A g \in Handlers \ {h} : req'[g] = req[g]
          /\ \/ req'[h].at = "idle"
             \/ req'[h].pr = pending[i] /\ req'[h].at \in {"merge", "cancel", "decline"}
      BY <2>6 DEF Begin, Approve, RejectInChat, RejectByCommand, NoRequest,
                  TypeOK, RequestTypes
    <3>4. RequestsHaveRfc'
      BY <3>1, <3>3 DEF RequestsHaveRfc, SavedHasRfc, bitbucket, thread
    <3>5. SavedHasRfc' /\ HooksMerged' /\ ImplementedWasMerged'
      BY <3>1, <3>2, SavedKept, HooksKept, ImplementedKept
         DEF bitbucket, servicenow, thread
    <3>6. QED
      BY <3>4, <3>5
  <2>7. ASSUME NEW h \in Handlers, Answer(h)
        PROVE  \A g \in Handlers : req'[g] = req[g] \/ req'[g].at = "idle"
    BY <2>7 DEF Answer, NoRequest, TypeOK, RequestTypes
  <2>8. ASSUME NEW h \in Handlers, NEW label, Serve(h, label)
        PROVE  /\ req'[h].at = label /\ req'[h].pr = req[h].pr
               /\ \A g \in Handlers \ {h} : req'[g] = req[g]
    BY <2>8 DEF Serve, TypeOK, RequestTypes
  <2>9. ASSUME NEW h \in Handlers, Merge(h)
        PROVE  MergeInv'
    <3>1. /\ req[h].pr \in PRs /\ rfcOf[req[h].pr] # None
          /\ pr'[req[h].pr] = "merged"
          /\ hooks' = hooks \cup {req[h].pr}
      BY <2>9 DEF Merge, MergeOpen, RequestsHaveRfc, TypeOK, RequestTypes,
                  BitbucketTypes, PRs, None
    <3>2. UNCHANGED <<servicenow, keys, thread>>
      BY <2>9 DEF Merge
    <3>3. RequestsHaveRfc'
      <4>1. \A g \in Handlers : req[g].at # "idle" => req[g].pr \in PRs
        BY DEF TypeOK, RequestTypes, PRs, None
      <4>2. \A n \in PRs : pr[n] = "merged" => pr'[n] = "merged"
        BY Kept
      <4>3. Serve(h, "untrack")
        BY <2>9 DEF Merge
      <4>4. QED
        BY <2>8, <3>1, <3>2, <4>1, <4>2, <4>3 DEF RequestsHaveRfc, thread
    <3>4. HooksMerged'
      <4>1. hooks \subseteq PRs
        BY DEF TypeOK, BitbucketTypes
      <4>2. QED
        BY <3>1, <4>1, Kept DEF HooksMerged
    <3>5. SavedHasRfc' /\ ImplementedWasMerged'
      BY <3>2, SavedKept, ImplementedKept DEF servicenow, keys, thread
    <3>6. QED
      BY <3>3, <3>4, <3>5
  <2>10. ASSUME NEW h \in Handlers,
                MergeRefused(h) \/ ClearDeclined(h) \/ AbandonRequest(h)
         PROVE  MergeInv'
    <3>1. UNCHANGED <<bitbucket, servicenow, thread>> /\ Answer(h)
      BY <2>10 DEF MergeRefused, ClearDeclined, AbandonRequest
    <3>2. \A j \in Incidents : pending'[j] \in {pending[j], None}
      BY <2>4, <2>10 DEF MergeRefused, ClearDeclined, AbandonRequest, ChatForget, keys
    <3>3. QED
      BY <2>7, <3>1, <3>2, SavedKept, RequestsKept, HooksKept, ImplementedKept
         DEF bitbucket, servicenow, thread
  <2>11. ASSUME NEW h \in Handlers, Untrack(h)
         PROVE  MergeInv'
    <3>1. UNCHANGED <<bitbucket, servicenow, thread>>
      BY <2>11 DEF Untrack
    <3>2. \A j \in Incidents : pending'[j] \in {pending[j], None}
      BY <2>4, <2>11 DEF Untrack, ChatForget
    <3>3. RequestsHaveRfc'
      BY <2>8, <2>11, <3>1 DEF Untrack, RequestsHaveRfc, bitbucket, thread
    <3>4. QED
      BY <3>1, <3>2, <3>3, SavedKept, HooksKept, ImplementedKept
         DEF bitbucket, servicenow, thread
  <2>12. ASSUME NEW h \in Handlers, Advance(h)
         PROVE  MergeInv'
    <3>1. UNCHANGED <<bitbucket, keys, thread>> /\ Answer(h)
      BY <2>12 DEF Advance
    <3>2. req[h].pr \in PRs /\ pr[req[h].pr] = "merged" /\ rfcOf[req[h].pr] # None
      BY <2>12 DEF Advance, RequestsHaveRfc, TypeOK, RequestTypes, PRs, None
    <3>3. rfc' = rfc \/ MoveOn(rfcOf[req[h].pr])
      BY <2>12, <3>2 DEF Advance, RfcsFor
    <3>4. ImplementedWasMerged'
      BY <3>1, <3>2, <3>3, MoveOnImplemented, ImplementedKept DEF bitbucket, thread
    <3>5. QED
      BY <2>7, <3>1, <3>4, SavedKept, RequestsKept, HooksKept
         DEF bitbucket, keys, thread
  <2>13. ASSUME NEW h \in Handlers, CancelRfc(h)
         PROVE  MergeInv'
    <3>1. UNCHANGED <<bitbucket, keys, thread>> /\ Answer(h)
      BY <2>13 DEF CancelRfc
    <3>2. \A r \in PRs : rfc'[r] = "Implement" => rfc[r] = "Implement"
      BY <2>13 DEF CancelRfc, TypeOK, ServiceNowTypes
    <3>3. QED
      BY <2>7, <3>1, <3>2, SavedKept, RequestsKept, HooksKept, ImplementedKept
         DEF bitbucket, keys, thread
  <2>14. ASSUME NEW h \in Handlers, Decline(h)
         PROVE  MergeInv'
    <3>1. UNCHANGED <<hooks, servicenow, keys, thread>> /\ Serve(h, "clear")
      BY <2>14 DEF Decline
    <3>2. RequestsHaveRfc'
      <4>1. \A g \in Handlers : req[g].at # "idle" => req[g].pr \in PRs
        BY DEF TypeOK, RequestTypes, PRs, None
      <4>2. \A n \in PRs : pr[n] = "merged" => pr'[n] = "merged"
        BY Kept
      <4>3. req[h].at = "decline"
        BY <2>14 DEF Decline
      <4>4. QED
        BY <2>8, <3>1, <4>1, <4>2, <4>3 DEF RequestsHaveRfc, thread
    <3>3. QED
      BY <3>1, <3>2, SavedKept, HooksKept, ImplementedKept
         DEF servicenow, keys, thread
  <2>15. ASSUME NEW n \in PRs, MergeInBitbucket(n)
         PROVE  MergeInv'
    <3>1. UNCHANGED <<servicenow, keys, thread, req>>
      BY <2>15 DEF MergeInBitbucket
    <3>2. HooksMerged'
      <4>1. hooks \subseteq PRs
        BY DEF TypeOK, BitbucketTypes
      <4>2. pr'[n] = "merged" /\ hooks' = hooks \cup {n}
        BY <2>15 DEF MergeInBitbucket, MergeOpen, TypeOK, BitbucketTypes
      <4>3. QED
        BY <4>1, <4>2, Kept DEF HooksMerged
    <3>3. QED
      BY <3>1, <3>2, SavedKept, RequestsKept, ImplementedKept
         DEF servicenow, keys, thread
  <2>16. ASSUME NEW n \in PRs, Hook(n)
         PROVE  MergeInv'
    <3>1. UNCHANGED <<pr, keys, thread, req>> /\ hooks' \subseteq hooks
      BY <2>16 DEF Hook
    <3>2. rfc' = rfc \/ (pr[n] = "merged" /\ MoveOn(rfcOf[n]))
      BY <2>16 DEF Hook, Waits, HooksMerged
    <3>3. ImplementedWasMerged'
      BY <3>1, <3>2, MoveOnImplemented, ImplementedKept DEF thread
    <3>4. QED
      BY <3>1, <3>3, SavedKept, RequestsKept, HooksKept DEF keys, thread
  <2>17. ASSUME NEW state \in {"Closed", "Review"}, NEW x,
                Verdict(x, state) \/ UpdateRfc(x, state)
         PROVE  MergeInv'
    <3>1. UNCHANGED <<bitbucket, keys, thread, req>>
      BY <2>17 DEF Verdict, UpdateRfc
    <3>2. \A r \in PRs : rfc'[r] = "Implement" => rfc[r] = "Implement"
      BY <2>17 DEF Verdict, UpdateRfc, TypeOK, ServiceNowTypes
    <3>3. QED
      BY <3>1, <3>2, SavedKept, RequestsKept, HooksKept, ImplementedKept
         DEF bitbucket, keys, thread
  <2>18. CASE UNCHANGED vars
    BY <2>18, SavedKept, RequestsKept, HooksKept, ImplementedKept
       DEF vars, bitbucket, servicenow, keys, thread
  <2>19. QED
    BY <2>1, <2>2, <2>3, <2>5, <2>6, <2>9, <2>10, <2>11, <2>12, <2>13, <2>14,
       <2>15, <2>16, <2>17, <2>18
       DEF Next, Camael, Serving
<1>3. MergeInv => ImplementedWasMerged
  BY DEF MergeInv
<1>4. QED
  BY <1>1, <1>2, <1>3, TypeCorrect, PRInvariant, PTL DEF Spec
=============================================================================
