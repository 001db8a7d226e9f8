----------------------- MODULE CampaignApprovalProofs -----------------------
(***************************************************************************)
(* Theorems about CampaignApproval for any number of executions, requests,  *)
(* edits and faults.                                                        *)
(***************************************************************************)
EXTENDS CampaignApproval, TLAPS

(* A row version that a run, a job, an execution or a request refers to was *)
(* read by a request of its own, so versions never outrun the requests.     *)
InUse(k) ==
    \/ runs.status[k] # "none"
    \/ prepare.state \in {"waiting", "running"} /\ prepare.key = k
    \/ request # None /\ request.key = k
    \/ \E e \in Executions : ex[e].pc # "idle" /\ ex[e].key = k

StampBounded ==
    /\ campaign.stamp <= requests
    /\ \A k \in Keys : InUse(k) => k <= campaign.stamp /\ k < requests

AttemptsLeft == prepare.state \in {"waiting", "running"} => prepare.left # 0

VersionsBounded == template <= edits /\ settings <= edits + requests

(* Only the holder of its lease resolves a run.                             *)
ResolverHoldsLease ==
    \A e \in Executions : At(e, "resolving") =>
        runs.status[ex[e].key] = "resolving" /\ runs.lease[ex[e].key] = e

(* What an execution is about to have approved is of its own complete run,  *)
(* and the run's assignments are frozen before the claim.                   *)
ProposalOfFrozenRun ==
    /\ runs.latest \in Keys => runs.status[runs.latest] = "complete"
    /\ \A e \in Executions : At(e, "freezing") \/ At(e, "approving") =>
         /\ ex[e].seen \in Approval /\ ex[e].seen.run = ex[e].key
         /\ runs.status[ex[e].key] = "complete"
         /\ At(e, "approving") => ex[e].key \in frozen

(* A payload under way matches an approval, as the stored one is one.       *)
Matches(p) == \E a \in approvals : a.content = p.content /\ a.settings = p.settings
SendingIsApproved ==
    /\ campaign.approval # None => campaign.approval \in approvals
    /\ chunk.job = "active" => chunk.sending \in Payload /\ Matches(chunk.sending)

TypeInv == TypeOK /\ StampBounded /\ AttemptsLeft /\ VersionsBounded
CohortInv == ResolverHoldsLease /\ ProposalOfFrozenRun /\ ApprovedHasFrozenCohort
DeliveryInv == SendingIsApproved /\ DeliveredIsApproved
Inv == TypeInv /\ CohortInv /\ DeliveryInv

-----------------------------------------------------------------------------
LEMMA InitInv == Init => Inv
<1> SUFFICES ASSUME Init PROVE Inv
  OBVIOUS
<1> USE ApprovalAssumption DEF Init, Idle, NoJob, NoChunk
<1>1. 0 \in Keys /\ 0 \in Versions
  BY DEF Keys, Versions
<1>2. TypeOK
  <2>1. campaign \in [status : Statuses, approval : Approval \union {None}, stamp : Keys]
    BY <1>1 DEF Statuses
  <2>2. /\ runs \in [status : [Keys -> {"none", "resolving", "failed", "complete"}],
                     lease : [Keys -> Executions \union {None, "dead"}], latest : Keys \union {None}]
        /\ prepare \in [state : {"none", "waiting", "running", "done", "failed"}, key : Keys,
                        left : 0 .. Attempts, stalled : BOOLEAN, owner : Executions \union {None}]
        /\ ex \in [Executions -> [pc : Points \union {"idle"}, key : Keys, seen : Approval \union {None}]]
        /\ send \in [state : {"none", "waiting", "planning", "closing", "done", "closed", "failed"}]
        /\ chunk \in [row : {"none", "open", "complete"}, job : {"none", "waiting", "active", "done"},
                      sending : Payload \union {None}]
    BY <1>1
  <2> QED BY <1>1, <2>1, <2>2 DEF TypeOK
<1>3. StampBounded /\ AttemptsLeft /\ VersionsBounded
  BY DEF StampBounded, AttemptsLeft, VersionsBounded, InUse
<1>4. CohortInv
  BY DEF CohortInv, ResolverHoldsLease, ProposalOfFrozenRun, ApprovedHasFrozenCohort, At, Keys
<1>5. DeliveryInv
  BY DEF DeliveryInv, SendingIsApproved, DeliveredIsApproved
<1> QED BY <1>2, <1>3, <1>4, <1>5 DEF Inv, TypeInv

-----------------------------------------------------------------------------
(* Writing the row *)

LEMMA Write_ ==
    ASSUME TypeInv, NEW s \in Statuses, NEW a \in Approval \union {None}, Write(s, a)
    PROVE  /\ campaign' \in [status : Statuses, approval : Approval \union {None}, stamp : Keys]
           /\ campaign'.status = s /\ campaign'.approval = a
           /\ campaign.stamp <= campaign'.stamp /\ campaign'.stamp <= requests
<1>1. /\ campaign.stamp \in Keys /\ requests \in 0 .. MaxRequests /\ campaign.stamp <= requests
      /\ StampInUse => campaign.stamp < requests
  BY DEF TypeInv, TypeOK, StampBounded, StampInUse, InUse
<1>2. campaign' = [status |-> s, approval |-> a,
                   stamp |-> IF StampInUse THEN campaign.stamp + 1 ELSE campaign.stamp]
  BY DEF Write
<1>3. CASE StampInUse
  BY <1>1, <1>2, <1>3, ApprovalAssumption DEF Keys
<1>4. CASE ~StampInUse
  BY <1>1, <1>2, <1>4, ApprovalAssumption DEF Keys
<1> QED BY <1>3, <1>4

(* What an action leaves of the row: as it is, or written.                  *)
Rewritten ==
    /\ campaign' \in [status : Statuses, approval : Approval \union {None}, stamp : Keys]
    /\ campaign.stamp <= campaign'.stamp /\ campaign'.stamp <= requests

LEMMA KeysStay ==
    ASSUME TypeInv, Rewritten, requests' \in Nat, requests <= requests',
           \A k \in Keys : InUse(k)' => InUse(k)
    PROVE  StampBounded'
<1>1. campaign.stamp \in Nat /\ campaign'.stamp \in Nat /\ requests \in Nat
  BY DEF TypeInv, TypeOK, Rewritten, Keys
<1> QED BY <1>1 DEF TypeInv, StampBounded, Rewritten, Keys

(* What leaves runs, executions and histories alone, and grants nothing.    *)
LEMMA NothingGranted ==
    ASSUME CohortInv, DeliveryInv, UNCHANGED <<runs, frozen, ex, approvals, delivered>>,
           campaign'.approval \in {None, campaign.approval},
           chunk'.job = "active" => chunk.job = "active" /\ chunk'.sending = chunk.sending
    PROVE  CohortInv' /\ DeliveryInv'
BY DEF CohortInv, DeliveryInv, ResolverHoldsLease, ProposalOfFrozenRun, ApprovedHasFrozenCohort,
       SendingIsApproved, DeliveredIsApproved, Matches, At

-----------------------------------------------------------------------------
(* The merchant.  Runs and executions are left alone.                       *)

(* Typed jobs and requests after a step that uses no new key.               *)
MerchantTypes ==
    /\ prepare' \in [state : {"none", "waiting", "running", "done", "failed"}, key : Keys,
                     left : 0 .. Attempts, stalled : BOOLEAN, owner : Executions \union {None}]
    /\ AttemptsLeft'
    /\ send' \in [state : {"none", "waiting", "planning", "closing", "done", "closed", "failed"}]
    /\ chunk' \in [row : {"none", "open", "complete"}, job : {"none", "waiting", "active", "done"},
                   sending : Payload \union {None}]
    /\ chunk'.job = "active" => chunk.job = "active" /\ chunk'.sending = chunk.sending
    /\ request' \in Request \union {None}
    /\ store' \in {"connected", "disconnecting", "disconnected"}

LEMMA MerchantInv ==
    ASSUME Inv, Rewritten, MerchantTypes, campaign'.approval \in {None, campaign.approval},
           UNCHANGED <<audience, ex, history>>,
           template' \in Versions, settings' \in Versions, VersionsBounded', StampBounded',
           requests' \in 0 .. MaxRequests, edits' \in 0 .. MaxEdits, faults' \in 0 .. MaxFaults
    PROVE  Inv'
<1>1. TypeOK'
  BY DEF Inv, TypeInv, TypeOK, Rewritten, MerchantTypes, audience, history
<1>2. CohortInv' /\ DeliveryInv'
  BY NothingGranted DEF Inv, MerchantTypes, audience, history
<1> QED BY <1>1, <1>2 DEF Inv, TypeInv, MerchantTypes

LEMMA RewrittenBy ==
    ASSUME TypeInv, \/ UNCHANGED campaign
                    \/ \E s \in Statuses, a \in {None, campaign.approval} : Write(s, a)
    PROVE  Rewritten /\ campaign'.approval \in {None, campaign.approval}
<1>1. CASE UNCHANGED campaign
  BY <1>1, ApprovalAssumption DEF Rewritten, TypeInv, TypeOK, StampBounded, Keys
<1>2. CASE \E s \in Statuses, a \in {None, campaign.approval} : Write(s, a)
  <2>1. PICK s \in Statuses, a \in {None, campaign.approval} : Write(s, a)
    BY <1>2
  <2>2. a \in Approval \union {None}
    BY <2>1 DEF TypeInv, TypeOK
  <2> QED BY <2>1, <2>2, Write_ DEF Rewritten
<1> QED BY <1>1, <1>2

LEMMA AskInv == ASSUME Inv, NEW op \in Ops, Ask(op) PROVE Inv'
<1>1. Rewritten /\ campaign'.approval \in {None, campaign.approval}
  BY RewrittenBy DEF Ask, Inv
<1>2. /\ requests \in Nat /\ requests' = requests + 1 /\ requests' \in 0 .. MaxRequests
      /\ campaign.stamp \in Keys /\ campaign.stamp \in Nat /\ campaign.stamp < requests'
  BY ApprovalAssumption DEF Ask, Inv, TypeInv, TypeOK, StampBounded, Keys
<1>3. request' \in Request
  <2>1. (campaign.approval # None /\ (op = "sendNow" => frozen # {})) \in BOOLEAN
    OBVIOUS
  <2> QED BY <1>2, <2>1 DEF Ask, Request
<1>4. request'.key = campaign.stamp
  BY DEF Ask
<1>5. StampBounded'
  <2>1. \A k \in Keys : InUse(k)' => InUse(k) \/ k = campaign.stamp
    BY <1>4 DEF Ask, InUse, audience, jobs
  <2>2. UNCHANGED campaign
    BY DEF Ask
  <2> QED BY <1>2, <2>1, <2>2 DEF Inv, TypeInv, StampBounded, Keys
<1>6. MerchantTypes
  BY <1>3 DEF MerchantTypes, AttemptsLeft, Ask, Inv, TypeInv, TypeOK, jobs
<1>7. /\ VersionsBounded' /\ template' \in Versions /\ settings' \in Versions
      /\ edits' \in 0 .. MaxEdits /\ faults' \in 0 .. MaxFaults /\ UNCHANGED <<audience, ex, history>>
  BY <1>2 DEF Ask, Inv, TypeInv, TypeOK, VersionsBounded, Versions
<1> QED BY <1>1, <1>2, <1>5, <1>6, <1>7, MerchantInv

LEMMA EditInv == ASSUME Inv, update \/ schedule \/ EditTemplate \/ EditSegment PROVE Inv'
<1>0. /\ campaign.status \in Statuses /\ "scheduled" \in Statuses
      /\ template \in Nat /\ settings \in Nat /\ edits \in 0 .. MaxEdits /\ requests \in 0 .. MaxRequests
      /\ edits < MaxEdits /\ edits' = edits + 1 /\ UNCHANGED <<store, audience, jobs, ex, history, requests, faults>>
  BY DEF Inv, TypeInv, TypeOK, Statuses, Versions, update, schedule, EditTemplate, EditSegment
<1>1. Rewritten /\ campaign'.approval \in {None, campaign.approval}
  BY <1>0, RewrittenBy DEF update, schedule, EditTemplate, EditSegment, Inv
<1>2. \/ template' = template /\ settings' = settings + 1
      \/ template' = template + 1 /\ settings' = settings
  BY DEF update, schedule, EditTemplate, EditSegment
<1>3. /\ VersionsBounded' /\ template' \in Versions /\ settings' \in Versions
      /\ edits' \in 0 .. MaxEdits /\ requests' \in 0 .. MaxRequests /\ faults' \in 0 .. MaxFaults
  BY <1>0, <1>2, ApprovalAssumption DEF Inv, TypeInv, TypeOK, VersionsBounded, Versions
<1>4. request' \in {request, None}
  BY DEF update, schedule, EditTemplate, EditSegment, Respond
<1>5. StampBounded'
  <2>1. \A k \in Keys : InUse(k)' => InUse(k)
    BY <1>0, <1>4 DEF InUse, audience, jobs
  <2> QED BY <1>0, <1>1, <2>1, KeysStay DEF Inv
<1>6. MerchantTypes
  BY <1>0, <1>4 DEF MerchantTypes, AttemptsLeft, Inv, TypeInv, TypeOK, jobs
<1> QED BY <1>0, <1>1, <1>3, <1>5, <1>6, MerchantInv

LEMMA JobTyped ==
    ASSUME NEW k \in Keys
    PROVE  /\ JobOf(k) \in [state : {"none", "waiting", "running", "done", "failed"}, key : Keys,
                     left : 0 .. Attempts, stalled : BOOLEAN, owner : Executions \union {None}]
           /\ JobOf(k).key = k /\ JobOf(k).left # 0
<1>1. NoJob \in [state : {"none", "waiting", "running", "done", "failed"}, key : Keys,
                 left : 0 .. Attempts, stalled : BOOLEAN, owner : Executions \union {None}]
  BY ApprovalAssumption DEF NoJob, Keys
<1>2. Attempts \in 0 .. Attempts /\ Attempts # 0
  BY ApprovalAssumption
<1>3. JobOf(k).key = k /\ JobOf(k).left = Attempts
  BY DEF JobOf, NoJob
<1>4. JobOf(k) \in [state : {"none", "waiting", "running", "done", "failed"}, key : Keys,
                    left : 0 .. Attempts, stalled : BOOLEAN, owner : Executions \union {None}]
  BY <1>1, <1>2 DEF JobOf
<1> QED BY <1>2, <1>3, <1>4

LEMMA RequestInv ==
    ASSUME Inv,
           \/ cancel \/ override \/ deliverNow \/ RemoveQueuedJobs \/ reviseScheduled
           \/ MarkSending \/ AddSendJob \/ AddPreparation \/ DispatchFails
    PROVE  Inv'
<1> USE DEF cancel, override, deliverNow, RemoveQueuedJobs, reviseScheduled, MarkSending, AddSendJob,
            AddPreparation, DispatchFails
<1>0. /\ Statuses = {"draft", "scheduled", "sending", "cancelled", "closed"}
      /\ request # None /\ request \in Request /\ request.key \in Keys
  BY DEF Statuses, Asked, Inv, TypeInv, TypeOK, Request
<1>1. Rewritten /\ campaign'.approval \in {None, campaign.approval}
  <2>1. \/ UNCHANGED campaign
        \/ \E s \in Statuses, a \in {None, campaign.approval} : Write(s, a)
    BY <1>0 DEF ResetToDraft
  <2> QED BY <2>1, RewrittenBy DEF Inv
<1>2. /\ template' = template /\ settings' = settings /\ requests' = requests /\ edits' = edits
      /\ UNCHANGED <<store, audience, ex, history>>
  BY DEF bounds
<1>3. /\ VersionsBounded' /\ template' \in Versions /\ settings' \in Versions
      /\ edits' \in 0 .. MaxEdits /\ requests' \in 0 .. MaxRequests /\ faults' \in 0 .. MaxFaults
  BY <1>2, ApprovalAssumption DEF Inv, TypeInv, TypeOK, VersionsBounded, bounds
<1>4. \/ request' = None
      \/ \E step \in {"added", "removed"} : request' = [request EXCEPT !.step = step]
  BY DEF Respond, Proceed
<1>5. request' \in Request \union {None} /\ (request' # None => request'.key = request.key)
  BY <1>0, <1>4 DEF Request
<1>6. /\ send' \in {send, [state |-> "waiting"], [send EXCEPT !.state = "none"]}
      /\ chunk' \in {chunk, [chunk EXCEPT !.job = "none"]}
      /\ \/ prepare' \in {prepare, [prepare EXCEPT !.state = "none"]}
         \/ prepare' = JobOf(request.key)
  BY DEF jobs, Unqueued, NoLongerWaiting, enqueueSend
<1>7. /\ JobOf(request.key) \in [state : {"none", "waiting", "running", "done", "failed"}, key : Keys,
                     left : 0 .. Attempts, stalled : BOOLEAN, owner : Executions \union {None}]
      /\ JobOf(request.key).key = request.key /\ JobOf(request.key).left # 0
  BY <1>0, JobTyped
<1>8. MerchantTypes
  BY <1>2, <1>5, <1>6, <1>7 DEF MerchantTypes, AttemptsLeft, Inv, TypeInv, TypeOK
<1>9. StampBounded'
  <2>1. \A k \in Keys : InUse(k)' => InUse(k)
    <3>1. prepare'.state \in {"waiting", "running"} =>
            prepare' = prepare \/ prepare'.key = request.key
      BY <1>6, <1>7 DEF Inv, TypeInv, TypeOK
    <3> QED BY <1>0, <1>2, <1>5, <3>1 DEF InUse, audience
  <2> QED BY <1>1, <1>2, <1>3, <2>1, KeysStay DEF Inv, TypeInv, TypeOK
<1> QED BY <1>1, <1>2, <1>3, <1>8, <1>9, MerchantInv

LEMMA StoreInv == ASSUME Inv, disconnect \/ removeStoreJobs \/ reconnect PROVE Inv'
<1> USE DEF disconnect, removeStoreJobs, reconnect
<1>1. Rewritten /\ campaign'.approval \in {None, campaign.approval}
  BY RewrittenBy DEF Inv, Statuses
<1>2. /\ template' = template /\ edits' = edits /\ faults' = faults
      /\ UNCHANGED <<audience, ex, history, request>>
      /\ \/ requests' = requests + 1 /\ requests < MaxRequests /\ settings' \in {settings, settings + 1}
         \/ requests' = requests /\ settings' = settings
  BY DEF bounds
<1>3. /\ VersionsBounded' /\ template' \in Versions /\ settings' \in Versions
      /\ edits' \in 0 .. MaxEdits /\ requests' \in 0 .. MaxRequests /\ faults' \in 0 .. MaxFaults
      /\ requests' \in Nat /\ requests <= requests'
  BY <1>2, ApprovalAssumption DEF Inv, TypeInv, TypeOK, VersionsBounded, Versions
<1>4. /\ send' \in {send, [send EXCEPT !.state = "none"]}
      /\ chunk' \in {chunk, [chunk EXCEPT !.job = "none"]}
      /\ prepare' \in {prepare, [prepare EXCEPT !.state = "none"]}
      /\ store' \in {"connected", "disconnecting", "disconnected"}
  BY DEF jobs, Removed, NoLongerWaiting
<1>5. MerchantTypes
  BY <1>2, <1>4 DEF MerchantTypes, AttemptsLeft, Inv, TypeInv, TypeOK
<1>6. StampBounded'
  <2>1. \A k \in Keys : InUse(k)' => InUse(k)
    BY <1>2, <1>4 DEF InUse, audience, Inv, TypeInv, TypeOK
  <2> QED BY <1>1, <1>3, <2>1, KeysStay DEF Inv
<1> QED BY <1>1, <1>2, <1>3, <1>5, <1>6, MerchantInv

-----------------------------------------------------------------------------
(* Planner and deliveries.  Runs, executions, the preparation job and the   *)
(* request are left alone, and no approval is granted.                      *)

LEMMA DispatchFrame ==
    ASSUME Inv, Rewritten, campaign'.approval \in {None, campaign.approval},
           UNCHANGED <<template, settings, store, audience, prepare, ex, request, approvals, requests, edits>>,
           send' \in [state : {"none", "waiting", "planning", "closing", "done", "closed", "failed"}],
           chunk' \in [row : {"none", "open", "complete"}, job : {"none", "waiting", "active", "done"},
                      sending : Payload \union {None}],
           faults' \in 0 .. MaxFaults, delivered' \subseteq Payload,
           chunk'.job = "active" => chunk'.sending \in Payload /\ Matches(chunk'.sending),
           \A p \in delivered' : Matches(p)
    PROVE  Inv'
<1>1. TypeOK'
  BY DEF Inv, TypeInv, TypeOK, Rewritten, audience
<1>2. VersionsBounded'
  BY DEF Inv, TypeInv, VersionsBounded
<1>3. StampBounded'
  <2>1. \A k \in Keys : InUse(k)' => InUse(k)
    BY DEF InUse, audience
  <2>2. requests' \in Nat /\ requests <= requests'
    BY DEF Inv, TypeInv, TypeOK
  <2> QED BY <2>1, <2>2, KeysStay DEF Inv
<1>4. CohortInv'
  BY DEF Inv, CohortInv, ResolverHoldsLease, ProposalOfFrozenRun, ApprovedHasFrozenCohort, At, audience
<1>5. DeliveryInv'
  BY DEF Inv, DeliveryInv, SendingIsApproved, DeliveredIsApproved, Matches
<1>6. AttemptsLeft'
  BY DEF Inv, TypeInv, AttemptsLeft
<1> QED BY <1>1, <1>2, <1>3, <1>4, <1>5, <1>6 DEF Inv, TypeInv

LEMMA DispatchInv == ASSUME Inv, Dispatch \/ DiscountFails PROVE Inv'
<1>0. /\ Statuses = {"draft", "scheduled", "sending", "cancelled", "closed"} /\ campaign.status \in Statuses
      /\ faults \in 0 .. MaxFaults /\ delivered \subseteq Payload
      /\ send \in [state : {"none", "waiting", "planning", "closing", "done", "closed", "failed"}]
      /\ chunk \in [row : {"none", "open", "complete"}, job : {"none", "waiting", "active", "done"},
                    sending : Payload \union {None}]
      /\ chunk.job = "active" => chunk.sending \in Payload /\ Matches(chunk.sending)
      /\ \A p \in delivered : Matches(p)
  BY DEF Statuses, Inv, TypeInv, TypeOK, DeliveryInv, SendingIsApproved, DeliveredIsApproved, Matches
<1>a. ASSUME \/ UNCHANGED campaign
             \/ \E s \in Statuses, a \in {None, campaign.approval} : Write(s, a)
      PROVE  Rewritten /\ campaign'.approval \in {None, campaign.approval}
  BY <1>a, RewrittenBy DEF Inv
<1>1. ASSUME Plan PROVE Inv'
  <2>1. Rewritten /\ campaign'.approval \in {None, campaign.approval}
    BY <1>0, <1>1, <1>a DEF Plan, ResetToDraft
  <2>2. send' \in [state : {"none", "waiting", "planning", "closing", "done", "closed", "failed"}]
    BY <1>0, <1>1 DEF Plan
  <2> QED BY <1>0, <1>1, <2>1, <2>2, DispatchFrame DEF Plan, history, bounds
<1>2. ASSUME DiscountFails PROVE Inv'
  <2>1. Rewritten /\ campaign'.approval \in {None, campaign.approval}
    BY <1>0, <1>2, <1>a DEF DiscountFails
  <2>2. faults' \in 0 .. MaxFaults
    BY <1>0, <1>2, ApprovalAssumption DEF DiscountFails
  <2> QED BY <1>0, <1>2, <2>1, <2>2, DispatchFrame DEF DiscountFails, history
<1>3. ASSUME QueueChunk PROVE Inv'
  <2>1. Rewritten /\ campaign'.approval \in {None, campaign.approval}
    BY <1>3, <1>a DEF QueueChunk
  <2>2. chunk' \in {chunk, [row |-> "open", job |-> "waiting", sending |-> None]}
    BY <1>3 DEF QueueChunk
  <2>3. /\ chunk' \in [row : {"none", "open", "complete"}, job : {"none", "waiting", "active", "done"},
                       sending : Payload \union {None}]
        /\ chunk'.job = "active" => chunk'.sending \in Payload /\ Matches(chunk'.sending)
    BY <1>0, <2>2
  <2> QED BY <1>0, <1>3, <2>1, <2>3, DispatchFrame DEF QueueChunk, history, bounds
<1>4. ASSUME ClosePlan \/ finalizeCampaign PROVE Inv'
  <2>1. Rewritten /\ campaign'.approval \in {None, campaign.approval}
    BY <1>0, <1>4, <1>a DEF ClosePlan, finalizeCampaign
  <2> QED BY <1>0, <1>4, <2>1, DispatchFrame DEF ClosePlan, finalizeCampaign, history, bounds
<1>5. ASSUME CheckDelivery PROVE Inv'
  <2>1. Rewritten /\ campaign'.approval \in {None, campaign.approval}
    BY <1>0, <1>5, <1>a DEF CheckDelivery, ResetToDraft
  <2>2. CASE store = "connected" /\ ~Stale
    <3> DEFINE p == [content |-> campaign.approval.content, settings |-> settings]
    <3>1. chunk' = [chunk EXCEPT !.job = "active", !.sending = p]
      BY <1>5, <2>2 DEF CheckDelivery
    <3>2. campaign.approval # None /\ campaign.approval.settings = settings
      BY <2>2 DEF Stale
    <3>3. campaign.approval \in approvals /\ campaign.approval \in Approval
      BY <3>2 DEF Inv, TypeInv, TypeOK, DeliveryInv, SendingIsApproved
    <3>4. p \in Payload /\ Matches(p)
      BY <3>2, <3>3 DEF Approval, Payload, Matches
    <3> HIDE DEF p
    <3>5. /\ chunk' \in [row : {"none", "open", "complete"}, job : {"none", "waiting", "active", "done"},
                         sending : Payload \union {None}]
          /\ chunk'.sending = p
      BY <1>0, <3>1, <3>4
    <3> QED BY <1>0, <1>5, <2>1, <3>4, <3>5, DispatchFrame DEF CheckDelivery, history, bounds
  <2>3. CASE ~(store = "connected" /\ ~Stale)
    <3>1. chunk' = [chunk EXCEPT !.job = "done", !.row = "complete"]
      BY <1>5, <2>3 DEF CheckDelivery
    <3>2. /\ chunk' \in [row : {"none", "open", "complete"}, job : {"none", "waiting", "active", "done"},
                         sending : Payload \union {None}]
          /\ chunk'.job # "active"
      BY <1>0, <3>1
    <3> QED BY <1>0, <1>5, <2>1, <3>2, DispatchFrame DEF CheckDelivery, history, bounds
  <2> QED BY <2>2, <2>3
<1>6. ASSUME Send PROVE Inv'
  <2>1. Rewritten /\ campaign'.approval \in {None, campaign.approval}
    BY <1>6, <1>a DEF Send
  <2>2. chunk.sending \in Payload /\ Matches(chunk.sending)
    BY <1>0, <1>6 DEF Send
  <2> QED BY <1>0, <1>6, <2>1, <2>2, DispatchFrame DEF Send, bounds
<1>7. ASSUME recoverStrandedDeliveries PROVE Inv'
  <2>1. Rewritten /\ campaign'.approval \in {None, campaign.approval}
    BY <1>7, <1>a DEF recoverStrandedDeliveries
  <2>2. /\ chunk' \in [row : {"none", "open", "complete"}, job : {"none", "waiting", "active", "done"},
                       sending : Payload \union {None}]
        /\ chunk'.job # "active"
    BY <1>0, <1>7 DEF recoverStrandedDeliveries
  <2> QED BY <1>0, <1>7, <2>1, <2>2, DispatchFrame DEF recoverStrandedDeliveries, history, bounds
<1> QED BY <1>1, <1>2, <1>3, <1>4, <1>5, <1>6, <1>7 DEF Dispatch

-----------------------------------------------------------------------------
(* Executions of the preparation job.  The row is written by the claim      *)
(* alone, and whatever an execution uses is in use already.                 *)

PrepareType == [state : {"none", "waiting", "running", "done", "failed"}, key : Keys,
                left : 0 .. Attempts, stalled : BOOLEAN, owner : Executions \union {None}]
ExecutionType == [pc : Points \union {"idle"}, key : Keys, seen : Approval \union {None}]
RunsType == [status : [Keys -> {"none", "resolving", "failed", "complete"}],
             lease : [Keys -> Executions \union {None, "dead"}], latest : Keys \union {None}]

(* One execution e moves on, with its key, to v.                            *)
LEMMA PrepareTyped ==
    ASSUME Inv, NEW e \in Executions, NEW v \in ExecutionType,
           ex' = [ex EXCEPT ![e] = v], v.pc # "idle" => InUse(v.key),
           prepare' \in PrepareType, AttemptsLeft', prepare'.state \in {"waiting", "running"} => InUse(prepare'.key),
           runs' \in RunsType, \A k \in Keys : runs'.status[k] # "none" => InUse(k),
           frozen' \subseteq Keys, Rewritten,
           send' \in [state : {"none", "waiting", "planning", "closing", "done", "closed", "failed"}],
           approvals' \subseteq Approval, faults' \in 0 .. MaxFaults,
           UNCHANGED <<template, settings, store, chunk, request, delivered, requests, edits>>
    PROVE  TypeInv'
<1>1. TypeOK'
  <2>1. ex' \in [Executions -> ExecutionType]
    BY DEF Inv, TypeInv, TypeOK, ExecutionType
  <2> QED BY <2>1 DEF Inv, TypeInv, TypeOK, Rewritten, ExecutionType, RunsType, PrepareType
<1>2. VersionsBounded'
  BY DEF Inv, TypeInv, VersionsBounded
<1>3. StampBounded'
  <2>1. \A f \in Executions : ex'[f] = IF f = e THEN v ELSE ex[f]
    BY DEF Inv, TypeInv, TypeOK
  <2>2. \A k \in Keys : InUse(k)' => InUse(k)
    BY <2>1 DEF InUse
  <2>3. requests' \in Nat /\ requests <= requests'
    BY DEF Inv, TypeInv, TypeOK
  <2> QED BY <2>2, <2>3, KeysStay DEF Inv
<1> QED BY <1>1, <1>2, <1>3 DEF TypeInv

(* What e may become, for the runs and frozen assignments as they are then. *)
Sound(e, v) ==
    /\ v.pc = "resolving" => runs'.status[v.key] = "resolving" /\ runs'.lease[v.key] = e
    /\ v.pc \in {"freezing", "approving"} =>
         /\ v.seen \in Approval /\ v.seen.run = v.key
         /\ runs'.status[v.key] = "complete"
         /\ v.pc = "approving" => v.key \in frozen'

(* Runs keep their leases while they are resolved, and stay complete.       *)
RunsKept(e) ==
    /\ \A k \in Keys :
         /\ runs.status[k] = "complete" => runs'.status[k] = "complete"
         /\ \A f \in Executions \ {e} :
              runs.status[k] = "resolving" /\ runs.lease[k] = f =>
                  runs'.status[k] = "resolving" /\ runs'.lease[k] = f
    /\ runs'.latest \in Keys => runs'.latest = runs.latest \/ runs'.status[runs'.latest] = "complete"
    /\ frozen \subseteq frozen'

LEMMA CohortKept ==
    ASSUME Inv, NEW e \in Executions, NEW v \in ExecutionType, ex' = [ex EXCEPT ![e] = v],
           Sound(e, v), RunsKept(e),
           campaign'.approval # None =>
               \/ campaign'.approval = campaign.approval
               \/ runs'.status[campaign'.approval.run] = "complete" /\ campaign'.approval.run \in frozen'
    PROVE  CohortInv'
<1>1. /\ \A f \in Executions : ex'[f] = IF f = e THEN v ELSE ex[f]
      /\ \A f \in Executions : ex[f].key \in Keys
      /\ campaign.approval # None => campaign.approval.run \in Keys
      /\ frozen \subseteq Keys
  BY DEF Inv, TypeInv, TypeOK, Approval
<1>2. ResolverHoldsLease'
  BY <1>1 DEF Inv, CohortInv, ResolverHoldsLease, Sound, RunsKept, At
<1>3. ProposalOfFrozenRun'
  BY <1>1 DEF Inv, CohortInv, ProposalOfFrozenRun, Sound, RunsKept, At
<1>4. ApprovedHasFrozenCohort'
  BY <1>1 DEF Inv, CohortInv, ApprovedHasFrozenCohort, RunsKept
<1> QED BY <1>2, <1>3, <1>4 DEF CohortInv

LEMMA DeliveryKept ==
    ASSUME Inv, UNCHANGED <<chunk, delivered>>, approvals \subseteq approvals',
           campaign'.approval = campaign.approval \/ campaign'.approval \in approvals' \union {None}
    PROVE  DeliveryInv'
BY DEF Inv, DeliveryInv, SendingIsApproved, DeliveredIsApproved, Matches

(* A step of a started execution under its own key, by default with the     *)
(* runs, the row and the histories as they are.                             *)
LEMMA SettleTyped ==
    ASSUME Inv, NEW e \in Executions, Settle(e, "done")
    PROVE  /\ prepare' \in PrepareType /\ AttemptsLeft'
           /\ prepare'.state \in {"waiting", "running"} => InUse(prepare'.key)
<1>1. prepare \in PrepareType /\ AttemptsLeft
  BY DEF Inv, TypeInv, TypeOK, PrepareType
<1>2. prepare' \in {prepare, [prepare EXCEPT !.state = "done", !.owner = None]}
  BY DEF Settle
<1>3. CASE prepare' = prepare
  BY <1>1, <1>3 DEF AttemptsLeft, InUse
<1>4. CASE prepare' = [prepare EXCEPT !.state = "done", !.owner = None]
  <2>1. prepare' \in PrepareType /\ prepare'.state = "done"
    BY <1>1, <1>4 DEF PrepareType
  <2> QED BY <2>1 DEF AttemptsLeft
<1> QED BY <1>2, <1>3, <1>4

LEMMA ExecutionMoves ==
    ASSUME Inv, NEW e \in Executions, ex[e].pc # "idle", NEW v \in ExecutionType,
           v.key = ex[e].key \/ v.pc = "idle", ex' = [ex EXCEPT ![e] = v], v.pc \notin {"resolving", "freezing"},
           v.pc = "approving" => ex[e].pc = "freezing" /\ v.seen = ex[e].seen /\ ex[e].key \in frozen',
           prepare' = prepare \/ Settle(e, "done"),
           frozen' \subseteq frozen \union {ex[e].key}, frozen \subseteq frozen',
           send' \in [state : {"none", "waiting", "planning", "closing", "done", "closed", "failed"}],
           UNCHANGED <<template, settings, store, campaign, runs, chunk, request, history, requests, edits>>,
           faults' \in 0 .. MaxFaults
    PROVE  Inv'
<1>1. ex[e].key \in Keys /\ InUse(ex[e].key)
  BY DEF Inv, TypeInv, TypeOK, InUse
<1>2. /\ prepare' \in PrepareType /\ AttemptsLeft'
      /\ prepare'.state \in {"waiting", "running"} => InUse(prepare'.key)
  <2>1. CASE prepare' = prepare
    BY <2>1 DEF Inv, TypeInv, TypeOK, PrepareType, AttemptsLeft, InUse
  <2>2. CASE Settle(e, "done")
    BY <2>2, SettleTyped
  <2> QED BY <2>1, <2>2
<1>3. /\ runs' \in RunsType /\ \A k \in Keys : runs'.status[k] # "none" => InUse(k)
  BY DEF Inv, TypeInv, TypeOK, RunsType, InUse
<1>4. frozen' \subseteq Keys /\ approvals' \subseteq Approval
  BY <1>1 DEF Inv, TypeInv, TypeOK, history
<1>5. Rewritten
  BY RewrittenBy DEF Inv
<1>6. TypeInv'
  BY <1>1, <1>2, <1>3, <1>4, <1>5, PrepareTyped DEF history
<1>7. Sound(e, v)
  BY DEF Sound, Inv, CohortInv, ProposalOfFrozenRun, At
<1>8. RunsKept(e)
  BY DEF RunsKept
<1>9. CohortInv'
  BY <1>7, <1>8, CohortKept
<1>10. DeliveryInv'
  BY DeliveryKept DEF history
<1> QED BY <1>6, <1>9, <1>10 DEF Inv

LEMMA BeginInv == ASSUME Inv, NEW e \in Executions, Begin(e) PROVE Inv'
<1> DEFINE v == [Idle EXCEPT !.pc = "claiming", !.key = prepare.key]
<1>1. prepare \in PrepareType /\ prepare.state = "waiting" /\ prepare.left # 0
  BY DEF Begin, Inv, TypeInv, TypeOK, AttemptsLeft, PrepareType
<1>2. v \in ExecutionType /\ v.key = prepare.key /\ v.pc = "claiming" /\ InUse(v.key)
  <2>1. Idle \in ExecutionType
    BY ApprovalAssumption DEF Idle, ExecutionType, Keys
  <2>2. prepare.key \in Keys /\ "claiming" \in Points /\ InUse(prepare.key)
    BY <1>1 DEF PrepareType, Points, InUse
  <2> QED BY <2>1, <2>2 DEF ExecutionType
<1>3. ex' = [ex EXCEPT ![e] = v]
  BY DEF Begin
<1> HIDE DEF v
<1>4. prepare' = [prepare EXCEPT !.state = "running", !.owner = e]
  BY DEF Begin
<1>5. prepare' \in PrepareType /\ AttemptsLeft' /\ prepare'.key = prepare.key
  BY <1>1, <1>4 DEF PrepareType, AttemptsLeft
<1>6. /\ runs' \in RunsType /\ \A k \in Keys : runs'.status[k] # "none" => InUse(k)
  BY DEF Inv, TypeInv, TypeOK, RunsType, InUse, Begin, audience
<1>7. Rewritten
  BY RewrittenBy DEF Inv, Begin
<1>8. /\ frozen' \subseteq Keys /\ approvals' \subseteq Approval /\ faults' \in 0 .. MaxFaults
      /\ send' \in [state : {"none", "waiting", "planning", "closing", "done", "closed", "failed"}]
      /\ UNCHANGED <<template, settings, store, runs, frozen, campaign, chunk, request, approvals,
                     delivered, requests, edits>>
  BY DEF Inv, TypeInv, TypeOK, Begin, audience, history, bounds
<1>9. TypeInv'
  BY <1>2, <1>3, <1>5, <1>6, <1>7, <1>8, PrepareTyped
<1>10. CohortInv'
  <2>1. Sound(e, v) /\ RunsKept(e)
    BY <1>2, <1>8 DEF Sound, RunsKept
  <2> QED BY <1>2, <1>3, <1>8, <2>1, CohortKept
<1>11. DeliveryInv'
  BY <1>8, DeliveryKept
<1> QED BY <1>9, <1>10, <1>11 DEF Inv

(* An execution that only moves its program counter.                        *)
LEMMA Moved ==
    ASSUME Inv, NEW e \in Executions, NEW p \in Points, Goto(e, p)
    PROVE  \E v \in ExecutionType :
              ex' = [ex EXCEPT ![e] = v] /\ v.pc = p /\ v.key = ex[e].key /\ v.seen = ex[e].seen
<1>1. ex \in [Executions -> ExecutionType]
  BY DEF Inv, TypeInv, TypeOK, ExecutionType
<1>2. [ex[e] EXCEPT !.pc = p] \in ExecutionType
  BY <1>1 DEF ExecutionType
<1>3. ex' = [ex EXCEPT ![e] = [ex[e] EXCEPT !.pc = p]]
  BY DEF Goto
<1> QED BY <1>1, <1>2, <1>3 DEF ExecutionType

LEMMA IdleTyped == Idle \in ExecutionType /\ Idle.pc = "idle"
BY ApprovalAssumption DEF Idle, ExecutionType, Keys

LEMMA QuietInv ==
    ASSUME Inv, NEW e \in Executions,
           \/ Reuse(e) \/ Busy(e) \/ MaterialiseAssignments(e) \/ Conflict(e) \/ RecordDecisions(e) \/ QueueSend(e)
    PROVE  Inv'
<1>0. /\ {"reading", "approving", "queueing"} \subseteq Points
      /\ frozen \subseteq Keys /\ faults \in 0 .. MaxFaults
      /\ send \in [state : {"none", "waiting", "planning", "closing", "done", "closed", "failed"}]
  BY DEF Inv, TypeInv, TypeOK, Points
<1>1. CASE Reuse(e)
  <2>1. PICK v \in ExecutionType :
           ex' = [ex EXCEPT ![e] = v] /\ v.pc = "reading" /\ v.key = ex[e].key /\ v.seen = ex[e].seen
    BY <1>0, <1>1, Moved DEF Reuse
  <2> QED BY <1>0, <1>1, <2>1, ExecutionMoves DEF Reuse, At, audience, jobs, bounds
<1>2. CASE Busy(e)
  BY <1>0, <1>2, IdleTyped, ExecutionMoves DEF Busy, At, Ended, audience, bounds
<1>3. CASE MaterialiseAssignments(e)
  <2>1. PICK v \in ExecutionType :
           ex' = [ex EXCEPT ![e] = v] /\ v.pc = "approving" /\ v.key = ex[e].key /\ v.seen = ex[e].seen
    BY <1>0, <1>3, Moved DEF MaterialiseAssignments
  <2> QED BY <1>0, <1>3, <2>1, ExecutionMoves DEF MaterialiseAssignments, At, jobs, bounds
<1>4. CASE Conflict(e)
  <2>1. CASE Goto(e, "queueing") /\ UNCHANGED prepare
    <3>1. PICK v \in ExecutionType :
             ex' = [ex EXCEPT ![e] = v] /\ v.pc = "queueing" /\ v.key = ex[e].key /\ v.seen = ex[e].seen
      BY <1>0, <2>1, Moved
    <3> QED BY <1>0, <1>4, <2>1, <3>1, ExecutionMoves DEF Conflict, At, audience, bounds
  <2>2. CASE Settle(e, "done") /\ Ended(e)
    BY <1>0, <1>4, <2>2, IdleTyped, ExecutionMoves DEF Conflict, At, Ended, audience, bounds
  <2> QED BY <1>4, <2>1, <2>2 DEF Conflict
<1>5. CASE RecordDecisions(e)
  <2>1. PICK v \in ExecutionType :
           ex' = [ex EXCEPT ![e] = v] /\ v.pc = "queueing" /\ v.key = ex[e].key /\ v.seen = ex[e].seen
    BY <1>0, <1>5, Moved DEF RecordDecisions
  <2> QED BY <1>0, <1>5, <2>1, ExecutionMoves DEF RecordDecisions, At, audience, jobs, bounds
<1>6. CASE QueueSend(e)
  <2>1. send' \in [state : {"none", "waiting", "planning", "closing", "done", "closed", "failed"}]
    BY <1>0, <1>6 DEF QueueSend, enqueueSend
  <2> QED BY <1>0, <1>6, <2>1, IdleTyped, ExecutionMoves DEF QueueSend, At, Ended, audience, bounds
<1> QED BY <1>1, <1>2, <1>3, <1>4, <1>5, <1>6

(* The facts every step of e starts from.                                   *)
LEMMA Started ==
    ASSUME Inv, NEW e \in Executions
    PROVE  /\ ex[e] \in ExecutionType /\ ex[e].key \in Keys /\ (ex[e].pc # "idle" => InUse(ex[e].key))
           /\ runs \in RunsType /\ (\A k \in Keys : runs.status[k] # "none" => InUse(k))
           /\ prepare \in PrepareType /\ AttemptsLeft
           /\ (prepare.state \in {"waiting", "running"} => InUse(prepare.key))
           /\ frozen \subseteq Keys /\ approvals \subseteq Approval /\ faults \in 0 .. MaxFaults
           /\ send \in [state : {"none", "waiting", "planning", "closing", "done", "closed", "failed"}]
           /\ (UNCHANGED campaign => Rewritten)
<1>1. UNCHANGED campaign => Rewritten
  BY RewrittenBy DEF Inv
<1>2. /\ ex[e] \in ExecutionType /\ ex[e].key \in Keys
      /\ runs \in RunsType /\ prepare \in PrepareType /\ AttemptsLeft
  BY DEF Inv, TypeInv, TypeOK, ExecutionType, RunsType, PrepareType
<1>3. /\ ex[e].pc # "idle" => InUse(ex[e].key)
      /\ \A k \in Keys : runs.status[k] # "none" => InUse(k)
      /\ prepare.state \in {"waiting", "running"} => InUse(prepare.key)
  BY DEF InUse
<1> QED BY <1>1, <1>2, <1>3 DEF Inv, TypeInv, TypeOK

LEMMA ClaimRunInv == ASSUME Inv, NEW e \in Executions, ClaimRun(e) PROVE Inv'
<1> DEFINE k == ex[e].key
<1>1. PICK v \in ExecutionType : ex' = [ex EXCEPT ![e] = v] /\ v.pc = "resolving" /\ v.key = k
  BY Moved DEF ClaimRun, Points
<1>2. /\ runs' = [runs EXCEPT !.status[k] = "resolving", !.lease[k] = e]
      /\ ex[e].pc = "claiming" /\ runs.status[k] # "complete" /\ runs.lease[k] = None
      /\ UNCHANGED <<campaign, template, settings, store, frozen, prepare, send, chunk, request, approvals,
                     delivered, requests, edits, faults>>
  BY DEF ClaimRun, At, jobs, history, bounds
<1>3. /\ runs' \in RunsType /\ runs'.latest = runs.latest
      /\ \A j \in Keys : /\ runs'.status[j] = IF j = k THEN "resolving" ELSE runs.status[j]
                         /\ runs'.lease[j] = IF j = k THEN e ELSE runs.lease[j]
  BY <1>2, Started DEF RunsType
<1>4. TypeInv'
  <2>1. /\ InUse(v.key) /\ \A j \in Keys : runs'.status[j] # "none" => InUse(j)
    BY <1>1, <1>2, <1>3, Started
  <2>2. AttemptsLeft'
    BY <1>2, Started DEF AttemptsLeft
  <2> QED BY <1>1, <1>2, <1>3, <2>1, <2>2, Started, PrepareTyped
<1>5. CohortInv'
  <2>1. Sound(e, v)
    BY <1>1, <1>3, Started DEF Sound
  <2>2. RunsKept(e)
    BY <1>2, <1>3, ApprovalAssumption DEF RunsKept
  <2> QED BY <1>1, <1>2, <2>1, <2>2, CohortKept
<1>6. DeliveryInv'
  BY <1>2, DeliveryKept
<1> QED BY <1>4, <1>5, <1>6 DEF Inv

LEMMA ResolveInv == ASSUME Inv, NEW e \in Executions, Resolve(e) PROVE Inv'
<1> DEFINE k == ex[e].key
<1>1. PICK v \in ExecutionType : ex' = [ex EXCEPT ![e] = v] /\ v.pc = "reading" /\ v.key = k
  BY Moved DEF Resolve, Points
<1>2. /\ runs' = [runs EXCEPT !.status[k] = "complete", !.lease[k] = None, !.latest = k]
      /\ ex[e].pc = "resolving" /\ runs.status[k] = "resolving" /\ runs.lease[k] = e
      /\ UNCHANGED <<campaign, template, settings, store, frozen, prepare, send, chunk, request, approvals,
                     delivered, requests, edits, faults>>
  BY DEF Resolve, At, jobs, history, bounds, Inv, CohortInv, ResolverHoldsLease
<1>3. /\ runs' \in RunsType /\ runs'.latest = k
      /\ \A j \in Keys : /\ runs'.status[j] = IF j = k THEN "complete" ELSE runs.status[j]
                         /\ runs'.lease[j] = IF j = k THEN None ELSE runs.lease[j]
  BY <1>2, Started DEF RunsType
<1>4. TypeInv'
  <2>1. /\ InUse(v.key) /\ \A j \in Keys : runs'.status[j] # "none" => InUse(j)
    BY <1>1, <1>2, <1>3, Started
  <2>2. AttemptsLeft'
    BY <1>2, Started DEF AttemptsLeft
  <2> QED BY <1>1, <1>2, <1>3, <2>1, <2>2, Started, PrepareTyped
<1>5. CohortInv'
  <2>1. Sound(e, v)
    BY <1>1 DEF Sound
  <2>2. RunsKept(e)
    BY <1>2, <1>3, Started DEF RunsKept
  <2> QED BY <1>1, <1>2, <2>1, <2>2, CohortKept
<1>6. DeliveryInv'
  BY <1>2, DeliveryKept
<1> QED BY <1>4, <1>5, <1>6 DEF Inv

LEMMA ReadCampaignInv == ASSUME Inv, NEW e \in Executions, ReadCampaign(e) PROVE Inv'
<1> DEFINE k == ex[e].key
           s == [content |-> template, settings |-> settings, run |-> k]
           v == [ex[e] EXCEPT !.pc = "freezing", !.seen = s]
<1>1. /\ ex[e].pc = "reading" /\ runs.latest = k
      /\ UNCHANGED <<campaign, template, settings, store, runs, frozen, prepare, send, chunk, request, approvals,
                     delivered, requests, edits, faults>>
  BY DEF ReadCampaign, At, audience, jobs, history, bounds
<1>2. ex' = [ex EXCEPT ![e] = v]
  BY DEF ReadCampaign
<1>3. s \in Approval /\ s.run = k
  BY Started DEF Inv, TypeInv, TypeOK, Approval
<1>4. v \in ExecutionType /\ v.pc = "freezing" /\ v.key = k /\ v.seen \in Approval /\ v.seen.run = k
  <2> HIDE DEF s
  <2>1. ex[e] \in ExecutionType /\ "freezing" \in Points
    BY Started DEF Points
  <2> QED BY <1>3, <2>1 DEF ExecutionType
<1> HIDE DEF v
<1>5. runs.status[k] = "complete"
  BY <1>1, Started DEF Inv, CohortInv, ProposalOfFrozenRun
<1>6. TypeInv'
  <2>1. AttemptsLeft'
    BY <1>1, Started DEF AttemptsLeft
  <2> QED BY <1>1, <1>2, <1>4, <2>1, Started, PrepareTyped
<1>7. CohortInv'
  <2>1. Sound(e, v)
    BY <1>1, <1>4, <1>5 DEF Sound
  <2>2. RunsKept(e)
    BY <1>1 DEF RunsKept
  <2> QED BY <1>1, <1>2, <1>4, <2>1, <2>2, CohortKept
<1>8. DeliveryInv'
  BY <1>1, DeliveryKept
<1> QED BY <1>6, <1>7, <1>8 DEF Inv

LEMMA ClaimApprovalInv == ASSUME Inv, NEW e \in Executions, ClaimApproval(e) PROVE Inv'
<1> DEFINE k == ex[e].key
<1>1. /\ ex[e].pc = "approving"
      /\ UNCHANGED <<template, settings, store, runs, frozen, prepare, send, chunk, request,
                     delivered, requests, edits, faults>>
  BY DEF ClaimApproval, At, audience, jobs, bounds
<1>2. /\ ex[e].seen \in Approval /\ ex[e].seen.run = k
      /\ runs.status[k] = "complete" /\ k \in frozen
  BY <1>1 DEF Inv, CohortInv, ProposalOfFrozenRun, At
<1>3. PICK v \in ExecutionType :
        ex' = [ex EXCEPT ![e] = v] /\ v.pc \in {"recording", "conflict"} /\ v.key = k
  BY Moved DEF ClaimApproval, Points
<1>4. /\ Rewritten /\ approvals' \subseteq Approval /\ approvals \subseteq approvals'
      /\ \/ campaign'.approval = campaign.approval
         \/ campaign'.approval = ex[e].seen /\ ex[e].seen \in approvals'
  <2>1. CASE campaignApprovalClaimWhere
    <3>1. Write("sending", ex[e].seen) /\ approvals' = approvals \union {ex[e].seen}
      BY <2>1 DEF ClaimApproval
    <3>2. Rewritten /\ campaign'.approval = ex[e].seen
      BY <1>2, <3>1, Write_ DEF Inv, Statuses, Rewritten
    <3> QED BY <1>2, <3>1, <3>2, Started
  <2>2. CASE ~campaignApprovalClaimWhere
    BY <2>2, Started DEF ClaimApproval
  <2> QED BY <2>1, <2>2
<1>5. TypeInv'
  <2>1. AttemptsLeft'
    BY <1>1, Started DEF AttemptsLeft
  <2> QED BY <1>1, <1>3, <1>4, <2>1, Started, PrepareTyped
<1>6. CohortInv'
  <2>1. Sound(e, v) /\ RunsKept(e)
    BY <1>1, <1>3 DEF Sound, RunsKept
  <2> QED BY <1>1, <1>2, <1>3, <1>4, <2>1, CohortKept
<1>7. DeliveryInv'
  BY <1>1, <1>4, DeliveryKept
<1> QED BY <1>5, <1>6, <1>7 DEF Inv

(* The execution ends, by a throw or with its worker: only a run of its own *)
(* may change, from being resolved.                                         *)
LEMMA EndsInv == ASSUME Inv, NEW e \in Executions, Throw(e) \/ Die(e) PROVE Inv'
<1> DEFINE k == ex[e].key
<1>1. /\ ex' = [ex EXCEPT ![e] = Idle] /\ ex[e].pc # "idle" /\ k \in Keys
      /\ UNCHANGED <<campaign, template, settings, store, frozen, send, chunk, request, approvals,
                     delivered, requests, edits>>
  BY Started DEF Throw, Die, Ended, At, jobs, history
<1>2. faults' \in 0 .. MaxFaults
  BY Started, ApprovalAssumption DEF Throw, Die
<1>3. prepare' \in PrepareType /\ AttemptsLeft' /\ (prepare'.state \in {"waiting", "running"} => InUse(prepare'.key))
  <2>1. CASE prepare' = prepare
    BY <2>1, Started DEF AttemptsLeft
  <2>2. CASE prepare' # prepare
    <3> DEFINE s == IF prepare.left > 1 THEN "waiting" ELSE "failed"
    <3>1. prepare.state = "running" /\ prepare' = [prepare EXCEPT !.state = s, !.left = prepare.left - 1, !.owner = None]
      BY <2>2 DEF Throw, Die, jobs
    <3>2. prepare.left \in 1 .. Attempts /\ prepare.left - 1 \in 0 .. Attempts
          /\ s \in {"waiting", "failed"} /\ (s = "waiting" => prepare.left - 1 # 0)
      BY <3>1, Started, ApprovalAssumption DEF PrepareType, AttemptsLeft
    <3> HIDE DEF s
    <3>3. /\ prepare' \in PrepareType /\ prepare'.state = s /\ prepare'.key = prepare.key
          /\ prepare'.left = prepare.left - 1
      BY <3>1, <3>2, Started DEF PrepareType
    <3> QED BY <3>1, <3>2, <3>3, Started DEF AttemptsLeft
  <2> QED BY <2>1, <2>2
<1>4. /\ runs' \in RunsType /\ runs'.latest = runs.latest
      /\ \A j \in Keys : \/ runs'.status[j] = runs.status[j] /\ runs'.lease[j] = runs.lease[j]
                         \/ j = k /\ runs.status[j] = "resolving" /\ runs.lease[j] = e
                            /\ runs'.status[j] \in {"resolving", "failed"}
  <2>1. CASE runs' = runs
    BY <2>1, Started
  <2>2. CASE runs' # runs
    <3>1. /\ ex[e].pc = "resolving"
          /\ \/ runs' = [runs EXCEPT !.status[k] = "failed", !.lease[k] = None]
             \/ runs' = [runs EXCEPT !.lease[k] = "dead"]
      BY <2>2 DEF Throw, Die, At
    <3>2. runs.status[k] = "resolving" /\ runs.lease[k] = e
      BY <3>1 DEF Inv, CohortInv, ResolverHoldsLease, At
    <3>3. CASE runs' = [runs EXCEPT !.status[k] = "failed", !.lease[k] = None]
      <4>1. /\ runs' \in RunsType /\ runs'.latest = runs.latest /\ runs'.status[k] = "failed"
            /\ \A j \in Keys \ {k} : runs'.status[j] = runs.status[j] /\ runs'.lease[j] = runs.lease[j]
        BY <1>1, <3>3, Started DEF RunsType
      <4> QED BY <3>2, <4>1
    <3>4. CASE runs' = [runs EXCEPT !.lease[k] = "dead"]
      <4>1. /\ runs' \in RunsType /\ runs'.latest = runs.latest /\ runs'.status = runs.status
            /\ \A j \in Keys \ {k} : runs'.lease[j] = runs.lease[j]
        BY <1>1, <3>4, Started DEF RunsType
      <4> QED BY <3>2, <4>1
    <3> QED BY <3>1, <3>3, <3>4
  <2> QED BY <2>1, <2>2
<1>5. TypeInv'
  <2>1. \A j \in Keys : runs'.status[j] # "none" => InUse(j)
    BY <1>4, Started
  <2> QED BY <1>1, <1>2, <1>3, <1>4, <2>1, Started, IdleTyped, PrepareTyped
<1>6. CohortInv'
  <2>1. Sound(e, Idle)
    BY IdleTyped DEF Sound
  <2>2. RunsKept(e)
    BY <1>1, <1>4 DEF RunsKept
  <2> QED BY <1>1, <2>1, <2>2, IdleTyped, CohortKept
<1>7. DeliveryInv'
  BY <1>1, DeliveryKept
<1> QED BY <1>5, <1>6, <1>7 DEF Inv

-----------------------------------------------------------------------------
(* The queue and the sweeps: every execution stands still.                  *)

LEMMA QueueInv ==
    ASSUME Inv, NEW k \in Keys,
           Stall \/ ForgetPreparation \/ LeaseExpires(k) \/ recoverStalePreparationRuns(k)
    PROVE  Inv'
<1>1. /\ prepare \in PrepareType /\ AttemptsLeft /\ faults \in 0 .. MaxFaults /\ runs \in RunsType
      /\ UNCHANGED <<campaign, template, settings, store, frozen, send, chunk, ex, request, approvals,
                     delivered, requests, edits>>
  BY DEF Inv, TypeInv, TypeOK, PrepareType, RunsType, Stall, ForgetPreparation, LeaseExpires,
         recoverStalePreparationRuns, audience, jobs, history, bounds
<1>2. faults' \in 0 .. MaxFaults
  BY <1>1, ApprovalAssumption DEF Stall, ForgetPreparation, LeaseExpires, recoverStalePreparationRuns, bounds
<1>3. /\ runs' \in RunsType /\ runs'.status = runs.status /\ runs'.latest = runs.latest
      /\ \A j \in Keys : runs.lease[j] # "dead" => runs'.lease[j] = runs.lease[j]
  <2>1. CASE runs' = runs
    BY <1>1, <2>1
  <2>2. CASE runs.lease[k] = "dead" /\ runs' = [runs EXCEPT !.lease[k] = None]
    BY <1>1, <2>2 DEF RunsType
  <2> QED BY <2>1, <2>2 DEF Stall, ForgetPreparation, LeaseExpires, recoverStalePreparationRuns, audience
<1>4. /\ prepare' \in PrepareType /\ AttemptsLeft'
      /\ prepare'.state \in {"waiting", "running"} => InUse(prepare'.key)
  <2>1. CASE prepare' = prepare
    BY <1>1, <2>1 DEF AttemptsLeft, InUse
  <2>2. CASE Stall
    <3> DEFINE s == IF prepare.stalled THEN "failed" ELSE "waiting"
    <3>1. prepare.state = "running" /\ prepare' = [prepare EXCEPT !.state = s, !.stalled = TRUE, !.owner = None]
      BY <2>2 DEF Stall
    <3>2. s \in {"failed", "waiting"}
      OBVIOUS
    <3> HIDE DEF s
    <3>3. prepare' \in PrepareType /\ prepare'.key = prepare.key /\ prepare'.left = prepare.left
      BY <1>1, <3>1, <3>2 DEF PrepareType
    <3> QED BY <1>1, <3>1, <3>3 DEF AttemptsLeft, InUse
  <2>3. CASE prepare' = NoJob
    <3>1. NoJob \in PrepareType /\ NoJob.state = "none"
      BY ApprovalAssumption DEF NoJob, PrepareType, Keys
    <3> QED BY <2>3, <3>1 DEF AttemptsLeft
  <2>4. CASE recoverStalePreparationRuns(k)
    <3>1. runs.status[k] # "none" /\ prepare' = JobOf(k)
      BY <2>4 DEF recoverStalePreparationRuns
    <3> QED BY <3>1, JobTyped DEF AttemptsLeft, InUse, PrepareType
  <2> QED BY <2>1, <2>2, <2>3, <2>4 DEF ForgetPreparation, LeaseExpires, jobs
<1>5. TypeInv'
  <2>1. TypeOK'
    BY <1>1, <1>2, <1>3, <1>4 DEF Inv, TypeInv, TypeOK, PrepareType, RunsType
  <2>2. \A j \in Keys : InUse(j)' => InUse(j)
    BY <1>1, <1>3, <1>4 DEF InUse
  <2>3. StampBounded'
    <3>1. Rewritten /\ requests' \in Nat /\ requests <= requests'
      BY <1>1, RewrittenBy DEF Inv, TypeInv, TypeOK
    <3> QED BY <2>2, <3>1, KeysStay DEF Inv
  <2> QED BY <1>1, <1>4, <2>1, <2>3 DEF Inv, TypeInv, VersionsBounded
<1>6. CohortInv'
  <2>1. ResolverHoldsLease'
    BY <1>1, <1>3, ApprovalAssumption DEF Inv, TypeInv, TypeOK, CohortInv, ResolverHoldsLease, At
  <2> QED BY <1>1, <1>3, <2>1 DEF Inv, CohortInv, ProposalOfFrozenRun, ApprovedHasFrozenCohort, At
<1>7. DeliveryInv'
  BY <1>1, DeliveryKept
<1> QED BY <1>5, <1>6, <1>7 DEF Inv

-----------------------------------------------------------------------------
LEMMA StepInv == Inv /\ [Next]_vars => Inv'
<1> SUFFICES ASSUME Inv, [Next]_vars PROVE Inv'
  OBVIOUS
<1>1. ASSUME UNCHANGED vars PROVE Inv'
  BY <1>1 DEF vars, audience, jobs, history, bounds, Inv, TypeInv, TypeOK, StampBounded, InUse,
       AttemptsLeft, VersionsBounded, CohortInv, ResolverHoldsLease, ProposalOfFrozenRun,
       ApprovedHasFrozenCohort, DeliveryInv, SendingIsApproved, DeliveredIsApproved, Matches, At
<1>2. ASSUME Answer \/ DispatchFails PROVE Inv'
  BY <1>2, EditInv, RequestInv DEF Answer
<1>3. ASSUME NEW e \in Executions, Begin(e) \/ Prepare(e) \/ Throw(e) \/ Die(e) PROVE Inv'
  BY <1>3, BeginInv, QuietInv, ClaimRunInv, ResolveInv, ReadCampaignInv, ClaimApprovalInv, EndsInv DEF Prepare
<1>4. ASSUME Stall \/ ForgetPreparation PROVE Inv'
  <2>1. 0 \in Keys
    BY ApprovalAssumption DEF Keys
  <2> QED BY <1>4, <2>1, QueueInv
<1>5. ASSUME NEW k \in Keys, LeaseExpires(k) \/ recoverStalePreparationRuns(k) PROVE Inv'
  BY <1>5, QueueInv
<1> QED BY <1>1, <1>2, <1>3, <1>4, <1>5, AskInv, EditInv, StoreInv, DispatchInv DEF Next

(* Row, runs, jobs and requests keep their types, and no row version        *)
(* outruns the requests that read one.                                      *)
THEOREM TypeCorrect == Spec => []TypeOK
<1>1. Inv => TypeOK
  BY DEF Inv, TypeInv
<1> QED BY InitInv, StepInv, <1>1, PTL DEF Spec

(* Whatever is handed to the provider was claimed as an approval with       *)
(* exactly that content and those settings.                                 *)
THEOREM OnlyApprovedIsDelivered == Spec => []DeliveredIsApproved
<1>1. Inv => DeliveredIsApproved
  BY DEF Inv, DeliveryInv
<1> QED BY InitInv, StepInv, <1>1, PTL DEF Spec

(* Control and treatment are drawn before a campaign counts as approved.    *)
THEOREM CohortIsFrozenFirst == Spec => []ApprovedHasFrozenCohort
<1>1. Inv => ApprovedHasFrozenCohort
  BY DEF Inv, CohortInv
<1> QED BY InitInv, StepInv, <1>1, PTL DEF Spec

(* No second execution, click or retried job replaces what was approved.    *)
THEOREM ApprovalStands == Spec => ApprovalNotReplaced
<1> DEFINE Kept == campaign.approval # None /\ campaign'.approval # None
                       => campaign'.approval = campaign.approval
<1>1. ASSUME [Next]_vars PROVE Kept
  <2> USE DEF Write, ResetToDraft
  <2>1. ASSUME UNCHANGED vars PROVE Kept
    BY <2>1 DEF vars
  <2>2. ASSUME NEW op \in Ops, Ask(op) PROVE Kept
    BY <2>2 DEF Ask
  <2>3. ASSUME Answer \/ DispatchFails PROVE Kept
    BY <2>3 DEF Answer, update, schedule, cancel, override, deliverNow, RemoveQueuedJobs, reviseScheduled,
         MarkSending, AddSendJob, AddPreparation, DispatchFails
  <2>4. ASSUME EditTemplate \/ EditSegment \/ disconnect \/ removeStoreJobs \/ reconnect PROVE Kept
    BY <2>4 DEF EditTemplate, EditSegment, disconnect, removeStoreJobs, reconnect
  <2>5. ASSUME NEW e \in Executions, Begin(e) \/ Prepare(e) \/ Throw(e) \/ Die(e) PROVE Kept
    <3>1. CASE ClaimApproval(e)
      BY <3>1 DEF ClaimApproval, campaignApprovalClaimWhere
    <3>2. CASE ~ClaimApproval(e)
      BY <2>5, <3>2 DEF Begin, Prepare, Throw, Die, Reuse, ClaimRun, Busy, Resolve, ReadCampaign,
           MaterialiseAssignments, Conflict, RecordDecisions, QueueSend
    <3> QED BY <3>1, <3>2
  <2>6. ASSUME \/ Stall \/ ForgetPreparation
               \/ \E k \in Keys : LeaseExpires(k) \/ recoverStalePreparationRuns(k)
        PROVE  Kept
    BY <2>6 DEF Stall, ForgetPreparation, LeaseExpires, recoverStalePreparationRuns
  <2>7. ASSUME Dispatch \/ DiscountFails PROVE Kept
    BY <2>7 DEF Dispatch, Plan, QueueChunk, ClosePlan, CheckDelivery, Send, recoverStrandedDeliveries,
         finalizeCampaign, DiscountFails
  <2> QED BY <1>1, <2>1, <2>2, <2>3, <2>4, <2>5, <2>6, <2>7 DEF Next
<1>2. [Next]_vars => [campaign.approval # None /\ campaign.approval' # None
                         => campaign.approval' = campaign.approval]_vars
  BY <1>1
<1> QED BY <1>2, PTL DEF Spec, ApprovalNotReplaced

=============================================================================
