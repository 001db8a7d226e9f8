------------------------- MODULE CampaignApproval -------------------------
(***************************************************************************)
(* Approving one campaign and getting it sent: the merchant's endpoints     *)
(* (routers/campaigns.ts), the durable preparation job (prepare-audience.ts *)
(* and approval-finalize.ts), and the jobs that plan, deliver and close it  *)
(* (send.worker.ts).                                                        *)
(*                                                                         *)
(* Endpoints, preparation executions, planner and deliveries overlap, one   *)
(* action per awaited read or write.  How an audience is resolved is        *)
(* AudienceRun's subject and how a plan is driven DeliveryPlan's: here a    *)
(* run is a status and a lease, the plan one chunk, a delivery two steps.   *)
(***************************************************************************)
EXTENDS Naturals, FiniteSets

CONSTANTS
    Executions,   \* executions of the preparation job
    None,
    Attempts,     \* attempts of the preparation job
    MaxRequests,  \* bound: merchant requests, disconnects among them
    MaxEdits,     \* bound: changes of content or settings
    MaxFaults     \* bound: statements that throw, workers that die or stall

ASSUME ApprovalAssumption ==
    /\ None \notin Executions \union Nat /\ "dead" \notin Executions
    /\ Attempts \in Nat \ {0}
    /\ MaxRequests \in Nat /\ MaxEdits \in Nat /\ MaxFaults \in Nat

VARIABLES
    campaign,     \* the row: status, approval (None or what was approved), stamp (updatedAt)
    template,     \* version of the live e-mail template
    settings,     \* version of what else the checksum covers: segment, name, time
    store,        \* connected, disconnecting (jobs not yet removed) or disconnected
    runs,         \* the audience run of each run key, its lease, the last completed
    frozen,       \* runs whose measurement assignments are materialised
    prepare,      \* the prepare-audience job
    ex,           \* its executions
    send,         \* the campaign-send job and its planner
    chunk,        \* the plan's chunk: row, job, and the payload being sent
    request,      \* the merchant request in flight
    approvals,    \* history: every approval claimed
    delivered,    \* history: every payload handed to the provider
    requests, edits, faults

audience == <<runs, frozen>>
jobs     == <<prepare, send, chunk>>
history  == <<approvals, delivered>>
bounds   == <<requests, edits, faults>>
vars == <<campaign, template, settings, store, audience, jobs, ex, request, history, bounds>>

-----------------------------------------------------------------------------
Statuses == {"draft", "scheduled", "sending", "cancelled", "closed"}
Keys     == 0 .. MaxRequests
Versions == 0 .. MaxEdits + MaxRequests
Payload  == [content : Versions, settings : Versions]
Approval == [content : Versions, settings : Versions, run : Keys]

Ops == {"update", "schedule", "sendNow", "deliverNow", "reviseScheduled", "cancel", "override"}
Request == [op : Ops, step : {"ask", "added", "removed"}, key : Keys, approved : BOOLEAN]

Points == {"claiming", "resolving", "reading", "freezing", "approving", "conflict",
           "recording", "queueing"}
Idle     == [pc |-> "idle", key |-> 0, seen |-> None]
NoJob    == [state |-> "none", key |-> 0, left |-> 0, stalled |-> FALSE, owner |-> None]
JobOf(k) == [NoJob EXCEPT !.state = "waiting", !.key = k, !.left = Attempts]
NoChunk  == [row |-> "none", job |-> "none", sending |-> None]

(* updatedAt moves with every write of the row; a version no run, job or    *)
(* request refers to need not be told from the next one.                    *)
StampInUse ==
    \/ runs.status[campaign.stamp] # "none"
    \/ prepare.state \in {"waiting", "running"} /\ prepare.key = campaign.stamp
    \/ request # None /\ request.key = campaign.stamp
    \/ \E e \in Executions : ex[e].pc # "idle" /\ ex[e].key = campaign.stamp

Write(status, approval) ==
    campaign' = [status |-> status, approval |-> approval,
                 stamp |-> IF StampInUse THEN campaign.stamp + 1 ELSE campaign.stamp]

ResetToDraft == Write("draft", None)
-----------------------------------------------------------------------------
Init ==
    /\ campaign = [status |-> "draft", approval |-> None, stamp |-> 0]
    /\ template = 0 /\ settings = 0 /\ store = "connected"
    /\ runs = [status |-> [k \in Keys |-> "none"], lease |-> [k \in Keys |-> None],
               latest |-> None]
    /\ frozen = {}
    /\ prepare = NoJob
    /\ ex = [e \in Executions |-> Idle]
    /\ send = [state |-> "none"]
    /\ chunk = NoChunk
    /\ request = None
    /\ approvals = {} /\ delivered = {}
    /\ requests = 0 /\ edits = 0 /\ faults = 0

-----------------------------------------------------------------------------
(* The merchant's endpoints.  Each reads the campaign, checks its status    *)
(* and later writes by id; workers run in between.                          *)

Accepts(op) ==
    CASE op \in {"update", "schedule"}             -> {"draft"}
      [] op = "cancel"                             -> {"scheduled"}
      [] op \in {"sendNow", "override"}            -> {"draft", "scheduled"}
      [] op \in {"deliverNow", "reviseScheduled"}  -> {"scheduled", "sending"}

(* sendNow takes the short way when assignments and approval exist;         *)
(* deliverNow needs the approval, reviseScheduled that nothing has gone out. *)
Ask(op) ==
    /\ request = None /\ requests < MaxRequests
    /\ campaign.status \in Accepts(op)
    /\ op = "deliverNow" => campaign.approval # None
    /\ op = "reviseScheduled" => delivered = {}
    /\ op \in {"update", "schedule"} => edits < MaxEdits
    /\ request' = [op |-> op, step |-> "ask", key |-> campaign.stamp,
                   approved |-> campaign.approval # None /\ (op = "sendNow" => frozen # {})]
    /\ requests' = requests + 1
    /\ UNCHANGED <<campaign, template, settings, store, audience, jobs, ex, history, edits, faults>>

Asked(op, step) == request # None /\ request.op = op /\ request.step = step
Respond == request' = None
Proceed(step) == request' = [request EXCEPT !.step = step]

update ==
    /\ Asked("update", "ask") /\ edits < MaxEdits
    /\ settings' = settings + 1 /\ edits' = edits + 1
    /\ Write(campaign.status, campaign.approval)
    /\ Respond
    /\ UNCHANGED <<template, store, audience, jobs, ex, history, requests, faults>>

schedule ==
    /\ Asked("schedule", "ask") /\ edits < MaxEdits
    /\ settings' = settings + 1 /\ edits' = edits + 1
    /\ Write("scheduled", campaign.approval)
    /\ Respond
    /\ UNCHANGED <<template, store, audience, jobs, ex, history, requests, faults>>

cancel ==
    /\ Asked("cancel", "ask")
    /\ Write("cancelled", campaign.approval)
    /\ Respond
    /\ UNCHANGED <<template, settings, store, audience, jobs, ex, history, bounds>>

(* setAudienceReasonOverride: a changed audience policy ends the approval.  *)
override ==
    /\ Asked("override", "ask")
    /\ ResetToDraft
    /\ Respond
    /\ UNCHANGED <<template, settings, store, audience, jobs, ex, history, bounds>>

(* Queued deliveries are promoted; none waiting is an error.                *)
deliverNow ==
    /\ Asked("deliverNow", "ask")
    /\ IF chunk.job = "waiting" THEN Write("sending", campaign.approval)
                                ELSE UNCHANGED campaign
    /\ Respond
    /\ UNCHANGED <<template, settings, store, audience, jobs, ex, history, bounds>>

Unqueued(job) == IF job.state = "waiting" THEN [job EXCEPT !.state = "none"] ELSE job
NoLongerWaiting(c) == IF c.job = "waiting" THEN [c EXCEPT !.job = "none"] ELSE c

RemoveQueuedJobs ==
    /\ Asked("reviseScheduled", "ask")
    /\ prepare' = Unqueued(prepare) /\ send' = Unqueued(send) /\ chunk' = NoLongerWaiting(chunk)
    /\ Proceed("removed")
    /\ UNCHANGED <<campaign, template, settings, store, audience, ex, history, bounds>>

(* The revision itself is another campaign.                                 *)
reviseScheduled ==
    /\ Asked("reviseScheduled", "removed")
    /\ Write("cancelled", campaign.approval)
    /\ Respond
    /\ UNCHANGED <<template, settings, store, audience, jobs, ex, history, bounds>>

(* sendNow of an approved campaign: status first, then the job, whose id is *)
(* fixed, so an id the queue still holds makes the add a no-op.             *)
MarkSending ==
    /\ Asked("sendNow", "ask") /\ request.approved
    /\ Write("sending", campaign.approval)
    /\ Proceed("added")
    /\ UNCHANGED <<template, settings, store, audience, jobs, ex, history, bounds>>

enqueueSend == send' = IF send.state = "none" THEN [state |-> "waiting"] ELSE send

AddSendJob ==
    /\ Asked("sendNow", "added")
    /\ enqueueSend /\ Respond
    /\ UNCHANGED <<campaign, template, settings, store, audience, prepare, chunk, ex, history, bounds>>

(* sendNow of any other campaign: a run already complete for this state     *)
(* ends it, otherwise the preparation job is added or joined.               *)
AddPreparation ==
    /\ Asked("sendNow", "ask") /\ ~request.approved
    /\ prepare' = IF prepare.state = "none" THEN JobOf(request.key) ELSE prepare
    /\ Respond
    /\ UNCHANGED <<campaign, template, settings, store, audience, send, chunk, ex, history, bounds>>

(* The queue is down: campaignDispatchFailureUpdate.                        *)
DispatchFails ==
    /\ Asked("sendNow", "added") \/ (Asked("sendNow", "ask") /\ ~request.approved)
    /\ faults < MaxFaults /\ faults' = faults + 1
    /\ Write("scheduled", campaign.approval)
    /\ Respond
    /\ UNCHANGED <<template, settings, store, audience, jobs, ex, history, requests, edits>>

(* templates.update and segments.update look at no campaign.                *)
EditTemplate ==
    /\ edits < MaxEdits /\ edits' = edits + 1
    /\ template' = template + 1
    /\ UNCHANGED <<campaign, settings, store, audience, jobs, ex, request, history, requests, faults>>

EditSegment ==
    /\ edits < MaxEdits /\ edits' = edits + 1
    /\ settings' = settings + 1
    /\ UNCHANGED <<campaign, template, store, audience, jobs, ex, request, history, requests, faults>>

(* disconnect clears scheduledAt, which may have been set; an uninstall     *)
(* writes the same rows.  removeStoreJobs spares the active jobs.           *)
disconnect ==
    /\ store = "connected" /\ requests < MaxRequests /\ requests' = requests + 1
    /\ store' = "disconnecting"
    /\ IF campaign.status \in {"scheduled", "sending"}
       THEN /\ Write("cancelled", campaign.approval)
            /\ settings' \in {settings, settings + 1}
       ELSE UNCHANGED <<campaign, settings>>
    /\ UNCHANGED <<template, audience, jobs, ex, request, history, edits, faults>>

Removed(job) == IF job.state \in {"waiting", "failed"} THEN [job EXCEPT !.state = "none"] ELSE job

removeStoreJobs ==
    /\ store = "disconnecting" /\ store' = "disconnected"
    /\ prepare' = Removed(prepare) /\ send' = Removed(send) /\ chunk' = NoLongerWaiting(chunk)
    /\ UNCHANGED <<campaign, template, settings, audience, ex, request, history, bounds>>

reconnect ==
    /\ store = "disconnected" /\ store' = "connected"
    /\ UNCHANGED <<campaign, template, settings, audience, jobs, ex, request, history, bounds>>

-----------------------------------------------------------------------------
(* prepareCampaignAudience *)

At(e, point)   == ex[e].pc = point
Goto(e, point) == ex' = [ex EXCEPT ![e].pc = point]
Ended(e)       == ex' = [ex EXCEPT ![e] = Idle]

(* The job is settled by the execution that owns it, no other.              *)
Settle(e, state) ==
    prepare' = IF prepare.state = "running" /\ prepare.owner = e
               THEN [prepare EXCEPT !.state = state, !.owner = None] ELSE prepare

Begin(e) ==
    /\ prepare.state = "waiting" /\ At(e, "idle")
    /\ prepare' = [prepare EXCEPT !.state = "running", !.owner = e]
    /\ ex' = [ex EXCEPT ![e] = [Idle EXCEPT !.pc = "claiming", !.key = prepare.key]]
    /\ UNCHANGED <<campaign, template, settings, store, audience, send, chunk, request, history, bounds>>

Reuse(e) ==
    /\ At(e, "claiming") /\ runs.status[ex[e].key] = "complete"
    /\ Goto(e, "reading")
    /\ UNCHANGED <<campaign, template, settings, store, audience, jobs, request, history, bounds>>

ClaimRun(e) ==
    LET k == ex[e].key
    IN /\ At(e, "claiming") /\ runs.status[k] # "complete" /\ runs.lease[k] = None
       /\ runs' = [runs EXCEPT !.status[k] = "resolving", !.lease[k] = e]
       /\ Goto(e, "resolving")
       /\ UNCHANGED <<campaign, template, settings, store, frozen, jobs, request, history, bounds>>

(* AudienceRunBusyError is an answer, not a failure: the job is completed.  *)
Busy(e) ==
    LET k == ex[e].key
    IN /\ At(e, "claiming") /\ runs.status[k] # "complete" /\ runs.lease[k] # None
       /\ Settle(e, "done") /\ Ended(e)
       /\ UNCHANGED <<campaign, template, settings, store, audience, send, chunk, request, history, bounds>>

Resolve(e) ==
    LET k == ex[e].key
    IN /\ At(e, "resolving")
       /\ runs' = [runs EXCEPT !.status[k] = "complete", !.lease[k] = None, !.latest = k]
       /\ Goto(e, "reading")
       /\ UNCHANGED <<campaign, template, settings, store, frozen, jobs, request, history, bounds>>

ReadCampaignAlone(e) ==  \* a slip: the approved proposal lacks the snapshot of its run
    /\ At(e, "reading") /\ runs.latest = ex[e].key
    /\ ex' = [ex EXCEPT ![e].pc = "freezing", ![e].seen = [content |-> template, settings |-> settings]]
    /\ UNCHANGED <<campaign, template, settings, store, audience, jobs, request, history, bounds>>

(* finalizeCampaignApproval reads content and settings as they are now.     *)
ReadCampaign(e) ==
    /\ At(e, "reading") /\ runs.latest = ex[e].key
    /\ ex' = [ex EXCEPT ![e].pc = "freezing",
                ![e].seen = [content |-> template, settings |-> settings, run |-> ex[e].key]]
    /\ UNCHANGED <<campaign, template, settings, store, audience, jobs, request, history, bounds>>

MaterialiseLater(e) ==  \* a slip: left to the bookkeeping after the claim
    /\ At(e, "freezing") /\ Goto(e, "approving")
    /\ UNCHANGED <<campaign, template, settings, store, audience, jobs, request, history, bounds>>

MaterialiseAssignments(e) ==
    /\ At(e, "freezing")
    /\ frozen' = frozen \union {ex[e].key}
    /\ Goto(e, "approving")
    /\ UNCHANGED <<campaign, template, settings, store, runs, jobs, request, history, bounds>>

ClaimedAnyway == campaign.status \in {"draft", "scheduled", "sending"}  \* a slip: no approvedAt: null
campaignApprovalClaimWhere ==
    campaign.approval = None /\ campaign.status \in {"draft", "scheduled"}

ClaimApproval(e) ==
    /\ At(e, "approving")
    /\ IF campaignApprovalClaimWhere
       THEN /\ Write("sending", ex[e].seen)
            /\ approvals' = approvals \union {ex[e].seen}
            /\ Goto(e, "recording")
       ELSE Goto(e, "conflict") /\ UNCHANGED <<campaign, approvals>>
    /\ UNCHANGED <<template, settings, store, audience, jobs, request, delivered, bounds>>

ConflictEnds(e) ==  \* a slip: already approved, nothing left to do
    /\ At(e, "conflict") /\ Settle(e, "done") /\ Ended(e)
    /\ UNCHANGED <<campaign, template, settings, store, audience, send, chunk, request, history, bounds>>

(* Claimed by another execution or by an earlier attempt: queue the send    *)
(* all the same, for the other may never do it.                             *)
Conflict(e) ==
    /\ At(e, "conflict")
    /\ IF campaign.approval # None /\ campaign.status = "sending"
       THEN Goto(e, "queueing") /\ UNCHANGED prepare
       ELSE Settle(e, "done") /\ Ended(e)
    /\ UNCHANGED <<campaign, template, settings, store, audience, send, chunk, request, history, bounds>>

RecordDecisions(e) ==
    /\ At(e, "recording") /\ Goto(e, "queueing")
    /\ UNCHANGED <<campaign, template, settings, store, audience, jobs, request, history, bounds>>

QueueSend(e) ==
    /\ At(e, "queueing")
    /\ enqueueSend /\ Settle(e, "done") /\ Ended(e)
    /\ UNCHANGED <<campaign, template, settings, store, audience, chunk, request, history, bounds>>

(* A statement throws: a run still being resolved is marked failed, the     *)
(* queue retries the job while it has attempts.                             *)
Throw(e) ==
    LET k == ex[e].key
    IN /\ ~At(e, "idle")
       /\ IF At(e, "reading") /\ runs.latest # k THEN UNCHANGED faults   \* not complete, or not the latest
          ELSE faults < MaxFaults /\ faults' = faults + 1
       /\ runs' = IF At(e, "resolving")
                  THEN [runs EXCEPT !.status[k] = "failed", !.lease[k] = None] ELSE runs
       /\ prepare' = IF prepare.state # "running" \/ prepare.owner # e THEN prepare
                     ELSE [prepare EXCEPT !.state = IF prepare.left > 1 THEN "waiting" ELSE "failed",
                                          !.left = @ - 1, !.owner = None]
       /\ Ended(e)
       /\ UNCHANGED <<campaign, template, settings, store, frozen, send, chunk, request, history, requests, edits>>

(* The worker dies.  Its lease outlives it; the queue finds the job stalled *)
(* and runs it once more.                                                   *)
Die(e) ==
    LET k == ex[e].key
    IN /\ ~At(e, "idle") /\ faults < MaxFaults /\ faults' = faults + 1
       /\ runs' = IF At(e, "resolving") THEN [runs EXCEPT !.lease[k] = "dead"] ELSE runs
       /\ Ended(e)
       /\ UNCHANGED <<campaign, template, settings, store, frozen, jobs, request, history, requests, edits>>

(* A dead worker's job is stalled; so may be a live one's.                  *)
Stall ==
    /\ prepare.state = "running"
    /\ IF At(prepare.owner, "idle") THEN UNCHANGED faults ELSE faults < MaxFaults /\ faults' = faults + 1
    /\ prepare' = [prepare EXCEPT !.state = IF prepare.stalled THEN "failed" ELSE "waiting",
                                  !.stalled = TRUE, !.owner = None]
    /\ UNCHANGED <<campaign, template, settings, store, audience, send, chunk, ex, request, history, requests, edits>>

LeaseExpires(k) ==
    /\ runs.lease[k] = "dead"
    /\ runs' = [runs EXCEPT !.lease[k] = None]
    /\ UNCHANGED <<campaign, template, settings, store, frozen, jobs, ex, request, history, bounds>>

(* The sweep re-adds the job of a run nobody advances, under the same id.   *)
recoverStalePreparationRuns(k) ==
    /\ runs.status[k] \in {"resolving", "failed"} /\ runs.lease[k] = None
    /\ prepare.state = "none" /\ prepare' = JobOf(k)
    /\ UNCHANGED <<campaign, template, settings, store, audience, send, chunk, ex, request, history, bounds>>

(* The queue keeps a finished job for a while, then forgets it.             *)
ForgetPreparation ==
    /\ prepare.state \in {"done", "failed"} /\ prepare' = NoJob
    /\ UNCHANGED <<campaign, template, settings, store, audience, send, chunk, ex, request, history, bounds>>

-----------------------------------------------------------------------------
(* The campaign-send job *)

StaleContent == campaign.approval = None  \* a slip: presence alone
Stale == campaign.approval = None \/ campaign.approval.settings # settings

(* A disconnected store throws and leaves the campaign; a stale approval    *)
(* is withdrawn.  The job has one attempt.                                  *)
Plan ==
    /\ send.state = "waiting"
    /\ IF store # "connected"
       THEN send' = [send EXCEPT !.state = "failed"] /\ UNCHANGED campaign
       ELSE IF Stale THEN ResetToDraft /\ send' = [send EXCEPT !.state = "failed"]
       ELSE send' = [send EXCEPT !.state = "planning"] /\ UNCHANGED campaign
    /\ UNCHANGED <<template, settings, store, audience, prepare, chunk, ex, request, history, bounds>>

(* The discount cannot be created: draft again, the approval stays.         *)
DiscountFails ==
    /\ send.state = "planning" /\ faults < MaxFaults /\ faults' = faults + 1
    /\ Write("draft", campaign.approval)
    /\ send' = [send EXCEPT !.state = "failed"]
    /\ UNCHANGED <<template, settings, store, audience, prepare, chunk, ex, request, history, requests, edits>>

(* The page's recheck excludes everyone while the store is off.             *)
QueueChunk ==
    /\ send.state = "planning"
    /\ chunk' = IF store = "connected" /\ chunk.row = "none"
                THEN [row |-> "open", job |-> "waiting", sending |-> None] ELSE chunk
    /\ send' = [send EXCEPT !.state = "closing"]
    /\ UNCHANGED <<campaign, template, settings, store, audience, prepare, ex, request, history, bounds>>

(* Unconditional: scheduled when deliveries wait for their time.            *)
ClosePlan ==
    /\ send.state = "closing"
    /\ \E status \in {"scheduled", "sending"} : Write(status, campaign.approval)
    /\ send' = [send EXCEPT !.state = "done"]
    /\ UNCHANGED <<template, settings, store, audience, prepare, chunk, ex, request, history, bounds>>

(* deliverOne reads the campaign: a store that is off is skipped, a stale   *)
(* approval withdrawn.  The campaign's status is not looked at.             *)
CheckDelivery ==
    /\ chunk.job = "waiting"
    /\ IF store = "connected" /\ ~Stale
       THEN /\ chunk' = [chunk EXCEPT !.job = "active",
                           !.sending = [content |-> campaign.approval.content, settings |-> settings]]
            /\ IF campaign.status \in {"scheduled", "sending"}
               THEN Write("sending", campaign.approval) ELSE UNCHANGED campaign
       ELSE /\ chunk' = [chunk EXCEPT !.job = "done", !.row = "complete"]
            /\ IF store = "connected" THEN ResetToDraft ELSE UNCHANGED campaign
    /\ UNCHANGED <<template, settings, store, audience, prepare, send, ex, request, history, bounds>>

Send ==
    /\ chunk.job = "active"
    /\ delivered' = delivered \union {chunk.sending}
    /\ chunk' = [row |-> "complete", job |-> "done", sending |-> None]
    /\ UNCHANGED <<campaign, template, settings, store, audience, prepare, send, ex, request, approvals, bounds>>

(* A row whose job is gone is re-driven.                                    *)
recoverStrandedDeliveries ==
    /\ chunk.row = "open" /\ chunk.job = "none"
    /\ chunk' = [chunk EXCEPT !.job = "waiting"]
    /\ UNCHANGED <<campaign, template, settings, store, audience, prepare, send, ex, request, history, bounds>>

finalizeCampaign ==
    /\ send.state = "done" /\ chunk.job \notin {"waiting", "active"} /\ delivered # {}
    /\ send' = [send EXCEPT !.state = "closed"]
    /\ Write("closed", campaign.approval)
    /\ UNCHANGED <<template, settings, store, audience, prepare, chunk, ex, request, history, bounds>>

-----------------------------------------------------------------------------
Prepare(e) ==
    \/ Reuse(e) \/ ClaimRun(e) \/ Busy(e) \/ Resolve(e)
    \/ ReadCampaign(e) \/ MaterialiseAssignments(e)
    \/ ClaimApproval(e) \/ Conflict(e) \/ RecordDecisions(e) \/ QueueSend(e)

Answer ==
    \/ update \/ schedule \/ cancel \/ override \/ deliverNow
    \/ RemoveQueuedJobs \/ reviseScheduled
    \/ MarkSending \/ AddSendJob \/ AddPreparation

Dispatch ==
    \/ Plan \/ QueueChunk \/ ClosePlan
    \/ CheckDelivery \/ Send \/ recoverStrandedDeliveries \/ finalizeCampaign

Next ==
    \/ \E op \in Ops : Ask(op)
    \/ Answer \/ DispatchFails
    \/ EditTemplate \/ EditSegment
    \/ disconnect \/ removeStoreJobs \/ reconnect
    \/ \E e \in Executions : Begin(e) \/ Prepare(e) \/ Throw(e) \/ Die(e)
    \/ Stall \/ ForgetPreparation
    \/ \E k \in Keys : LeaseExpires(k) \/ recoverStalePreparationRuns(k)
    \/ Dispatch \/ DiscountFails

Spec == Init /\ [][Next]_vars

(* A started request, execution or job goes on unless its worker dies, and  *)
(* the sweeps run on a schedule.                                            *)
Fairness ==
    /\ WF_vars(Answer) /\ WF_vars(removeStoreJobs)
    /\ WF_vars(\E e \in Executions : Begin(e))
    /\ \A e \in Executions : WF_vars(Prepare(e))
    /\ WF_vars(Stall /\ faults' = faults)
    /\ \A k \in Keys : WF_vars(LeaseExpires(k)) /\ WF_vars(recoverStalePreparationRuns(k))
    /\ WF_vars(Dispatch)

FairSpec == Spec /\ Fairness

-----------------------------------------------------------------------------
TypeOK ==
    /\ campaign \in [status : Statuses, approval : Approval \union {None}, stamp : Keys]
    /\ template \in Versions /\ settings \in Versions
    /\ store \in {"connected", "disconnecting", "disconnected"}
    /\ runs \in [status : [Keys -> {"none", "resolving", "failed", "complete"}],
                  lease : [Keys -> Executions \union {None, "dead"}],
                  latest : Keys \union {None}]
    /\ frozen \subseteq Keys
    /\ prepare \in [state : {"none", "waiting", "running", "done", "failed"}, key : Keys,
                     left : 0 .. Attempts, stalled : BOOLEAN, owner : Executions \union {None}]
    /\ ex \in [Executions -> [pc : Points \union {"idle"}, key : Keys, seen : Approval \union {None}]]
    /\ send \in [state : {"none", "waiting", "planning", "closing", "done", "closed", "failed"}]
    /\ chunk \in [row : {"none", "open", "complete"}, job : {"none", "waiting", "active", "done"},
                   sending : Payload \union {None}]
    /\ request \in Request \union {None}
    /\ approvals \subseteq Approval /\ delivered \subseteq Payload
    /\ requests \in 0 .. MaxRequests /\ edits \in 0 .. MaxEdits /\ faults \in 0 .. MaxFaults

(* Whatever is handed to the provider was claimed as an approval with       *)
(* exactly that content and those settings, through edits, resets and       *)
(* re-approvals.                                                            *)
DeliveredIsApproved ==
    \A p \in delivered :
        \E a \in approvals : a.content = p.content /\ a.settings = p.settings

(* An approved campaign has its measurement cohort: the run it names is     *)
(* complete and its assignments are frozen, so control and treatment were   *)
(* drawn before the first delivery.                                         *)
ApprovedHasFrozenCohort ==
    campaign.approval # None =>
        runs.status[campaign.approval.run] = "complete" /\ campaign.approval.run \in frozen

(* An approval ends by withdrawal only: no second execution, click or       *)
(* retried job replaces what was approved under deliveries already planned. *)
ApprovalNotReplaced ==
    [][campaign.approval # None /\ campaign.approval' # None
          => campaign.approval' = campaign.approval]_vars

(* A claimed campaign gets its planner although the worker that claimed it  *)
(* dies or throws before it queued one, as long as the store is connected.  *)
ClaimIsPlanned ==
    [](store = "connected") =>
        (campaign.approval # None /\ campaign.status = "sending" /\ send.state = "none"
            ~> send.state # "none" \/ campaign.status # "sending" \/ campaign.approval = None)

(* What the merchant cancelled, alone, for a revision or by disconnecting,  *)
(* starts no delivery.                                                      *)
CancelledStartsNoDelivery ==
    [][campaign.status = "cancelled" /\ chunk.sending = None => chunk'.sending = None]_vars
=============================================================================
