--------------------------- MODULE DeliveryPlan ---------------------------
(***************************************************************************)
(* Planning and driving the deliveries of one approved campaign             *)
(* (send.worker.ts, delivery-pacing.ts, delivery-recovery.ts).              *)
(*                                                                         *)
(* The planner pages through the frozen cohort, records the control group,  *)
(* writes each chunk of deliveries to campaign_delivery_chunks and queues a *)
(* job for it.  Chunk jobs deliver, wait for pacing, fail, stall and get    *)
(* lost; a sweep re-drives the chunks no job is left to send; the finalize  *)
(* job closes the campaign when every planned delivery has an outcome.      *)
(*                                                                         *)
(* What one delivery does at the provider is SesDelivery's subject: here it *)
(* is one step that leaves an outcome on the customer's message log.        *)
(* Delivery windows are abstract; a queued job may run at any time.         *)
(***************************************************************************)
EXTENDS Naturals, FiniteSets

CONSTANTS
    LastCustomer,   \* the frozen cohort is 1 .. LastCustomer, in id order
    Control,        \* the customers whose frozen arm is CONTROL
    COHORT_PAGE,    \* customers per page
    ChunkSize,      \* deliveries per chunk
    MAX_RECOVERIES, \* re-drives of one chunk
    MaxCrashes,     \* bound: planner executions that die or throw
    MaxFaults,      \* bound: chunk jobs that fail, stall or are lost
    MaxLosses,      \* bound: deliver-one jobs that fail for good
    MaxPutOffs,     \* bound: pacing refusals and deferrals
    MaxPauses       \* bound: times the store's sending is paused

Customers == 1 .. LastCustomer
Page(i)   == {c \in Customers : (c - 1) \div COHORT_PAGE = i}
PageCount == (LastCustomer + COHORT_PAGE - 1) \div COHORT_PAGE

ASSUME PlanAssumption ==
    /\ LastCustomer \in Nat \ {0}
    /\ Control \subseteq Customers
    /\ COHORT_PAGE \in Nat \ {0} /\ ChunkSize \in Nat \ {0}
    /\ MAX_RECOVERIES \in Nat

VARIABLES
    planner,        \* the campaign-send job
    rows,           \* campaign_delivery_chunks by chunk index
    jobs,           \* the chunk jobs by chunk index and recovery number
    deferred,       \* customers with a deliver-one job
    logs,           \* the status of each customer's message log
    campaign,       \* status ("planned": scheduled or sending), count of dispatch.scheduled
    finalize,       \* the campaign-finalize job
    paused,         \* emailSendingPausedAt
    owed,           \* history: the treatment customers a planner scheduled
    heldBack,       \* history: the customers a planner withheld or skipped
    crashes, faults, losses, putOffs, pauses

bounds == <<crashes, faults, losses, putOffs, pauses>>
decided == <<owed, heldBack>>
vars == <<planner, rows, jobs, deferred, logs, campaign, finalize, paused, decided, bounds>>

Outcomes    == {"sent", "suppressed", "failed"}
HeldLogs    == {"withheld", "skipped"}
LogStates   == Outcomes \union HeldLogs \union {"none", "queued"}
Retryable   == {"none", "queued", "failed"}    \* deliverOne goes on from these

Indices == 0 .. LastCustomer - 1
JobIds  == Indices \X (0 .. MAX_RECOVERIES)
Pending == {"waiting", "active"}

NoRow == [deliveries |-> {}, completed |-> FALSE, recoveries |-> 0]
NoJob == [state |-> "missing", batch |-> {}, todo |-> {}]
Queued(D) == [state |-> "waiting", batch |-> D, todo |-> {}]
Idle == [pc |-> "waiting", page |-> 0, chunk |-> 0, next |-> 0,
         held |-> {}, skipped |-> {}, staged |-> {}, scheduled |-> 0]

(* A page's deliveries in id order, ChunkSize at a time.                    *)
ChunkCount(D) == (Cardinality(D) + ChunkSize - 1) \div ChunkSize
ChunkOf(D, k) == {c \in D : Cardinality({d \in D : d < c}) \div ChunkSize = k}

-----------------------------------------------------------------------------
Init ==
    /\ planner = Idle
    /\ rows = [n \in Indices |-> NoRow]
    /\ jobs = [j \in JobIds |-> NoJob]
    /\ deferred = {}
    /\ logs = [c \in Customers |-> "none"]
    /\ campaign = [status |-> "approved", scheduled |-> 0]
    /\ finalize = "none"
    /\ paused = FALSE
    /\ owed = {} /\ heldBack = {}
    /\ crashes = 0 /\ faults = 0 /\ losses = 0 /\ putOffs = 0 /\ pauses = 0

-----------------------------------------------------------------------------
(* planCampaignSend *)

(* A paused store fails the job, which has one attempt.                     *)
StartPlanning ==
    /\ planner.pc = "waiting"
    /\ planner' = [Idle EXCEPT !.pc = IF paused THEN "failed" ELSE "reading"]
    /\ UNCHANGED <<rows, jobs, deferred, logs, campaign, finalize, paused, decided, bounds>>

WithheldSwapped(E, skipped) == (E \ Control) \ skipped  \* a slip: arm !== "CONTROL"
Withheld(E, skipped) == (E \ skipped) \intersect Control

StagedAnyway(E, skipped) == E \ skipped  \* a slip: no continue after withholding
Staged(E, skipped) == (E \ skipped) \ Control

(* The recheck leaves out everyone who has a message log, everyone when the *)
(* store is paused, and whoever is no longer eligible.  Of the rest some    *)
(* are skipped, whatever their arm, and the control group is withheld.      *)
ReadPage ==
    /\ planner.pc = "reading" /\ planner.page < PageCount
    /\ \E E \in SUBSET {c \in Page(planner.page) : logs[c] = "none" /\ ~paused},
          skipped \in SUBSET Page(planner.page) :
         LET staged == Staged(E, skipped)
         IN /\ skipped \subseteq E
            /\ planner' = [planner EXCEPT !.pc = "flushing", !.held = Withheld(E, skipped),
                               !.skipped = skipped, !.staged = staged, !.next = 0,
                               !.scheduled = @ + Cardinality(staged)]
            /\ owed' = owed \union staged
            /\ heldBack' = heldBack \union Withheld(E, skipped) \union skipped
    /\ UNCHANGED <<rows, jobs, deferred, logs, campaign, finalize, paused, bounds>>

HeldLogUnforced(c) == logs[c]  \* a slip: the buffer waits until it is full

HeldLog(c) ==
    CASE c \in planner.held    -> "withheld"
      [] c \in planner.skipped -> "skipped"
      [] OTHER                 -> logs[c]

flushPlannedLogs ==
    /\ planner.pc = "flushing"
    /\ logs' = [c \in Customers |-> HeldLog(c)]
    /\ planner' = [planner EXCEPT !.pc = "writing"]
    /\ UNCHANGED <<rows, jobs, deferred, campaign, finalize, paused, decided, bounds>>

(* createMany with skipDuplicates: an index that has a row keeps it.        *)
WriteRows ==
    /\ planner.pc = "writing"
    /\ rows' = [n \in Indices |->
         IF rows[n] = NoRow /\ n >= planner.chunk
         THEN [NoRow EXCEPT !.deliveries = ChunkOf(planner.staged, n - planner.chunk)]
         ELSE rows[n]]
    /\ planner' = [planner EXCEPT !.pc = "queueing"]
    /\ UNCHANGED <<jobs, deferred, logs, campaign, finalize, paused, decided, bounds>>

(* The queue ignores a job whose id it still holds.                         *)
QueueChunk ==
    LET n == planner.chunk + planner.next
    IN /\ planner.pc = "queueing" /\ planner.next < ChunkCount(planner.staged)
       /\ jobs' = IF jobs[<<n, 0>>] = NoJob
                  THEN [jobs EXCEPT ![<<n, 0>>] = Queued(ChunkOf(planner.staged, planner.next))]
                  ELSE jobs
       /\ planner' = [planner EXCEPT !.next = @ + 1]
       /\ UNCHANGED <<rows, deferred, logs, campaign, finalize, paused, decided, bounds>>

NextIndexRestarting == 0  \* a slip: every page numbers its chunks from 0
NextIndex == planner.chunk + planner.next

NextPage ==
    /\ planner.pc = "queueing" /\ planner.next = ChunkCount(planner.staged)
    /\ planner' = [planner EXCEPT !.pc = "reading", !.page = @ + 1,
                       !.chunk = NextIndex, !.next = 0, !.held = {}, !.skipped = {},
                       !.staged = {}]
    /\ UNCHANGED <<rows, jobs, deferred, logs, campaign, finalize, paused, decided, bounds>>

ClosePlan ==
    /\ planner.pc = "reading" /\ planner.page = PageCount
    /\ campaign' = [status |-> "planned", scheduled |-> planner.scheduled]
    /\ planner' = [planner EXCEPT !.pc = "closing"]
    /\ UNCHANGED <<rows, jobs, deferred, logs, finalize, paused, decided, bounds>>

QueueFinalize ==
    /\ planner.pc = "closing"
    /\ finalize' = IF finalize = "none" THEN "waiting" ELSE finalize
    /\ planner' = [planner EXCEPT !.pc = "done"]
    /\ UNCHANGED <<rows, jobs, deferred, logs, campaign, paused, decided, bounds>>

(* The worker dies and the stalled job is run again from the start, or a    *)
(* statement throws and the job's only attempt is spent.  What it decided   *)
(* about a page it has not recorded is void.                                *)
PlannerDies ==
    /\ planner.pc \notin {"waiting", "done", "failed"} /\ crashes < MaxCrashes
    /\ crashes' = crashes + 1
    /\ \E pc \in {"waiting", "failed"} : planner' = [Idle EXCEPT !.pc = pc]
    /\ heldBack' = IF planner.pc = "flushing"
                   THEN heldBack \ (planner.held \union planner.skipped) ELSE heldBack
    /\ UNCHANGED <<rows, jobs, deferred, logs, campaign, finalize, paused, owed,
                   faults, losses, putOffs, pauses>>

Plan == \/ StartPlanning \/ ReadPage \/ flushPlannedLogs \/ WriteRows \/ QueueChunk
        \/ NextPage \/ ClosePlan \/ QueueFinalize

-----------------------------------------------------------------------------
(* deliverChunk and runDeliveryChunk *)

StartChunk(j) ==
    /\ jobs[j].state = "waiting"
    /\ jobs' = [jobs EXCEPT ![j].state = "active", ![j].todo = jobs[j].batch]
    /\ UNCHANGED <<planner, rows, deferred, logs, campaign, finalize, paused, decided, bounds>>

Delivering(j, c) == jobs[j].state = "active" /\ c \in jobs[j].todo
Handled(j, c) == jobs' = [jobs EXCEPT ![j].todo = @ \ {c}]

(* The delivery has its outcome, or gets one: sent, suppressed, or failed   *)
(* for good, which the rest of the chunk does not wait for.  A store paused *)
(* meanwhile makes the delivery return without one.                         *)
Deliver(j, c) ==
    /\ Delivering(j, c)
    /\ \/ (logs[c] \notin Retryable \/ paused) /\ UNCHANGED logs
       \/ /\ logs[c] \in Retryable /\ ~paused
          /\ \E outcome \in Outcomes : logs' = [logs EXCEPT ![c] = outcome]
    /\ Handled(j, c)
    /\ UNCHANGED <<planner, rows, deferred, campaign, finalize, paused, decided, bounds>>

(* Quiet hours, or a spent daily cap: a deliver-one job takes the delivery. *)
Defer(j, c) ==
    /\ Delivering(j, c) /\ logs[c] \in Retryable /\ ~paused
    /\ putOffs < MaxPutOffs
    /\ putOffs' = putOffs + 1
    /\ deferred' = deferred \union {c}
    /\ \E status \in {logs[c], "queued"} : logs' = [logs EXCEPT ![c] = status]
    /\ Handled(j, c)
    /\ UNCHANGED <<planner, rows, campaign, finalize, paused, decided, crashes, faults, losses, pauses>>

PutBack(j, c) == jobs' = [jobs EXCEPT ![j].state = "waiting"]

(* Not yet: the log is queued and the whole chunk goes back to delayed.     *)
Pace(j, c) ==
    /\ Delivering(j, c) /\ logs[c] \in Retryable /\ ~paused
    /\ putOffs < MaxPutOffs
    /\ putOffs' = putOffs + 1
    /\ logs' = [logs EXCEPT ![c] = "queued"]
    /\ PutBack(j, c)
    /\ UNCHANGED <<planner, rows, deferred, campaign, finalize, paused, decided,
                   crashes, faults, losses, pauses>>

FinishChunk(j) ==
    /\ jobs[j].state = "active" /\ jobs[j].todo = {}
    /\ jobs' = [jobs EXCEPT ![j].state = "completed"]
    /\ rows' = [rows EXCEPT ![j[1]].completed = TRUE]
    /\ UNCHANGED <<planner, deferred, logs, campaign, finalize, paused, decided, bounds>>

RunChunk(j) ==
    \/ StartChunk(j) \/ FinishChunk(j)
    \/ \E c \in Customers : Deliver(j, c) \/ Defer(j, c) \/ Pace(j, c)

(* An execution throws or its worker dies, with the log of the delivery it  *)
(* failed at set to "failed" or not; attempts may remain or not.            *)
ChunkFails(j) ==
    /\ jobs[j].state = "active" /\ faults < MaxFaults
    /\ faults' = faults + 1
    /\ \E state \in {"waiting", "failed"} : jobs' = [jobs EXCEPT ![j].state = state]
    /\ \/ UNCHANGED logs
       \/ \E c \in jobs[j].todo :
            /\ logs[c] \in Retryable /\ ~paused
            /\ logs' = [logs EXCEPT ![c] = "failed"]
    /\ UNCHANGED <<planner, rows, deferred, campaign, finalize, paused, decided,
                   crashes, losses, putOffs, pauses>>

(* A waiting job vanishes from Redis.                                       *)
LoseJob(j) ==
    /\ jobs[j].state = "waiting" /\ faults < MaxFaults
    /\ faults' = faults + 1
    /\ jobs' = [jobs EXCEPT ![j] = NoJob]
    /\ UNCHANGED <<planner, rows, deferred, logs, campaign, finalize, paused, decided,
                   crashes, losses, putOffs, pauses>>

-----------------------------------------------------------------------------
(* deliverOneJob, the recovery sweep, the finalize job *)

RunDeferred(c) ==
    /\ c \in deferred
    /\ \/ (logs[c] \notin Retryable \/ paused) /\ UNCHANGED logs
       \/ /\ logs[c] \in Retryable /\ ~paused
          /\ \E outcome \in Outcomes : logs' = [logs EXCEPT ![c] = outcome]
    /\ deferred' = deferred \ {c}
    /\ UNCHANGED <<planner, rows, jobs, campaign, finalize, paused, decided, bounds>>

(* The last attempt of a deliver-one job throws.                            *)
DeferredFails(c) ==
    /\ c \in deferred /\ losses < MaxLosses
    /\ losses' = losses + 1
    /\ deferred' = deferred \ {c}
    /\ UNCHANGED <<planner, rows, jobs, logs, campaign, finalize, paused, decided,
                   crashes, faults, putOffs, pauses>>

(* A planned, incomplete chunk whose current job is not pending is queued   *)
(* again under a new id.  The grace period outlasts a planner that is       *)
(* queueing the page's jobs.                                                *)
Stranded(n) ==
    /\ planner.pc # "queueing"
    /\ rows[n] # NoRow /\ rows[n].deliveries # {} /\ ~rows[n].completed
    /\ jobs[<<n, rows[n].recoveries>>].state \notin Pending

recoverStrandedDeliveries(n) ==
    /\ Stranded(n) /\ rows[n].recoveries < MAX_RECOVERIES
    /\ LET r == rows[n].recoveries + 1
       IN /\ jobs' = [jobs EXCEPT ![<<n, r>>] = Queued(rows[n].deliveries)]
          /\ rows' = [rows EXCEPT ![n].recoveries = r]
    /\ UNCHANGED <<planner, deferred, logs, campaign, finalize, paused, decided, bounds>>

Count(status) == Cardinality({c \in Customers \ Control : logs[c] = status})
CompletedUnsuppressed == Count("sent") + Count("failed")  \* a slip: no suppressed
Logged ==  \* a slip: every log counts
    Cardinality({c \in Customers \ Control : logs[c] \in Outcomes \union {"queued"}})
Completed == Count("sent") + Count("failed") + Count("suppressed")

FinalStatusOfSome == IF Count("sent") > 0 THEN "sent" ELSE "failed"  \* a slip

FinalStatus ==
    CASE Count("sent") = campaign.scheduled -> "sent"
      [] Count("sent") > 0                  -> "partially_sent"
      [] OTHER                              -> "failed"

(* The job looks again a minute later while deliveries are pending or logs  *)
(* are missing; such a look changes nothing here.                           *)
finalizeCampaign ==
    /\ finalize = "waiting"
    /\ deferred = {} /\ \A j \in JobIds : jobs[j].state \notin Pending
    /\ Completed >= campaign.scheduled
    /\ campaign' = [campaign EXCEPT !.status = FinalStatus]
    /\ finalize' = "done"
    /\ UNCHANGED <<planner, rows, jobs, deferred, logs, paused, decided, bounds>>

setEmailSendingPaused ==
    /\ paused \/ pauses < MaxPauses
    /\ pauses' = IF paused THEN pauses ELSE pauses + 1
    /\ paused' = ~paused
    /\ UNCHANGED <<planner, rows, jobs, deferred, logs, campaign, finalize, decided,
                   crashes, faults, losses, putOffs>>

-----------------------------------------------------------------------------
Next ==
    \/ Plan \/ PlannerDies
    \/ \E j \in JobIds : RunChunk(j) \/ ChunkFails(j) \/ LoseJob(j)
    \/ \E c \in Customers : RunDeferred(c) \/ DeferredFails(c)
    \/ \E n \in Indices : recoverStrandedDeliveries(n)
    \/ finalizeCampaign
    \/ setEmailSendingPaused

Spec == Init /\ [][Next]_vars

(* The queue keeps running its jobs, the sweep and the finalize job come    *)
(* round on their schedules, and a paused store is resumed.                 *)
Fairness ==
    /\ WF_vars(Plan)
    /\ WF_vars(\E j \in JobIds : RunChunk(j))
    /\ WF_vars(\E c \in Customers : RunDeferred(c))
    /\ WF_vars(\E n \in Indices : recoverStrandedDeliveries(n))
    /\ WF_vars(finalizeCampaign)
    /\ WF_vars(paused /\ setEmailSendingPaused)

FairSpec == Spec /\ Fairness

-----------------------------------------------------------------------------
(* Properties *)

TypeOK ==
    /\ planner \in [pc : {"waiting", "reading", "flushing", "writing", "queueing",
                          "closing", "done", "failed"},
                    page : 0 .. PageCount, chunk : Nat, next : Nat, scheduled : Nat,
                    held : SUBSET Control, skipped : SUBSET Customers,
                    staged : SUBSET Customers]
    /\ rows \in [Indices -> [deliveries : SUBSET Customers, completed : BOOLEAN,
                             recoveries : 0 .. MAX_RECOVERIES]]
    /\ jobs \in [JobIds -> [state : Pending \union {"missing", "completed", "failed"},
                            batch : SUBSET Customers, todo : SUBSET Customers]]
    /\ \A j \in JobIds : jobs[j].todo \subseteq jobs[j].batch
    /\ deferred \subseteq Customers
    /\ logs \in [Customers -> LogStates]
    /\ campaign \in [status : {"approved", "planned", "sent", "partially_sent", "failed"},
                     scheduled : Nat]
    /\ finalize \in {"none", "waiting", "done"}
    /\ paused \in BOOLEAN
    /\ owed \subseteq Customers /\ heldBack \subseteq Customers

(* The control group is never treated, by a chunk, a deferred job or a log, *)
(* however often the planner runs (send.worker.ts, arm === "CONTROL").      *)
ControlUntouched ==
    \A c \in Control :
        /\ logs[c] \in HeldLogs \union {"none"} /\ c \notin deferred
        /\ \A n \in Indices : c \notin rows[n].deliveries
        /\ \A j \in JobIds : c \notin jobs[j].batch

(* Whenever deliveries are written down, whoever was held back before is    *)
(* durably so: a planner that dies right after leaves a complete            *)
(* reconciliation of what it scheduled (send.worker.ts, the forced flush).  *)
ReconciliationComplete ==
    [][(\E n \in Indices : rows'[n].deliveries # rows[n].deliveries)
        => \A h \in heldBack : logs[h] \in HeldLogs]_vars

(* Every delivery the planner scheduled is written down when it is done.    *)
NobodyDropped ==
    planner.pc = "done" => owed \subseteq UNION {rows[n].deliveries : n \in Indices}

(* A chunk marked complete owes nothing: each delivery has an outcome or a  *)
(* job of its own, whatever was paced, failed or run twice on the way.      *)
FinishedIsSettled ==
    \A n \in Indices : rows[n].completed =>
        \A c \in rows[n].deliveries : logs[c] \in Outcomes \/ c \in deferred

(* A campaign is closed only when every scheduled delivery has an outcome.  *)
CompletionNotManufactured ==
    [][finalize' # finalize /\ finalize' = "done"
        => \A c \in owed : logs[c] \in Outcomes]_vars

(* A campaign called "sent" had every scheduled delivery accepted.          *)
SentMeansAllAccepted ==
    campaign.status = "sent" => \A c \in owed : logs[c] = "sent"

(* A planned campaign is closed in the end, whatever job fails, stalls or   *)
(* vanishes: with CompletionNotManufactured, every scheduled delivery gets  *)
(* an outcome.                                                              *)
CampaignFinishes == (planner.pc = "done") ~> (finalize = "done")
=============================================================================
