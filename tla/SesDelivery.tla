---------------------------- MODULE SesDelivery ----------------------------
(***************************************************************************)
(* One delivery key through SES: calls of deliverOne (send.worker.ts), the  *)
(* attempt row of withSesDeliveryAttempt (ses-delivery.ts), the provider,   *)
(* and the consumer of the provider's events (ses-events.worker.ts).        *)
(*                                                                         *)
(* SES has no idempotency key, so the attempt row alone keeps two calls     *)
(* from handing over the same message.  A queue retry, a stalled job taken  *)
(* up by a second worker and a re-driven chunk are each another call; calls *)
(* overlap freely, one action per awaited statement.  Delivery keys share   *)
(* no row, so one key is the whole behaviour.                               *)
(***************************************************************************)
EXTENDS Naturals, FiniteSets

CONSTANTS
    Calls,          \* executions of deliverOne; a call's id is its owner token
    None,           \* no owner, no message id
    MaxFaults,      \* bound: statements that throw and workers that die
    MaxDuplicates   \* bound: executions the queue starts once too often

ASSUME CallAssumption == None \notin Calls

VARIABLES
    attempt,        \* the SesDeliveryAttempt row
    log,            \* the MessageLog row
    pc, result,     \* where each call is, and what its submission returned
    accepts,        \* the calls whose message the provider accepted
    events,         \* the provider's events not yet deleted from SQS
    receipts,       \* SesEventReceipt
    suppressed,     \* the recipient has a hard-bounce suppression
    due,            \* executions the queue still owes
    faults, duplicates

calls    == <<pc, result>>
queue    == <<due, faults, duplicates>>
provider == <<accepts, events>>
vars == <<attempt, log, calls, provider, receipts, suppressed, queue>>

-----------------------------------------------------------------------------
(* Rows and events *)

AttemptStates == {"none", "submitting", "accepted", "ambiguous", "failed", "manual_review"}
ReconcilableAfterAnswer == {"ambiguous", "manual_review"}  \* a slip: not the calls that died
SES_SEND_RECONCILABLE_STATES == {"submitting", "ambiguous", "manual_review"}
Blocking == {"submitting", "accepted", "ambiguous", "manual_review"}

LogStates == {"none", "queued", "sent", "failed", "suppressed", "delivered", "bounced"}
Confirmed == {"sent", "delivered", "bounced"}

Rank(status) ==
    CASE status \in {"none", "queued", "suppressed"} -> 0
      [] status = "sent"                             -> 1
      [] status = "delivered"                        -> 2
      [] OTHER                                       -> 5

Kinds == {"send", "delivery", "bounce"}
Event == [kind : Kinds, message : Calls]

(* A message is sent, then delivered, then perhaps bounced.                 *)
OccurredAt(kind) == CASE kind = "send" -> 1 [] kind = "delivery" -> 2 [] OTHER -> 3
NextStatus(kind) == IF kind = "delivery" THEN "delivered" ELSE "bounced"

Points == {"idle", "absent", "gating", "creating", "conflict", "reclaiming", "claimed",
           "leased", "handed", "answered", "logging", "ended"}
Result == [status : {"none", "sent", "unknown", "refused", "awaiting"},
           externalId : Calls \union {None}]
NoResult == [status |-> "none", externalId |-> None]
Running(c) == pc[c] \notin {"idle", "ended"}

Goto(c, point) == pc' = [pc EXCEPT ![c] = point]
Return(c, status, id, point) ==
    /\ Goto(c, point)
    /\ result' = [result EXCEPT ![c] = [status |-> status, externalId |-> id]]

-----------------------------------------------------------------------------
Init ==
    /\ attempt = [state |-> "none", owner |-> None, externalId |-> None]
    /\ log = [status |-> "none", externalId |-> None, eventAt |-> 0]
    /\ pc = [c \in Calls |-> "idle"]
    /\ result = [c \in Calls |-> NoResult]
    /\ accepts = {} /\ events = {} /\ receipts = {} /\ suppressed = FALSE
    /\ due = 1 /\ faults = 0 /\ duplicates = 0

(* An execution starts and reads the log: only an absent, queued or failed  *)
(* delivery goes on.  Whether a row existed decides between a later update  *)
(* and a create.                                                            *)
Begin(c) ==
    /\ pc[c] = "idle" /\ due > 0
    /\ due' = due - 1
    /\ Goto(c, CASE log.status = "none" -> "absent"
                 [] log.status \in {"queued", "failed"} -> "gating"
                 [] OTHER -> "ended")
    /\ UNCHANGED <<attempt, log, result, provider, receipts, suppressed, faults, duplicates>>

Gating(c) == pc[c] \in {"absent", "gating"}

WriteLog(c, status) ==
    /\ pc[c] = "gating" \/ (pc[c] = "absent" /\ log.status = "none")
    /\ log' = [log EXCEPT !.status = status]

(* The campaign is gone, the store disconnected or paused, the approval     *)
(* changed: the call returns and leaves the log alone.                      *)
Skip(c) ==
    /\ Gating(c)
    /\ Goto(c, "ended")
    /\ UNCHANGED <<attempt, log, result, provider, receipts, suppressed, queue>>

(* Quiet hours: another execution is queued for later.                      *)
Defer(c) ==
    /\ Gating(c)
    /\ due' = due + 1
    /\ Goto(c, "ended")
    /\ UNCHANGED <<attempt, log, result, provider, receipts, suppressed, faults, duplicates>>

(* Permission or the governor says no.  The log read at the start may have  *)
(* been overtaken by another call's.                                        *)
Suppress(c) ==
    /\ WriteLog(c, "suppressed")
    /\ Goto(c, "ended")
    /\ UNCHANGED <<attempt, result, provider, receipts, suppressed, queue>>

QueueLog(c) ==
    /\ WriteLog(c, "queued")
    /\ Goto(c, "creating")
    /\ UNCHANGED <<attempt, result, provider, receipts, suppressed, queue>>

(* Another call created the row since: the create throws, the job retries.  *)
LogExists(c) ==
    /\ pc[c] = "absent" /\ log.status # "none"
    /\ due' = due + 1
    /\ Goto(c, "ended")
    /\ UNCHANGED <<attempt, log, result, provider, receipts, suppressed, faults, duplicates>>

-----------------------------------------------------------------------------
(* withSesDeliveryAttempt *)

Claim(c) ==
    /\ attempt' = [attempt EXCEPT !.state = "submitting", !.owner = c]
    /\ Goto(c, "claimed")
    /\ UNCHANGED <<log, result, provider, receipts, suppressed, queue>>

Create(c) == pc[c] = "creating" /\ attempt.state = "none" /\ Claim(c)

CreateConflicts(c) ==
    /\ pc[c] = "creating" /\ attempt.state # "none"
    /\ Goto(c, "conflict")
    /\ UNCHANGED <<attempt, log, result, provider, receipts, suppressed, queue>>

(* A slip: every blocked attempt answers "sent".                            *)
ReadPriorAsSent(c) ==
    /\ pc[c] = "conflict"
    /\ IF attempt.state \in Blocking
       THEN Return(c, "sent", attempt.externalId, "logging")
       ELSE Goto(c, "reclaiming") /\ UNCHANGED result
    /\ UNCHANGED <<attempt, log, provider, receipts, suppressed, queue>>

(* An accepted attempt answers "sent" again; one that may have been handed  *)
(* over waits for SES events.                                               *)
ReadPrior(c) ==
    /\ pc[c] = "conflict"
    /\ CASE attempt.state = "accepted" -> Return(c, "sent", attempt.externalId, "logging")
         [] attempt.state \in Blocking \ {"accepted"} -> Return(c, "awaiting", None, "logging")
         [] OTHER -> Goto(c, "reclaiming") /\ UNCHANGED result
    /\ UNCHANGED <<attempt, log, provider, receipts, suppressed, queue>>

ReclaimUnguarded(c) == pc[c] = "reclaiming" /\ Claim(c)  \* a slip: no state in the WHERE
Reclaim(c) == pc[c] = "reclaiming" /\ attempt.state = "failed" /\ Claim(c)

ReclaimLost(c) ==
    /\ pc[c] = "reclaiming" /\ attempt.state # "failed"
    /\ Return(c, "awaiting", None, "logging")
    /\ UNCHANGED <<attempt, log, provider, receipts, suppressed, queue>>

AcquireLease(c) ==
    /\ pc[c] = "claimed"
    /\ Goto(c, "leased")
    /\ UNCHANGED <<attempt, log, result, provider, receipts, suppressed, queue>>

(* No capacity: the log goes back to queued and the job is tried again (for *)
(* a spent daily cap a second, delayed job is queued too).  The exception   *)
(* leaves the attempt row as the claim wrote it.                            *)
LeaseRefused(c) ==
    /\ pc[c] = "claimed"
    /\ log' = [log EXCEPT !.status = "queued"]
    /\ \E jobs \in 1 .. 2 : due' = due + jobs
    /\ Goto(c, "ended")
    /\ UNCHANGED <<attempt, result, provider, receipts, suppressed, faults, duplicates>>

(* The message is refused before it is handed to SES (sender not            *)
(* configured, sending switched off).                                       *)
Refuse(c) ==
    /\ pc[c] = "leased"
    /\ Return(c, "refused", None, "answered")
    /\ UNCHANGED <<attempt, log, provider, receipts, suppressed, queue>>

HandOver(c) ==
    /\ pc[c] = "leased"
    /\ \/ /\ accepts' = accepts \union {c}
          /\ events' = events \union {[kind |-> "send", message |-> c]}
       \/ UNCHANGED provider
    /\ Goto(c, "handed")
    /\ UNCHANGED <<attempt, log, result, receipts, suppressed, queue>>

(* Any exception of the SES client leaves acceptance unknown.               *)
Answer(c) ==
    /\ pc[c] = "handed"
    /\ \/ c \in accepts /\ Return(c, "sent", c, "answered")
       \/ Return(c, "unknown", None, "answered")
    /\ UNCHANGED <<attempt, log, provider, receipts, suppressed, queue>>

(* A slip: the provider's word is stored as the state.                      *)
RecordVerbatim(c) ==
    /\ pc[c] = "answered"
    /\ attempt' = [attempt EXCEPT !.state = result[c].status]
    /\ Goto(c, "logging")
    /\ UNCHANGED <<log, result, provider, receipts, suppressed, queue>>

RecordAttempt(c) ==
    /\ pc[c] = "answered"
    /\ attempt' =
         IF attempt.owner # c THEN attempt
         ELSE CASE result[c].status = "sent" ->
                     [attempt EXCEPT !.state = "accepted", !.externalId = result[c].externalId]
                [] result[c].status = "unknown" -> [attempt EXCEPT !.state = "ambiguous"]
                [] OTHER -> [attempt EXCEPT !.state = "failed"]
    /\ Goto(c, "logging")
    /\ UNCHANGED <<log, result, provider, receipts, suppressed, queue>>

(* A failure here is final for the job: SES results are never retryable.    *)
(* A second "sent" repeats the message id of the accepted attempt.          *)
RecordLog(c) ==
    /\ pc[c] = "logging"
    /\ log' = IF result[c].status = "sent"
              THEN [log EXCEPT !.status = "sent", !.externalId = result[c].externalId]
              ELSE [log EXCEPT !.status = "failed"]
    /\ Goto(c, "ended")
    /\ UNCHANGED <<attempt, result, provider, receipts, suppressed, queue>>

(* A statement throws, or the worker dies: either way the queue runs the    *)
(* job again.                                                               *)
Fail(c) ==
    /\ Running(c) /\ faults < MaxFaults
    /\ faults' = faults + 1
    /\ due' = due + 1
    /\ Goto(c, "ended")
    /\ UNCHANGED <<attempt, log, result, provider, receipts, suppressed, duplicates>>

(* A job whose lock lapsed is started again beside its first execution; the *)
(* recovery sweep re-drives a chunk that is still being sent.               *)
Redeliver ==
    /\ duplicates < MaxDuplicates
    /\ duplicates' = duplicates + 1
    /\ due' = due + 1
    /\ UNCHANGED <<attempt, log, calls, provider, receipts, suppressed, faults>>

-----------------------------------------------------------------------------
(* Provider events *)

(* SES delivers an accepted message, or bounces it.                         *)
Outcome(c) ==
    /\ c \in accepts
    /\ \E kind \in {"delivery", "bounce"} :
         /\ [kind |-> kind, message |-> c] \notin events \union receipts
         /\ events' = events \union {[kind |-> kind, message |-> c]}
    /\ UNCHANGED <<attempt, log, calls, accepts, receipts, suppressed, queue>>

AttemptAfter(e) ==
    IF e.kind = "send" /\ attempt.state \in SES_SEND_RECONCILABLE_STATES
    THEN [attempt EXCEPT !.state = "accepted", !.externalId = e.message]
    ELSE attempt

SentAlways(e) ==  \* a slip: no providerEventAt in the WHERE
    [status |-> "sent", externalId |-> e.message, eventAt |-> OccurredAt("send")]

SentUnlessNewer(e) ==
    IF log.status # "none" /\ log.eventAt <= OccurredAt("send")
    THEN [status |-> "sent", externalId |-> e.message, eventAt |-> OccurredAt("send")]
    ELSE log

ProgressUnlessNewer(e) ==
    IF /\ log.externalId = e.message
       /\ OccurredAt(e.kind) >= log.eventAt
       /\ Rank(NextStatus(e.kind)) >= Rank(log.status)
    THEN [log EXCEPT !.status = NextStatus(e.kind), !.eventAt = OccurredAt(e.kind)]
    ELSE log

(* One transaction; the receipt makes a second delivery of the event a      *)
(* no-op.                                                                   *)
Persist(e) ==
    /\ e \in events \ receipts
    /\ receipts' = receipts \union {e}
    /\ attempt' = AttemptAfter(e)
    /\ log' = IF e.kind = "send" THEN SentUnlessNewer(e) ELSE ProgressUnlessNewer(e)
    /\ UNCHANGED <<calls, provider, suppressed, queue>>

(* After the transaction: a permanent bounce suppresses the recipient of    *)
(* the log that carries the message id, then SQS deletes the event, unless  *)
(* the consumer stops first or SQS delivers it once more.                   *)
Acknowledge(e) ==
    /\ e \in events \intersect receipts
    /\ suppressed' = (suppressed \/ (e.kind = "bounce" /\ log.externalId = e.message))
    /\ \E again \in BOOLEAN : events' = IF again THEN events ELSE events \ {e}
    /\ UNCHANGED <<attempt, log, calls, accepts, receipts, queue>>

flagStaleAmbiguousSesDeliveries ==
    /\ attempt.state = "ambiguous"
    /\ attempt' = [attempt EXCEPT !.state = "manual_review"]
    /\ UNCHANGED <<log, calls, provider, receipts, suppressed, queue>>

-----------------------------------------------------------------------------
Proceed(c) ==
    \/ Skip(c) \/ Defer(c) \/ Suppress(c) \/ QueueLog(c) \/ LogExists(c)
    \/ Create(c) \/ CreateConflicts(c) \/ ReadPrior(c) \/ Reclaim(c) \/ ReclaimLost(c)
    \/ AcquireLease(c) \/ LeaseRefused(c) \/ Refuse(c) \/ HandOver(c) \/ Answer(c)
    \/ RecordAttempt(c) \/ RecordLog(c)

Next ==
    \/ \E c \in Calls : Begin(c) \/ Proceed(c) \/ Fail(c) \/ Outcome(c)
    \/ \E e \in Event : Persist(e) \/ Acknowledge(e)
    \/ Redeliver
    \/ flagStaleAmbiguousSesDeliveries

Spec == Init /\ [][Next]_vars

(* The consumer keeps polling, and SQS keeps an event until it is deleted;  *)
(* nothing is asked of the calls, which may all be dead.                    *)
Fairness == WF_vars(\E e \in Event : Persist(e))

FairSpec == Spec /\ Fairness

-----------------------------------------------------------------------------
(* Properties *)

TypeOK ==
    /\ attempt \in [state : AttemptStates, owner : Calls \union {None},
                   externalId : Calls \union {None}]
    /\ log \in [status : LogStates, externalId : Calls \union {None}, eventAt : 0 .. 3]
    /\ pc \in [Calls -> Points]
    /\ result \in [Calls -> Result]
    /\ accepts \subseteq Calls
    /\ events \subseteq Event
    /\ receipts \subseteq Event
    /\ suppressed \in BOOLEAN
    /\ due \in Nat /\ faults \in Nat /\ duplicates \in Nat

(* However many executions the queue starts, wherever each one dies and     *)
(* whatever the consumer reconciles meanwhile, the provider accepts the     *)
(* delivery at most once.                                                   *)
AtMostOnce == \A c, d \in accepts : c = d

(* A log that says the message left names a message the provider accepted,  *)
(* whoever wrote it: the sending call, a call that found the attempt        *)
(* accepted, or the consumer.                                               *)
SentNamesTheMessage == log.status \in Confirmed => log.externalId \in accepts

(* The consumer never takes a log that already holds an event back to an    *)
(* earlier stage, in whatever order and however often SQS delivers.         *)
EventsApplyInOrder ==
    [][(\E e \in Event : Persist(e)) /\ log.eventAt > 0
        => Rank(log'.status) >= Rank(log.status)]_vars

(* While the capacity lease is held or the message is with the provider, no *)
(* other call is past the claim: one delivery consumes one submission slot. *)
OneSubmitter ==
    \A c, d \in Calls :
        /\ pc[c] \in {"claimed", "leased", "handed", "answered"}
        /\ pc[d] \in {"claimed", "leased", "handed", "answered"}
        => c = d

(* An accepted message whose call stopped before recording it is recorded   *)
(* all the same, by the consumer, even after it went to manual review.      *)
AcceptanceIsRecorded ==
    (accepts # {} /\ attempt.state = "submitting") ~> attempt.state = "accepted"
=============================================================================
