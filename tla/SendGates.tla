------------------------------ MODULE SendGates ------------------------------
(***************************************************************************)
(* The gates between a planned campaign delivery and the provider, for one  *)
(* store that sends through Resend: contact permission, the communication   *)
(* governor, the warm-up standing and the capacity counters in Redis, as    *)
(* deliverOne passes them (send.worker.ts, email-capacity.ts,               *)
(* communication-governor, contact-policy.ts).                              *)
(*                                                                         *)
(* Several deliveries, to one customer among others, are under way at once: *)
(* what a gate read may have changed when the message is handed over.  How  *)
(* a job is retried is DeliveryPlan's subject, what an approval is worth    *)
(* CampaignApproval's.  Time is days and nights: quiet hours begin at       *)
(* nightfall and end at daybreak, when the date changes too.                *)
(***************************************************************************)
EXTENDS Naturals, FiniteSets

CONSTANTS
    Messages,     \* deliveries, each with a log row of its own
    Customers,
    To,           \* whom a delivery is for
    Forced,       \* deliveries the merchant asked for at once, whatever the hour
    Overriding,   \* deliveries whose campaign overrides fatigue and collision
    Limits,       \* fatigue limits: at most max messages within days
    Gap,          \* days between two campaigns to one customer
    Oldest,       \* bound: days are counted up to the longest window
    DailyCap,     \* sends a day at the store's warm-up tier
    Concurrency,  \* sends of the store in flight
    MaxMishaps    \* bound: deaths, leases that run out under a send, early nights,
                  \* refusals by the provider, opt-outs, support issues, holds, pauses

ASSUME SendGatesAssumption ==
    /\ To \in [Messages -> Customers]
    /\ Forced \subseteq Messages /\ Overriding \subseteq Messages
    /\ Limits \subseteq [max : Nat \ {0}, days : Nat \ {0}]
    /\ Gap \in Nat \ {0} /\ DailyCap \in Nat \ {0} /\ Concurrency \in Nat \ {0}
    /\ Oldest \in Nat /\ Gap <= Oldest /\ \A l \in Limits : l.days <= Oldest
    /\ IsFiniteSet(Messages) /\ MaxMishaps \in Nat

VARIABLES
    night,      \* quiet hours
    optedOut,   \* customers without marketing permission
    mood,       \* of each customer: content, an open support issue, or cooling down
    warmup,     \* the store's standing: open, held or paused
    job,        \* of each message: where its execution is, whether timing is forced
    log,        \* of each message: its status; queued stands for no row too
    age,        \* days since it was sent
    fatigue,    \* messages with a fatigue row
    daily,      \* the store's counter of the day
    leases,     \* executions that hold a concurrency lease
    orphans,    \* leases of executions that died
    seen,       \* history, see SeenInit
    mishaps

customer == <<optedOut, mood>>
rows     == <<log, age, fatigue>>
redis    == <<daily, leases, orphans>>
vars == <<night, customer, warmup, job, rows, redis, seen, mishaps>>

-----------------------------------------------------------------------------
Points == {"waiting", "tomorrow", "governor", "capacity",
           "sending", "answered", "recording", "remembering", "done"}
Waiting == {"waiting", "tomorrow", "done"}
Campaign == [max |-> 1, days |-> Gap]

At(m, point) == job[m].pc = point
Running(m)   == job[m].pc \notin Waiting
Goto(m, point) == job' = [job EXCEPT ![m].pc = point]
MessagesTo(c) == {m \in Messages : To[m] = c}

(* History: messages handed over; those handed over on capacity of today;   *)
(* executions whose capacity is of an earlier day; executions a gate closed *)
(* behind; messages whose sender died before it had                         *)
(* recorded them; and how many deliveries to a customer ever overlapped.    *)
SeenInit == [handed |-> {}, today |-> {}, carried |-> {}, graced |-> {},
             forgotten |-> {}, peak |-> [c \in Customers |-> 0]]

Mishap == mishaps < MaxMishaps /\ mishaps' = mishaps + 1

(* An execution that ends takes its exemptions with it.                     *)
EndOf(m) == [seen EXCEPT !.carried = @ \ {m}, !.graced = @ \ {m}]

(* Between the governor's answer and the fatigue row a delivery counts      *)
(* nowhere.                                                                 *)
InFlight(c) ==
    {m \in MessagesTo(c) : job[m].pc \in {"capacity", "sending", "answered",
                                          "recording", "remembering"}}

Init ==
    /\ night \in BOOLEAN
    /\ optedOut = {} /\ mood = [c \in Customers |-> "content"]
    /\ warmup = "open"
    /\ job = [m \in Messages |-> [pc |-> "waiting", forced |-> m \in Forced]]
    /\ log = [m \in Messages |-> "queued"] /\ age = [m \in Messages |-> 0] /\ fatigue = {}
    /\ daily = 0 /\ leases = {} /\ orphans = 0
    /\ seen = SeenInit
    /\ mishaps = 0

-----------------------------------------------------------------------------
Suppress(m) ==
    /\ log' = [log EXCEPT ![m] = "suppressed"]
    /\ Goto(m, "done") /\ seen' = EndOf(m)
    /\ UNCHANGED <<age, fatigue>>

(* deliverOne.  A log that is neither queued nor failed is left alone;      *)
(* otherwise getMarketingDeliveryPermission.                                *)
Begin(m) ==
    /\ At(m, "waiting")
    /\ IF log[m] \notin {"queued", "failed"} THEN Goto(m, "done") /\ UNCHANGED <<rows, seen>>
       ELSE IF To[m] \in optedOut THEN Suppress(m)
       ELSE Goto(m, "governor") /\ UNCHANGED <<rows, seen>>
    /\ UNCHANGED <<night, customer, warmup, redis, mishaps>>

Fatigued(c, l) == Cardinality({m \in fatigue \intersect MessagesTo(c) : age[m] < l.days}) >= l.max
CollidesBefore(c) ==  \* a slip: the comparison with the window's start turned round
    \E m \in MessagesTo(c) : log[m] = "sent" /\ age[m] > Gap
Collides(c) == \E m \in MessagesTo(c) : log[m] = "sent" /\ age[m] < Gap

(* checkAllRules: the first rule that blocks.                               *)
Rule(c) ==
    IF mood[c] = "issue"                    THEN "support"
    ELSE IF \E l \in Limits : Fatigued(c, l) THEN "fatigue"
    ELSE IF Collides(c)                     THEN "collision"
    ELSE IF mood[c] = "cooling"             THEN "cooldown"
    ELSE IF night                           THEN "quiet_hours" ELSE "none"

Overridden(m, rule) == m \in Overriding /\ rule \in {"fatigue", "collision", "cooldown"}

(* Neither deferral carries the merchant's forced timing on.                *)
Postpone(m) ==
    /\ job' = [job EXCEPT ![m] = [pc |-> "tomorrow", forced |-> FALSE]]
    /\ seen' = EndOf(m) /\ UNCHANGED rows

Pass(m) ==
    LET c == To[m]
        n == Cardinality(InFlight(c) \union {m})
    IN /\ Goto(m, "capacity") /\ UNCHANGED rows
       /\ seen' = [seen EXCEPT !.peak[c] = IF n > @ THEN n ELSE @]

CheckGovernor(m) ==
    LET rule == Rule(To[m])
    IN /\ At(m, "governor")
       /\ \/ /\ rule = "none" \/ Overridden(m, rule) \/ (rule = "quiet_hours" /\ job[m].forced)
             /\ Pass(m)
          \/ rule = "quiet_hours" /\ ~job[m].forced /\ Postpone(m)
          \/ /\ rule \notin {"none", "quiet_hours"} /\ ~Overridden(m, rule)
             /\ Suppress(m)
       /\ UNCHANGED <<night, customer, warmup, redis, mishaps>>

ResumeAtCapacity(m) ==  \* a slip: the gates were passed before
    Goto(m, "capacity") /\ seen' = EndOf(m) /\ UNCHANGED rows

(* The job is put off and starts again from the first gate.                 *)
Pace(m) == Goto(m, "waiting") /\ seen' = EndOf(m) /\ UNCHANGED rows

AtCapPlusOne == daily > DailyCap  \* a slip: off by one
AtCap == daily >= DailyCap
Busy == Cardinality(leases) + orphans >= Concurrency

(* acquireEmailCapacity.  A store that is held back or at its cap resumes   *)
(* tomorrow, without the forced timing; any other refusal is pacing.        *)
Acquire(m) ==
    /\ At(m, "capacity")
    /\ \/ /\ warmup # "open" \/ AtCap
          /\ Postpone(m) /\ UNCHANGED <<redis, mishaps>>
       \/ /\ warmup = "open" /\ ~AtCap /\ Busy
          /\ Pace(m) /\ UNCHANGED <<redis, mishaps>>
       \/ /\ warmup = "open" /\ ~AtCap /\ ~Busy /\ Mishap  \* providerPerMinute, providerPerSecond
          /\ Pace(m) /\ UNCHANGED redis
       \/ /\ warmup = "open" /\ ~AtCap /\ ~Busy
          /\ daily' = daily + 1 /\ leases' = leases \union {m}
          /\ Goto(m, "sending")
          /\ UNCHANGED <<rows, orphans, seen, mishaps>>
    /\ UNCHANGED <<night, customer, warmup>>

(* The provider accepts; its idempotency key makes a repeat the same mail.  *)
HandOver(m) ==
    /\ At(m, "sending") /\ Goto(m, "answered")
    /\ seen' = [seen EXCEPT !.handed = @ \union {m},
                  !.today = IF m \in seen.carried THEN @ ELSE @ \union {m}]
    /\ UNCHANGED <<night, customer, warmup, rows, redis, mishaps>>

(* release, in the finally, removes the execution's own token.              *)
Released(m) == leases \ {m}

(* The provider refuses the message for now, or rejects it: the delivery is *)
(* tried again, or failed for good.                                         *)
Refused(m) ==
    /\ At(m, "sending") /\ Mishap
    /\ leases' = Released(m)
    /\ \/ Goto(m, "waiting") /\ log' \in {log, [log EXCEPT ![m] = "failed"]}
       \/ Goto(m, "done") /\ log' = [log EXCEPT ![m] = "failed"]
    /\ seen' = EndOf(m)
    /\ UNCHANGED <<night, customer, warmup, age, fatigue, daily, orphans>>

ReleaseGivingBack(m) ==  \* a slip: the day's place is given back with the lease
    /\ At(m, "answered") /\ Goto(m, "recording")
    /\ leases' = Released(m) /\ daily' = IF daily > 0 THEN daily - 1 ELSE daily
    /\ UNCHANGED <<night, customer, warmup, rows, orphans, seen, mishaps>>

Release(m) ==
    /\ At(m, "answered") /\ Goto(m, "recording")
    /\ leases' = Released(m)
    /\ UNCHANGED <<night, customer, warmup, rows, daily, orphans, seen, mishaps>>

RecordSent(m) ==
    /\ At(m, "recording") /\ Goto(m, "remembering")
    /\ log' = [log EXCEPT ![m] = "sent"] /\ age' = [age EXCEPT ![m] = 0]
    /\ UNCHANGED <<night, customer, warmup, fatigue, redis, seen, mishaps>>

RecordFatigue(m) ==
    /\ At(m, "remembering") /\ Goto(m, "done")
    /\ fatigue' = fatigue \union {m}
    /\ seen' = EndOf(m)
    /\ UNCHANGED <<night, customer, warmup, log, age, redis, mishaps>>

(* The worker dies.  Its lease stays until it runs out; the job is found    *)
(* stalled and run again.                                                   *)
Die(m) ==
    /\ Running(m) /\ Mishap
    /\ Goto(m, "waiting")
    /\ leases' = leases \ {m}
    /\ orphans' = IF m \in leases THEN orphans + 1 ELSE orphans
    /\ seen' = [EndOf(m) EXCEPT !.forgotten =
                  IF job[m].pc \in {"answered", "recording", "remembering"} THEN @ \union {m} ELSE @]
    /\ UNCHANGED <<night, customer, warmup, rows, daily>>

(* ZREMRANGEBYSCORE: a lease runs out, of a dead worker or under a live one.*)
OrphanKept ==  \* a slip: an expired token is not told from a live one
    /\ orphans > Concurrency /\ orphans' = orphans - 1
    /\ UNCHANGED <<night, customer, warmup, job, rows, daily, leases, seen, mishaps>>

OrphanExpires ==
    /\ orphans > 0 /\ orphans' = orphans - 1
    /\ UNCHANGED <<night, customer, warmup, job, rows, daily, leases, seen, mishaps>>

LeaseExpires(m) ==
    /\ m \in leases /\ Mishap
    /\ leases' = leases \ {m}
    /\ UNCHANGED <<night, customer, warmup, job, rows, daily, orphans, seen>>

-----------------------------------------------------------------------------
(* Around the sends.  A gate that closes spares the executions already past *)
(* it.                                                                      *)

(* An unsubscribe, a bounce or a complaint.                                 *)
OptOut(c) ==
    /\ Mishap /\ c \notin optedOut
    /\ optedOut' = optedOut \union {c}
    /\ seen' = [seen EXCEPT !.graced = @ \union
                  {m \in MessagesTo(c) : Running(m)}]
    /\ UNCHANGED <<night, mood, warmup, job, rows, redis>>

OpenIssue(c) ==
    /\ Mishap /\ mood[c] # "issue" /\ mood' = [mood EXCEPT ![c] = "issue"]
    /\ UNCHANGED <<night, optedOut, warmup, job, rows, redis, seen>>

ResolveIssue(c) ==
    /\ mood[c] = "issue" /\ mood' = [mood EXCEPT ![c] = "cooling"]
    /\ UNCHANGED <<night, optedOut, warmup, job, rows, redis, seen, mishaps>>

(* applyEmailProviderSafetyEffects, or a review.                            *)
HoldOrPause ==
    /\ Mishap /\ warmup' \in {"held", "paused"} /\ warmup' # warmup
    /\ UNCHANGED <<night, customer, job, rows, redis, seen>>

(* overrideWarmup                                                           *)
Lift ==
    /\ warmup # "open" /\ warmup' = "open"
    /\ UNCHANGED <<night, customer, job, rows, redis, seen, mishaps>>

(* A day is long enough for the jobs that are due to ask the governor; one  *)
(* that is not counts as a fault.                                           *)
Nightfall ==
    /\ ~night /\ night' = TRUE
    /\ IF \E m \in Messages : job[m].pc \in {"waiting", "governor"}
       THEN Mishap ELSE UNCHANGED mishaps
    /\ UNCHANGED <<customer, warmup, job, rows, redis, seen>>

(* Jobs put off to the morning are due, the day's counter is a new key, and *)
(* cooldowns and holds may run out.                                         *)
Daybreak ==
    /\ night /\ night' = FALSE
    /\ job' = [m \in Messages |-> IF At(m, "tomorrow") THEN [job[m] EXCEPT !.pc = "waiting"]
                                  ELSE job[m]]
    /\ age' = [m \in Messages |-> IF age[m] < Oldest /\ m \in seen.handed THEN age[m] + 1 ELSE age[m]]
    /\ daily' = 0
    /\ mood' = [c \in Customers |-> IF mood[c] = "cooling" THEN "content" ELSE mood[c]]
    /\ warmup' = IF warmup = "held" THEN "open" ELSE warmup
    /\ seen' = [seen EXCEPT !.today = {},
                  !.carried = {m \in Messages : job[m].pc \in {"sending", "answered"}}]
    /\ UNCHANGED <<optedOut, log, fatigue, leases, orphans, mishaps>>

-----------------------------------------------------------------------------
Deliver(m) ==
    \/ Begin(m) \/ CheckGovernor(m) \/ Acquire(m)
    \/ HandOver(m) \/ Release(m) \/ RecordSent(m) \/ RecordFatigue(m)

Next ==
    \/ \E m \in Messages : Deliver(m) \/ Refused(m) \/ Die(m) \/ LeaseExpires(m)
    \/ \E c \in Customers : OptOut(c) \/ OpenIssue(c) \/ ResolveIssue(c)
    \/ OrphanExpires \/ HoldOrPause \/ Lift \/ Nightfall \/ Daybreak

Spec == Init /\ [][Next]_vars

(* Started executions go on, due jobs are started, leases run out and time  *)
(* passes.  Nothing is asked of the merchant or the customers.              *)
Fairness ==
    /\ \A m \in Messages : WF_vars(Deliver(m))
    /\ WF_vars(OrphanExpires) /\ WF_vars(Nightfall) /\ WF_vars(Daybreak)

FairSpec == Spec /\ Fairness

-----------------------------------------------------------------------------
TypeOK ==
    /\ night \in BOOLEAN
    /\ optedOut \subseteq Customers
    /\ mood \in [Customers -> {"content", "issue", "cooling"}]
    /\ warmup \in {"open", "held", "paused"}
    /\ job \in [Messages -> [pc : Points, forced : BOOLEAN]]
    /\ log \in [Messages -> {"queued", "sent", "suppressed", "failed"}]
    /\ age \in [Messages -> 0 .. Oldest] /\ fatigue \subseteq Messages
    /\ daily \in 0 .. DailyCap /\ leases \subseteq Messages /\ orphans \in 0 .. Concurrency
    /\ seen \in [handed : SUBSET Messages, today : SUBSET Messages, carried : SUBSET Messages,
                  graced : SUBSET Messages,
                  forgotten : SUBSET Messages, peak : [Customers -> 0 .. Cardinality(Messages)]]
    /\ mishaps \in 0 .. MaxMishaps

(* The governor's caps and the gap between campaigns hold for messages      *)
(* delivered one after another.  Rules read what other deliveries write     *)
(* only once they are sent, so a cap is passed by as many messages as       *)
(* overlapped, less one, and by those a worker died before recording:       *)
(* never by more.                                                           *)
OvershootBounded ==
    \A c \in Customers, l \in Limits \union {Campaign} :
        LET Received == {m \in seen.handed \intersect MessagesTo(c) : m \notin Overriding /\ age[m] < l.days}
        IN Received # {} =>
             Cardinality(Received) + 1 <= l.max + seen.peak[c]
                                            + Cardinality(seen.forgotten \intersect MessagesTo(c))

(* No day's allowance is spent twice: refusals, retries, deaths and sends   *)
(* across midnight included, what is handed over on capacity taken today    *)
(* stays within the tier's daily cap.                                       *)
DailyCapHolds == Cardinality(seen.today) <= DailyCap

(* An opt-out stops every message but those whose execution had asked for   *)
(* permission before it: one that is paced, deferred or retried asks again. *)
OptOutRespected ==
    [][\A m \in Messages :
          At(m, "sending") /\ job'[m].pc = "answered" /\ To[m] \in optedOut
             => m \in seen.graced]_vars

(* Every delivery gets an outcome, whatever gate puts it off, unless the    *)
(* store stays paused.                                                      *)
EverySettles == []<>((\A m \in Messages : At(m, "done")) \/ warmup = "paused")
=============================================================================
