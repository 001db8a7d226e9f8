-------------------------- MODULE AutomationRunner --------------------------
(***************************************************************************)
(* An email journey of one customer: the trigger jobs that start it, the    *)
(* runner that walks its nodes, the jobs it leaves behind for a wait or for *)
(* quiet hours (automation-runner.worker.ts, trigger-listener.worker.ts,    *)
(* segment-change.worker.ts), and the merchant who edits, pauses, resumes   *)
(* and activates the automation meanwhile (routers/automations.ts,          *)
(* automation-activation-checksum.ts).                                      *)
(*                                                                         *)
(* The jobs are BullMQ's: an id that was ever added is not added again, a   *)
(* stalled job is started once more, and its first worker may go on.  The   *)
(* templates are one value; the gates in front of the provider are          *)
(* SendGates' subject and only pass, block or defer here.                   *)
(***************************************************************************)
EXTENDS Naturals, Sequences, FiniteSets

CONSTANTS
    Workers, None,
    Sources,      \* who may start the journey: "event", "change", "listener"
    Attempts,     \* of each source's job
    Workflows,    \* what the merchant may make of the nodes
    Kind,         \* node -> "email", "wait" or "condition"
    Contents,     \* what the templates may say
    Missing,      \* a content: the template was deleted
    Nights,       \* bound: quiet hours a delivery meets
    MaxActs,      \* bound: acts of the merchant
    MaxMishaps    \* bound: deaths, false stalls, refusals, blocks, quiet hours

Nodes == DOMAIN Kind
Executions == {<<"trigger", s>> : s \in Sources}

ASSUME AutomationRunnerAssumption ==
    /\ None \notin Workers \union Executions /\ Missing \in Contents
    /\ Attempts \in [Sources -> Nat \ {0}]
    /\ Workflows \subseteq Seq(Nodes) /\ Workflows # {}
    /\ Kind \in [Nodes -> {"email", "wait", "condition"}]
    /\ MaxActs \in Nat /\ MaxMishaps \in Nat

VARIABLES
    automation, \* its row: status, version, checksum and workflow
    content,    \* of the templates
    queue,      \* job id -> job, for every id ever added
    run,        \* of each worker: where its execution is
    log,        \* delivery key -> status
    accepted,   \* what the provider accepted
    seen,       \* history, see SeenInit
    acts, mishaps

store  == <<automation, content>>
bounds == <<acts, mishaps>>
vars   == <<store, queue, run, log, accepted, seen, bounds>>

-----------------------------------------------------------------------------
Idle == [pc |-> "idle", job |-> None, row |-> None, at |-> 0, found |-> FALSE, mail |-> None]

(* History: emails of the journey with an outcome; executions a gate of the *)
(* merchant closed behind; whether the nodes changed under the customer.    *)
SeenInit == [settled |-> {}, graced |-> {}, reshaped |-> FALSE]

(* automationActivationChecksum: names exactly these.                       *)
Checksum(a, c) == [workflow |-> a.workflow, content |-> c]

Init ==
    /\ content \in Contents \ {Missing}
    /\ \E w \in Workflows :
         automation = [status |-> "active", version |-> 1, workflow |-> w,
                       checksum |-> [workflow |-> w, content |-> content]]
    /\ queue = [i \in {} |-> None] /\ log = [k \in {} |-> None]
    /\ run = [w \in Workers |-> Idle]
    /\ accepted = {} /\ seen = SeenInit
    /\ acts = 0 /\ mishaps = 0

Act    == acts < MaxActs /\ acts' = acts + 1
Mishap == mishaps < MaxMishaps /\ mishaps' = mishaps + 1

At(w, pc)   == run[w].pc = pc
Job(w)      == queue[run[w].job]
ExecutionOfJob(w) == run[w].job  \* a slip: every job is an execution of its own
Execution(w) == IF Job(w).exec = None THEN run[w].job ELSE Job(w).exec
Node(w)     == run[w].row.workflow[run[w].at]
AtNode(w, kind) ==
    At(w, "node") /\ run[w].at <= Len(run[w].row.workflow) /\ Kind[Node(w)] = kind
DeliveryKey(w) == <<Execution(w), run[w].row.version, Node(w)>>

(* queue.add: an id the queue has seen is left as it is.                    *)
Added(q, id, job) ==
    IF id \in DOMAIN q THEN q ELSE [i \in DOMAIN q \union {id} |-> IF i = id THEN job ELSE q[i]]

NewJob(of, at, exec, attempts) ==
    [of |-> of, at |-> at, exec |-> exec, left |-> attempts, stalled |-> FALSE,
     state |-> "waiting", owner |-> None]

Logged(status, w) ==
    [k \in DOMAIN log \union {DeliveryKey(w)} |-> IF k = DeliveryKey(w) THEN status ELSE log[k]]

-----------------------------------------------------------------------------
(* Starting: checkEventTriggers, the segment-change worker and the trigger  *)
(* listener.  Only the segment-change worker is kept from starting again by *)
(* a log of the automation for the customer: the listener looks for the     *)
(* customer in the logs' metadata, where the runner does not put it.        *)
Trigger(s) ==
    /\ automation.status = "active"
    /\ s = "change" => DOMAIN log = {}
    /\ <<"trigger", s>> \notin DOMAIN queue
    /\ queue' = Added(queue, <<"trigger", s>>, NewJob(s, 1, None, Attempts[s]))
    /\ UNCHANGED <<store, run, log, accepted, seen, bounds>>

(* An execution ends.  One that lost its job to a stall leaves it alone.    *)
Leave(w, job) ==
    /\ run' = [run EXCEPT ![w] = Idle]
    /\ queue' = [queue EXCEPT ![run[w].job] = IF @.owner = w THEN job ELSE @]

Finish(w) == Leave(w, [Job(w) EXCEPT !.state = "completed"])
Fail(w)   == Leave(w, [Job(w) EXCEPT !.state = "failed"])
Retry(w)  == IF Job(w).left > 1
             THEN Leave(w, [Job(w) EXCEPT !.state = "waiting", !.left = @ - 1])
             ELSE Fail(w)

(* The row is read once: status, version, checksum and nodes.               *)
Start(w, id) ==
    /\ At(w, "idle") /\ queue[id].state = "waiting"
    /\ IF automation.status = "active"
       THEN /\ queue' = [queue EXCEPT ![id].state = "active", ![id].owner = w]
            /\ run' = [run EXCEPT ![w] = [Idle EXCEPT !.pc = "verify", !.job = id,
                                            !.row = automation, !.at = queue[id].at]]
       ELSE queue' = [queue EXCEPT ![id].state = "completed"] /\ UNCHANGED run
    /\ seen' = [seen EXCEPT !.graced = @ \ {w}]
    /\ UNCHANGED <<store, log, accepted, bounds>>

(* What stops being active spares the executions that read it active, a new *)
(* text those that verified the old one.                                    *)
Running  == {w \in Workers : ~At(w, "idle")}
Verified == {w \in Running : ~At(w, "verify")}
Stopped  == seen' = [seen EXCEPT !.graced = @ \union Running]

NodesUnchanged(w) == run[w].row.checksum.workflow = automation.workflow  \* a slip: templates forgotten
Unchanged(w) == run[w].row.checksum = Checksum(automation, content)

(* The checksum over what is stored now must be the one in the row.  If not *)
(* the automation is paused, whatever has become of it since.               *)
Verify(w) ==
    /\ At(w, "verify")
    /\ IF Unchanged(w)
       THEN /\ run' = [run EXCEPT ![w].pc = "node"]
            /\ UNCHANGED <<automation, queue, seen>>
       ELSE /\ automation' = [automation EXCEPT !.status = "paused", !.checksum = None]
            /\ Retry(w) /\ Stopped
    /\ UNCHANGED <<content, log, accepted, bounds>>

(* The customer is gone, or the store is disconnected or paused.            *)
Unavailable(w) ==
    /\ At(w, "verify") /\ Unchanged(w) /\ Mishap
    /\ Finish(w)
    /\ UNCHANGED <<store, log, accepted, seen, acts>>

-----------------------------------------------------------------------------
(* The node loop *)

Advanced(w) == [run EXCEPT ![w].at = @ + 1, ![w].pc = "node", ![w].found = FALSE, ![w].mail = None]
Settled(w) == [seen EXCEPT !.settled = @ \union {<<Job(w).of, run[w].at>>}]
Advance(w) == run' = Advanced(w) /\ seen' = Settled(w)

Resolved(w) == DeliveryKey(w) \in DOMAIN log /\ log[DeliveryKey(w)] \notin {"failed", "queued"}

Begin(w) ==
    /\ AtNode(w, "email")
    /\ IF Resolved(w) THEN Advance(w)
       ELSE /\ run' = [run EXCEPT ![w].pc = "compose", ![w].found = DeliveryKey(w) \in DOMAIN log]
            /\ UNCHANGED seen
    /\ UNCHANGED <<store, queue, log, accepted, bounds>>

(* Contact permission or the governor says no.                              *)
Suppress(w) ==
    /\ AtNode(w, "email") /\ ~Resolved(w) /\ Mishap
    /\ log' = Logged("suppressed", w)
    /\ Advance(w)
    /\ UNCHANGED <<store, queue, accepted, acts>>

(* Quiet hours defer this node, under an id of the night.                   *)
DeferAsNew(w, n) ==  \* a slip: the execution id is not passed on
    /\ AtNode(w, "email") /\ ~Resolved(w) /\ Mishap
    /\ queue' = Added(queue, <<"quiet", Execution(w), run[w].at, n>>,
                      NewJob(Job(w).of, run[w].at, None, 1))
    /\ run' = [run EXCEPT ![w].pc = "leaving"]
    /\ UNCHANGED <<store, log, accepted, seen, acts>>

Defer(w, n) ==
    /\ AtNode(w, "email") /\ ~Resolved(w) /\ Mishap
    /\ queue' = Added(queue, <<"quiet", Execution(w), run[w].at, n>>,
                      NewJob(Job(w).of, run[w].at, Execution(w), 1))
    /\ run' = [run EXCEPT ![w].pc = "leaving"]
    /\ UNCHANGED <<store, log, accepted, seen, acts>>

(* The template is read as it is now; without one the node is skipped.  The *)
(* log is updated if Begin saw one and created otherwise, which fails when  *)
(* another execution has created it meanwhile.                              *)
Compose(w) ==
    /\ At(w, "compose")
    /\ \/ content = Missing /\ Advance(w) /\ UNCHANGED <<queue, log>>
       \/ /\ content # Missing /\ (DeliveryKey(w) \in DOMAIN log => run[w].found)
          /\ log' = Logged("queued", w)
          /\ run' = [run EXCEPT ![w].pc = "sending", ![w].mail = content]
          /\ UNCHANGED <<queue, seen>>
       \/ /\ content # Missing /\ DeliveryKey(w) \in DOMAIN log /\ ~run[w].found
          /\ Retry(w) /\ UNCHANGED <<log, seen>>
    /\ UNCHANGED <<store, accepted, bounds>>

(* Capacity is refused, or the sender domain is not verified: the log stays *)
(* queued and the attempt is spent.                                         *)
Refuse(w) ==
    /\ At(w, "sending") /\ Mishap
    /\ log' = Logged("queued", w) /\ Retry(w)
    /\ UNCHANGED <<store, accepted, seen, acts>>

(* The provider knows a delivery key it has accepted.                       *)
HandOver(w) ==
    /\ At(w, "sending")
    /\ accepted' = IF \E a \in accepted : a.key = DeliveryKey(w) THEN accepted
                   ELSE accepted \union {[key |-> DeliveryKey(w), of |-> Job(w).of, at |-> run[w].at,
                                          content |-> run[w].mail]}
    /\ run' = [run EXCEPT ![w].pc = "accepted"]
    /\ UNCHANGED <<store, queue, log, seen, bounds>>

(* A send that fails for good is not retried (providerJobFailure).          *)
RejectSkipping(w) ==  \* a slip: the failed node is passed over
    /\ At(w, "sending") /\ Mishap
    /\ log' = Logged("failed", w)
    /\ run' = Advanced(w)
    /\ UNCHANGED <<store, queue, accepted, seen, acts>>

Reject(w) ==
    /\ At(w, "sending") /\ Mishap
    /\ log' = Logged("failed", w)
    /\ Retry(w) \/ Fail(w)
    /\ UNCHANGED <<store, accepted, seen, acts>>

RecordSent(w) ==
    /\ At(w, "accepted")
    /\ log' = Logged("sent", w) /\ Advance(w)
    /\ UNCHANGED <<store, queue, accepted, bounds>>

Wait(w) ==
    /\ AtNode(w, "wait")
    /\ queue' = Added(queue, <<"continue", Execution(w), run[w].at + 1>>,
                      NewJob(Job(w).of, run[w].at + 1, Execution(w), 5))
    /\ run' = [run EXCEPT ![w].pc = "leaving"]
    /\ UNCHANGED <<store, log, accepted, seen, bounds>>

(* The customer has ordered, or is no VIP: the journey ends here.           *)
Condition(w) ==
    /\ AtNode(w, "condition")
    /\ (run' = Advanced(w) /\ UNCHANGED queue) \/ Finish(w)
    /\ UNCHANGED <<store, log, accepted, seen, bounds>>

Return(w) ==
    /\ At(w, "leaving") \/ (At(w, "node") /\ run[w].at > Len(run[w].row.workflow))
    /\ Finish(w)
    /\ UNCHANGED <<store, log, accepted, seen, bounds>>

-----------------------------------------------------------------------------
(* The worker dies with its job active.                                     *)
Die(w) ==
    /\ ~At(w, "idle") /\ Mishap
    /\ run' = [run EXCEPT ![w] = Idle]
    /\ UNCHANGED <<store, queue, log, accepted, seen, acts>>

(* BullMQ's stalled check starts the job again, once; its worker may still  *)
(* be at work.                                                              *)
Stall(id) ==
    /\ queue[id].state = "active"
    /\ IF run[queue[id].owner].job = id THEN Mishap ELSE UNCHANGED mishaps
    /\ queue' = [queue EXCEPT ![id].owner = None, ![id].stalled = TRUE,
                               ![id].state = IF queue[id].stalled THEN "failed" ELSE "waiting"]
    /\ UNCHANGED <<store, run, log, accepted, seen, acts>>

-----------------------------------------------------------------------------
(* The merchant *)

(* update, with nodes, trigger or name: the activation is void.             *)
Update(workflow) ==
    /\ Act
    /\ automation' = [automation EXCEPT !.workflow = workflow, !.status = "ready", !.checksum = None]
    /\ seen' = [seen EXCEPT !.graced = @ \union Running,
                  !.reshaped = @ \/ (workflow # automation.workflow /\ DOMAIN queue # {})]
    /\ UNCHANGED <<content, queue, run, log, accepted, mishaps>>

(* update, with a status only, and pause.                                   *)
SetStatus(status) ==
    /\ Act /\ automation.status # status
    /\ automation' = [automation EXCEPT !.status = status]
    /\ Stopped
    /\ UNCHANGED <<content, queue, run, log, accepted, mishaps>>

Activate ==
    /\ Act /\ automation.status = "ready"
    /\ automation' = [automation EXCEPT !.status = "active", !.version = @ + 1,
                                       !.checksum = Checksum(automation, content)]
    /\ UNCHANGED <<content, queue, run, log, accepted, seen, mishaps>>

Resume ==
    /\ Act /\ automation.status = "paused"
    /\ automation.checksum = Checksum(automation, content)
    /\ automation' = [automation EXCEPT !.status = "active"]
    /\ UNCHANGED <<content, queue, run, log, accepted, seen, mishaps>>

(* A template is edited, restored or deleted: no automation learns of it.   *)
EditTemplates(c) ==
    /\ Act /\ c # content /\ content' = c
    /\ seen' = [seen EXCEPT !.graced = @ \union Verified]
    /\ UNCHANGED <<automation, queue, run, log, accepted, mishaps>>

-----------------------------------------------------------------------------
Step(w) ==
    \/ \E id \in DOMAIN queue : Start(w, id)
    \/ Verify(w) \/ Begin(w) \/ Compose(w) \/ HandOver(w) \/ RecordSent(w)
    \/ Wait(w) \/ Condition(w) \/ Return(w)

Trouble(w) ==
    \/ Unavailable(w) \/ Suppress(w) \/ Refuse(w) \/ Reject(w) \/ Die(w)
    \/ \E n \in Nights : Defer(w, n)

Merchant ==
    \/ \E f \in Workflows : Update(f)
    \/ \E s \in {"draft", "ready", "paused"} : SetStatus(s)
    \/ Activate \/ Resume
    \/ \E c \in Contents : EditTemplates(c)

Next ==
    \/ \E s \in Sources : Trigger(s)
    \/ \E w \in Workers : Step(w) \/ Trouble(w)
    \/ \E id \in DOMAIN queue : Stall(id)
    \/ Merchant

Spec == Init /\ [][Next]_vars

-----------------------------------------------------------------------------
JobIds ==
    Executions \union {<<"continue", e, i>> : e \in Executions, i \in Nat}
               \union {<<"quiet", e, i, n>> : e \in Executions, i \in Nat, n \in Nights}

(* Every job belongs to the execution its trigger started.                  *)
TypeOK ==
    /\ automation.status \in {"draft", "ready", "active", "paused"}
    /\ automation.workflow \in Workflows /\ automation.version \in Nat
    /\ automation.checksum \in {None} \union [workflow : Workflows, content : Contents]
    /\ content \in Contents
    /\ \A id \in DOMAIN queue :
         /\ id[1] \in {"trigger", "continue", "quiet"}
         /\ id[1] = "trigger" => id \in Executions
         /\ id[1] # "trigger" => id[2] \in Executions /\ id[3] \in Nat
         /\ queue[id] \in [of : Sources, at : Nat, exec : Executions \union {None}, left : Nat,
                            stalled : BOOLEAN, owner : Workers \union {None},
                            state : {"waiting", "active", "completed", "failed"}]
    /\ \A k \in DOMAIN log :
         /\ k \in Executions \X Nat \X Nodes
         /\ log[k] \in {"queued", "sent", "suppressed", "failed"}
    /\ \A w \in Workers : run[w] # Idle =>
         /\ run[w].job \in DOMAIN queue
         /\ run[w].row.workflow \in Workflows /\ run[w].at \in Nat
    /\ seen.graced \subseteq Workers
    /\ acts \in 0 .. MaxActs /\ mishaps \in 0 .. MaxMishaps

(* One start of the journey sends each email of an activated version once,  *)
(* however often its jobs stall, are retried, wait or meet quiet hours.     *)
EachEmailOnce ==
    \A a, b \in accepted :
        a.of = b.of /\ a.key[2] = b.key[2] /\ a.key[3] = b.key[3] => a = b

(* An email is sent only when every email before it has its outcome, unless *)
(* the merchant changed the nodes with the customer among them.             *)
InOrder ==
    ~seen.reshaped =>
        \A a \in accepted : \A i \in 1 .. a.at - 1 :
            Kind[automation.workflow[i]] = "email" => <<a.of, i>> \in seen.settled

(* What is handed over is what the merchant activated, while it is active:  *)
(* only an execution that had read the automation active, or had verified   *)
(* the texts, before the merchant stopped or changed them slips through.    *)
OnlyReviewedIsSent ==
    [][\A w \in Workers :
          At(w, "sending") /\ run'[w].pc = "accepted" /\ w \notin seen.graced =>
             /\ automation.status = "active"
             /\ automation.checksum = [workflow |-> run[w].row.workflow, content |-> run[w].mail]]_vars
=============================================================================
