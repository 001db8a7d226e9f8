------------------------ MODULE AutomationRunnerProofs ------------------------
(***************************************************************************)
(* Theorems about AutomationRunner for any workers, sources, workflows and  *)
(* templates, and any number of acts and mishaps.                           *)
(***************************************************************************)
EXTENDS AutomationRunner, TLAPS

AutomationRow == [status : {"draft", "ready", "active", "paused"}, version : Nat, workflow : Workflows,
                  checksum : {None} \union [workflow : Workflows, content : Contents]]
JobRecord == [of : Sources, at : Nat, exec : Executions \union {None}, left : Nat, stalled : BOOLEAN,
              owner : Workers \union {None}, state : {"waiting", "active", "completed", "failed"}]
RunRecord == [pc : {"idle", "verify", "node", "compose", "sending", "accepted", "leaving"},
              job : JobIds \union {None}, row : AutomationRow \union {None}, at : Nat,
              found : BOOLEAN, mail : Contents \union {None}]
Seen == [settled : SUBSET (Sources \X Nat), graced : SUBSET Workers, reshaped : BOOLEAN]
Keys == Executions \X Nat \X Nodes
Mail == [key : Keys, of : Sources, at : Nat, content : Contents]

Stored ==
    /\ automation \in AutomationRow /\ content \in Contents /\ seen \in Seen
    /\ acts \in 0 .. MaxActs /\ mishaps \in 0 .. MaxMishaps

(* A job belongs to the execution its trigger started, by its id or by the  *)
(* execution id it carries.                                                 *)
Belongs(id, j) ==
    /\ j.at >= 1
    /\ j.exec = None => id = <<"trigger", j.of>>
    /\ j.exec # None => j.exec = <<"trigger", j.of>>

QueueInv ==
    \A id \in DOMAIN queue : id \in JobIds /\ queue[id] \in JobRecord /\ Belongs(id, queue[id])

(* An execution works on a job of the queue, and on a node that exists.     *)
Sound(r, ids) ==
    /\ r \in RunRecord
    /\ r.pc = "idle" => r = Idle
    /\ r.pc # "idle" => r.job \in ids /\ r.row \in AutomationRow /\ r.at >= 1
    /\ r.pc \in {"compose", "sending", "accepted"} => r.at <= Len(r.row.workflow)
    /\ r.pc = "sending" => r.mail \in Contents

RunInv == run \in [Workers -> RunRecord] /\ \A w \in Workers : Sound(run[w], DOMAIN queue)

LogInv == \A k \in DOMAIN log : k \in Keys /\ log[k] \in {"queued", "sent", "suppressed", "failed"}

(* What was accepted carries the delivery key of its own execution.         *)
MailInv ==
    /\ \A a \in accepted : a \in Mail /\ a.key[1] = <<"trigger", a.of>>
    /\ \A a, b \in accepted : a.key = b.key => a = b
    /\ accepted # {} => DOMAIN queue # {}

TypeInv == Stored /\ QueueInv /\ RunInv /\ LogInv /\ MailInv

(* An execution that no gate closed behind works on what is activated.      *)
Reviewed(w, r, a, c, graced) ==
    r.pc # "idle" /\ w \notin graced =>
        /\ a.status = "active" /\ r.row.workflow = a.workflow /\ r.row.checksum = a.checksum
        /\ r.pc # "verify" => a.checksum = Checksum(a, c)
        /\ r.pc = "sending" => r.mail = c

GraceInv == \A w \in Workers : Reviewed(w, run[w], automation, content, seen.graced)

(* Whatever waits at a position has the e-mails before it settled.          *)
EarlierSettled(settled, workflow, s, at) ==
    \A i \in 1 .. at - 1 : Kind[workflow[i]] = "email" => <<s, i>> \in settled

InSequence(r, q, workflow, settled) ==
    r.pc # "idle" => r.row.workflow = workflow /\ EarlierSettled(settled, workflow, q[r.job].of, r.at)

OrderInv ==
    ~seen.reshaped =>
        /\ \A id \in DOMAIN queue :
             EarlierSettled(seen.settled, automation.workflow, queue[id].of, queue[id].at)
        /\ \A w \in Workers : InSequence(run[w], queue, automation.workflow, seen.settled)
        /\ \A a \in accepted : EarlierSettled(seen.settled, automation.workflow, a.of, a.at)

Inv == TypeInv /\ GraceInv /\ OrderInv

-----------------------------------------------------------------------------
LEMMA IdleTyped == Idle \in RunRecord /\ Idle.pc = "idle"
BY DEF Idle, RunRecord

LEMMA InitInv == Init => Inv
<1> SUFFICES ASSUME Init PROVE Inv
  OBVIOUS
<1> USE AutomationRunnerAssumption DEF Init, SeenInit
<1>1. PICK w \in Workflows :
        automation = [status |-> "active", version |-> 1, workflow |-> w,
                      checksum |-> [workflow |-> w, content |-> content]]
  OBVIOUS
<1>2. automation \in AutomationRow
  BY <1>1 DEF AutomationRow
<1>3. Stored
  BY <1>2 DEF Stored, Seen
<1>4. RunInv
  BY IdleTyped DEF RunInv, Sound
<1>5. QueueInv /\ LogInv /\ MailInv
  BY DEF QueueInv, LogInv, MailInv
<1>6. GraceInv /\ OrderInv
  BY IdleTyped DEF GraceInv, Reviewed, OrderInv, InSequence
<1> QED BY <1>3, <1>4, <1>5, <1>6 DEF Inv, TypeInv

-----------------------------------------------------------------------------
(* The queue *)

LEMMA ExecutionOf ==
    ASSUME TypeInv, NEW w \in Workers, run[w].pc # "idle"
    PROVE  /\ run[w].job \in DOMAIN queue /\ Job(w) \in JobRecord /\ Job(w).of \in Sources
           /\ Execution(w) = <<"trigger", Job(w).of>> /\ Execution(w) \in Executions
<1>1. run[w].job \in DOMAIN queue
  BY DEF TypeInv, RunInv, Sound
<1>2. Job(w) \in JobRecord /\ Belongs(run[w].job, Job(w))
  BY <1>1 DEF TypeInv, QueueInv, Job
<1>3. Job(w).of \in Sources
  BY <1>2 DEF JobRecord
<1>4. Execution(w) = <<"trigger", Job(w).of>>
  BY <1>2 DEF Execution, Belongs
<1> QED BY <1>1, <1>2, <1>3, <1>4 DEF Executions

(* Jobs come and change their state, never what they are for.               *)
QueueGoesOn ==
    /\ DOMAIN queue \subseteq DOMAIN queue'
    /\ \A id \in DOMAIN queue : queue'[id].of = queue[id].of /\ queue'[id].at = queue[id].at

LEMMA JobChanges ==
    ASSUME QueueInv, NEW id \in DOMAIN queue, NEW j \in JobRecord,
           j.of = queue[id].of, j.at = queue[id].at, j.exec = queue[id].exec,
           queue' = [queue EXCEPT ![id] = j]
    PROVE  QueueInv' /\ QueueGoesOn /\ DOMAIN queue' = DOMAIN queue
<1>1. /\ DOMAIN queue' = DOMAIN queue
      /\ \A i \in DOMAIN queue : queue'[i] = IF i = id THEN j ELSE queue[i]
  OBVIOUS
<1>2. QueueInv'
  BY <1>1 DEF QueueInv, Belongs
<1> QED BY <1>1, <1>2 DEF QueueGoesOn

LEMMA ExecutionEnds ==
    ASSUME TypeInv, NEW w \in Workers, run[w].pc # "idle", Finish(w) \/ Fail(w) \/ Retry(w)
    PROVE  run' = [run EXCEPT ![w] = Idle] /\ QueueInv' /\ QueueGoesOn /\ DOMAIN queue' = DOMAIN queue
<1>0. run[w].job \in DOMAIN queue /\ Job(w) \in JobRecord /\ QueueInv
  BY ExecutionOf DEF TypeInv
<1>1. \E j \in JobRecord : /\ Leave(w, j)
                           /\ j.of = Job(w).of /\ j.at = Job(w).at /\ j.exec = Job(w).exec
  <2>1. CASE Finish(w)
    <3>1. [Job(w) EXCEPT !.state = "completed"] \in JobRecord
      BY <1>0 DEF JobRecord
    <3> QED BY <1>0, <2>1, <3>1 DEF Finish, JobRecord
  <2>2. CASE Fail(w) \/ Retry(w)
    <3>1. [Job(w) EXCEPT !.state = "failed"] \in JobRecord
      BY <1>0 DEF JobRecord
    <3>2. ASSUME Job(w).left > 1
          PROVE  [Job(w) EXCEPT !.state = "waiting", !.left = Job(w).left - 1] \in JobRecord
      <4>1. Job(w).left \in Nat /\ Job(w).left - 1 \in Nat
        BY <1>0, <3>2 DEF JobRecord
      <4> QED BY <1>0, <4>1 DEF JobRecord
    <3> QED BY <1>0, <2>2, <3>1, <3>2 DEF Fail, Retry, JobRecord
  <2> QED BY <2>1, <2>2
<1>2. PICK j \in JobRecord : Leave(w, j) /\ j.of = Job(w).of /\ j.at = Job(w).at /\ j.exec = Job(w).exec
  BY <1>1
<1>3. run' = [run EXCEPT ![w] = Idle]
  BY <1>2 DEF Leave
<1>4. queue' = [queue EXCEPT ![run[w].job] = IF Job(w).owner = w THEN j ELSE Job(w)]
  BY <1>2 DEF Leave, Job
<1>5. CASE Job(w).owner = w
  <2>1. queue' = [queue EXCEPT ![run[w].job] = j]
    BY <1>4, <1>5
  <2> QED BY <1>0, <1>2, <1>3, <2>1, JobChanges DEF Job
<1>6. CASE Job(w).owner # w
  <2>1. queue' = [queue EXCEPT ![run[w].job] = Job(w)]
    BY <1>4, <1>6
  <2> QED BY <1>0, <1>3, <2>1, JobChanges DEF Job
<1> QED BY <1>5, <1>6

LEMMA JobAdded ==
    ASSUME QueueInv, NEW id \in JobIds, NEW j \in JobRecord, Belongs(id, j), queue' = Added(queue, id, j)
    PROVE  /\ QueueInv' /\ QueueGoesOn /\ DOMAIN queue' = DOMAIN queue \union {id}
           /\ \A i \in DOMAIN queue' : i \in DOMAIN queue \/ queue'[i] = j
<1>1. CASE id \in DOMAIN queue
  BY <1>1 DEF Added, QueueGoesOn, QueueInv
<1>2. CASE id \notin DOMAIN queue
  <2>1. queue' = [i \in DOMAIN queue \union {id} |-> IF i = id THEN j ELSE queue[i]]
    BY <1>2 DEF Added
  <2> QED BY <1>2, <2>1 DEF QueueGoesOn, QueueInv
<1> QED BY <1>1, <1>2

-----------------------------------------------------------------------------
(* Steps of one worker.  The store is left alone, and what the others do    *)
(* goes on.                                                                 *)

(* History grows and gates open for a new execution only.                   *)
SeenGoesOn(w) ==
    /\ seen' \in Seen /\ seen.settled \subseteq seen'.settled /\ seen'.reshaped = seen.reshaped
    /\ seen'.graced \in {seen.graced, seen.graced \ {w}}

JobsInOrder ==
    ~seen.reshaped =>
        \A id \in DOMAIN queue :
            EarlierSettled(seen.settled, automation.workflow, queue[id].of, queue[id].at)

MailInOrder ==
    ~seen.reshaped =>
        \A a \in accepted : EarlierSettled(seen.settled, automation.workflow, a.of, a.at)

LEMMA WorkerMoves ==
    ASSUME Inv, NEW w \in Workers, NEW v, run' = [run EXCEPT ![w] = v],
           UNCHANGED store, acts' = acts, mishaps' \in 0 .. MaxMishaps,
           SeenGoesOn(w), QueueInv', QueueGoesOn, JobsInOrder', LogInv', MailInv', MailInOrder',
           Sound(v, DOMAIN queue'), Reviewed(w, v, automation, content, seen'.graced),
           ~seen.reshaped => InSequence(v, queue', automation.workflow, seen'.settled)
    PROVE  Inv'
<1>1. /\ run \in [Workers -> RunRecord] /\ v \in RunRecord
      /\ \A u \in Workers : run'[u] = IF u = w THEN v ELSE run[u]
  BY DEF Inv, TypeInv, RunInv, Sound
<1>2. RunInv'
  <2>1. run' \in [Workers -> RunRecord]
    BY <1>1
  <2>2. \A u \in Workers : Sound(run'[u], DOMAIN queue')
    BY <1>1 DEF Inv, TypeInv, RunInv, Sound, QueueGoesOn
  <2> QED BY <2>1, <2>2 DEF RunInv
<1>3. Stored'
  BY DEF Inv, TypeInv, Stored, store, SeenGoesOn
<1>4. GraceInv'
  BY <1>1 DEF Inv, GraceInv, Reviewed, SeenGoesOn, store
<1>5. OrderInv'
  <2> SUFFICES ASSUME ~seen.reshaped
               PROVE  \A u \in Workers : InSequence(run'[u], queue', automation.workflow, seen'.settled)
    BY DEF OrderInv, JobsInOrder, MailInOrder, SeenGoesOn, store
  <2>1. ASSUME NEW u \in Workers, u # w
        PROVE  InSequence(run[u], queue', automation.workflow, seen'.settled)
    BY <2>1 DEF Inv, OrderInv, InSequence, EarlierSettled, SeenGoesOn, QueueGoesOn, TypeInv, RunInv, Sound
  <2> QED BY <1>1, <2>1
<1> QED BY <1>2, <1>3, <1>4, <1>5 DEF Inv, TypeInv

LEMMA JobsStayInOrder ==
    ASSUME Inv, NEW w, UNCHANGED store, SeenGoesOn(w), QueueGoesOn, DOMAIN queue' = DOMAIN queue
    PROVE  JobsInOrder'
BY DEF Inv, OrderInv, JobsInOrder, EarlierSettled, SeenGoesOn, QueueGoesOn, store

LEMMA MailStays ==
    ASSUME Inv, NEW w, UNCHANGED store, SeenGoesOn(w), QueueGoesOn, UNCHANGED accepted
    PROVE  MailInv' /\ MailInOrder'
BY DEF Inv, OrderInv, TypeInv, MailInv, MailInOrder, EarlierSettled, SeenGoesOn, QueueGoesOn, store

LEMMA QueueStays ==
    ASSUME Inv, UNCHANGED queue
    PROVE  QueueInv' /\ QueueGoesOn /\ DOMAIN queue' = DOMAIN queue
BY DEF Inv, TypeInv, QueueInv, QueueGoesOn

LEMMA SeenStays == ASSUME Inv, NEW w, UNCHANGED seen PROVE SeenGoesOn(w)
BY DEF Inv, TypeInv, Stored, SeenGoesOn

(* An execution ends, whatever became of its job.                           *)
LEMMA WorkerRests ==
    ASSUME Inv, NEW w \in Workers, run' = [run EXCEPT ![w] = Idle], UNCHANGED <<store, seen, accepted>>,
           acts' = acts, mishaps' \in 0 .. MaxMishaps,
           QueueInv', QueueGoesOn, DOMAIN queue' = DOMAIN queue, LogInv'
    PROVE  Inv'
<1>1. SeenGoesOn(w)
  BY SeenStays
<1>2. JobsInOrder' /\ MailInv' /\ MailInOrder'
  BY <1>1, JobsStayInOrder, MailStays
<1>3. /\ Sound(Idle, DOMAIN queue') /\ Reviewed(w, Idle, automation, content, seen'.graced)
      /\ InSequence(Idle, queue', automation.workflow, seen'.settled)
  BY IdleTyped DEF Sound, Reviewed, InSequence
<1> QED BY <1>1, <1>2, <1>3, WorkerMoves

-----------------------------------------------------------------------------
(* What an action starts from.                                              *)
LEMMA Facts ==
    ASSUME Inv, NEW w \in Workers
    PROVE  /\ run \in [Workers -> RunRecord] /\ run[w] \in RunRecord /\ Sound(run[w], DOMAIN queue)
           /\ Reviewed(w, run[w], automation, content, seen.graced)
           /\ ~seen.reshaped => InSequence(run[w], queue, automation.workflow, seen.settled)
           /\ automation \in AutomationRow /\ content \in Contents /\ seen \in Seen
           /\ mishaps \in 0 .. MaxMishaps /\ (Mishap => mishaps' \in 0 .. MaxMishaps)
BY AutomationRunnerAssumption DEF Inv, TypeInv, Stored, RunInv, GraceInv, OrderInv, Mishap

LEMMA EndInv ==
    ASSUME Inv, NEW w \in Workers, UNCHANGED <<store, seen, accepted, acts>>,
           Unavailable(w) \/ Die(w) \/ (Condition(w) /\ Finish(w)) \/ Return(w)
    PROVE  Inv'
<1>1. run[w].pc # "idle" /\ UNCHANGED log /\ mishaps' \in 0 .. MaxMishaps
  BY Facts DEF Unavailable, Die, Condition, Return, At, AtNode, bounds
<1>2. LogInv'
  BY <1>1 DEF Inv, TypeInv, LogInv
<1>3. CASE Die(w)
  <2>1. QueueInv' /\ QueueGoesOn /\ DOMAIN queue' = DOMAIN queue
    BY <1>3, QueueStays DEF Die
  <2> QED BY <1>1, <1>2, <1>3, <2>1, WorkerRests DEF Die
<1>4. CASE Finish(w)
  BY <1>1, <1>2, <1>4, ExecutionEnds, WorkerRests DEF Inv
<1> QED BY <1>3, <1>4 DEF Unavailable, Return

LEMMA StartInv == ASSUME Inv, NEW w \in Workers, NEW id \in DOMAIN queue, Start(w, id) PROVE Inv'
<1>1. /\ UNCHANGED <<store, log, accepted, bounds>> /\ queue[id] \in JobRecord /\ Belongs(id, queue[id])
      /\ id \in JobIds
  BY DEF Start, Inv, TypeInv, QueueInv
<1>2. SeenGoesOn(w) /\ seen'.graced = seen.graced \ {w} /\ seen'.settled = seen.settled
  BY Facts DEF Start, SeenGoesOn, Seen
<1>3. LogInv' /\ mishaps' \in 0 .. MaxMishaps /\ acts' = acts
  BY <1>1, Facts DEF Inv, TypeInv, LogInv, bounds
<1>4. CASE automation.status = "active"
  <2> DEFINE v == [Idle EXCEPT !.pc = "verify", !.job = id, !.row = automation, !.at = queue[id].at]
             j == [queue[id] EXCEPT !.state = "active", !.owner = w]
  <2>1. run' = [run EXCEPT ![w] = v]
    BY <1>4 DEF Start
  <2>2. /\ v \in RunRecord /\ v.pc = "verify" /\ v.job = id /\ v.row = automation /\ v.at = queue[id].at
        /\ v.at >= 1
    <3>1. queue[id].at \in Nat /\ queue[id].at >= 1
      BY <1>1 DEF JobRecord, Belongs
    <3> QED BY <1>1, <3>1, IdleTyped, Facts DEF RunRecord
  <2> HIDE DEF v
  <2>3. queue' = [queue EXCEPT ![id] = j]
    BY <1>4 DEF Start
  <2>4. j \in JobRecord /\ j.of = queue[id].of /\ j.at = queue[id].at /\ j.exec = queue[id].exec
    BY <1>1 DEF JobRecord
  <2> HIDE DEF j
  <2>5. QueueInv' /\ QueueGoesOn /\ DOMAIN queue' = DOMAIN queue
    BY <2>3, <2>4, JobChanges DEF Inv, TypeInv
  <2>6. JobsInOrder' /\ MailInv' /\ MailInOrder'
    BY <1>1, <1>2, <2>5, JobsStayInOrder, MailStays
  <2>7. Sound(v, DOMAIN queue') /\ Reviewed(w, v, automation, content, seen'.graced)
    BY <1>4, <2>2, <2>5, Facts DEF Sound, Reviewed
  <2>8. ~seen.reshaped => InSequence(v, queue', automation.workflow, seen'.settled)
    BY <1>2, <2>2, <2>5 DEF Inv, OrderInv, InSequence, EarlierSettled, QueueGoesOn
  <2> QED BY <1>1, <1>2, <1>3, <2>1, <2>5, <2>6, <2>7, <2>8, WorkerMoves
<1>5. CASE automation.status # "active"
  <2> DEFINE j == [queue[id] EXCEPT !.state = "completed"]
  <2>1. queue' = [queue EXCEPT ![id] = j] /\ run' = run
    BY <1>5 DEF Start
  <2>2. j \in JobRecord /\ j.of = queue[id].of /\ j.at = queue[id].at /\ j.exec = queue[id].exec
    BY <1>1 DEF JobRecord
  <2> HIDE DEF j
  <2>3. QueueInv' /\ QueueGoesOn /\ DOMAIN queue' = DOMAIN queue
    BY <2>1, <2>2, JobChanges DEF Inv, TypeInv
  <2>4. JobsInOrder' /\ MailInv' /\ MailInOrder'
    BY <1>1, <1>2, <2>3, JobsStayInOrder, MailStays
  <2>5. run' = [run EXCEPT ![w] = run[w]]
    BY <2>1, Facts
  <2>6. run[w].pc = "idle"
    BY DEF Start, At
  <2>7. /\ Sound(run[w], DOMAIN queue') /\ Reviewed(w, run[w], automation, content, seen'.graced)
        /\ InSequence(run[w], queue', automation.workflow, seen'.settled)
    BY <2>3, <2>6, Facts DEF Reviewed, InSequence
  <2> QED BY <1>1, <1>2, <1>3, <2>3, <2>4, <2>5, <2>7, WorkerMoves
<1> QED BY <1>4, <1>5

(* A step that keeps job, row and position of its execution.                *)
LEMMA PointMoves ==
    ASSUME Inv, NEW w \in Workers, NEW v \in RunRecord, run' = [run EXCEPT ![w] = v],
           run[w].pc # "idle", v.pc # "idle", v.pc # "verify",
           v.job = run[w].job, v.row = run[w].row, v.at = run[w].at,
           v.pc \in {"compose", "sending", "accepted"} => run[w].at <= Len(run[w].row.workflow),
           v.pc = "sending" => v.mail = content,
           run[w].pc = "verify" => run[w].row.checksum = Checksum(automation, content),
           UNCHANGED <<store, seen, accepted, acts>>, mishaps' \in 0 .. MaxMishaps,
           QueueInv', QueueGoesOn, JobsInOrder', LogInv'
    PROVE  Inv'
<1>1. SeenGoesOn(w) /\ seen' = seen
  BY SeenStays
<1>2. MailInv' /\ MailInOrder'
  BY <1>1, MailStays
<1>3. run[w].job \in DOMAIN queue
  BY Facts DEF Sound
<1>4. Sound(v, DOMAIN queue')
  BY <1>3, Facts DEF Sound, QueueGoesOn
<1>5. Reviewed(w, v, automation, content, seen'.graced)
  BY <1>1, Facts DEF Reviewed
<1>6. ~seen.reshaped => InSequence(v, queue', automation.workflow, seen'.settled)
  BY <1>1, <1>3, Facts DEF InSequence, EarlierSettled, QueueGoesOn
<1> QED BY <1>1, <1>2, <1>4, <1>5, <1>6, WorkerMoves

(* The same with the queue as it is.                                        *)
LEMMA PointMovesAlone ==
    ASSUME Inv, NEW w \in Workers, NEW v \in RunRecord, run' = [run EXCEPT ![w] = v],
           run[w].pc # "idle", v.pc # "idle", v.pc # "verify",
           v.job = run[w].job, v.row = run[w].row, v.at = run[w].at,
           v.pc \in {"compose", "sending", "accepted"} => run[w].at <= Len(run[w].row.workflow),
           v.pc = "sending" => v.mail = content,
           run[w].pc = "verify" => run[w].row.checksum = Checksum(automation, content),
           UNCHANGED <<store, queue, seen, accepted, acts>>, mishaps' \in 0 .. MaxMishaps, LogInv'
    PROVE  Inv'
<1>1. SeenGoesOn(w)
  BY SeenStays
<1>2. QueueInv' /\ QueueGoesOn /\ DOMAIN queue' = DOMAIN queue
  BY QueueStays
<1>3. JobsInOrder'
  BY <1>1, <1>2, JobsStayInOrder
<1> QED BY <1>2, <1>3, PointMoves

(* The log stays typed when an execution writes its node's outcome.         *)
LEMMA LogTyped ==
    ASSUME Inv, NEW w \in Workers, run[w].pc # "idle", run[w].at <= Len(run[w].row.workflow),
           NEW status \in {"queued", "sent", "suppressed", "failed"}, log' = Logged(status, w)
    PROVE  LogInv' /\ DeliveryKey(w) \in Keys
<1>1. Execution(w) \in Executions
  BY ExecutionOf DEF Inv
<1>2. run[w].row \in AutomationRow /\ run[w].at >= 1 /\ run[w].at \in Nat
  BY Facts DEF Sound, RunRecord
<1>3. run[w].row.version \in Nat /\ run[w].row.workflow \in Seq(Nodes)
  BY <1>2, AutomationRunnerAssumption DEF AutomationRow
<1>4. Node(w) \in Nodes
  BY <1>2, <1>3 DEF Node
<1>5. DeliveryKey(w) \in Keys
  BY <1>1, <1>3, <1>4 DEF DeliveryKey, Keys
<1> QED BY <1>5 DEF Inv, TypeInv, LogInv, Logged

LEMMA LogStays == ASSUME Inv, UNCHANGED log PROVE LogInv'
BY DEF Inv, TypeInv, LogInv

(* An execution moves on to the next node.                                  *)
LEMMA MovesOn ==
    ASSUME Inv, NEW w \in Workers, run' = Advanced(w), run[w].pc \notin {"idle", "verify"},
           UNCHANGED <<store, queue, accepted, acts>>, mishaps' \in 0 .. MaxMishaps, LogInv',
           SeenGoesOn(w), seen'.graced = seen.graced,
           Kind[Node(w)] = "email" => <<Job(w).of, run[w].at>> \in seen'.settled
    PROVE  Inv'
<1> DEFINE v == [run[w] EXCEPT !.at = @ + 1, !.pc = "node", !.found = FALSE, !.mail = None]
<1>1. run' = [run EXCEPT ![w] = v]
  BY DEF Advanced
<1>2. /\ v \in RunRecord /\ v.pc = "node" /\ v.at = run[w].at + 1
      /\ v.job = run[w].job /\ v.row = run[w].row
  <2>1. run[w] \in RunRecord /\ run[w].at \in Nat /\ run[w].at + 1 \in Nat
    BY Facts DEF RunRecord
  <2> QED BY <2>1 DEF RunRecord
<1> HIDE DEF v
<1>3. QueueInv' /\ QueueGoesOn /\ DOMAIN queue' = DOMAIN queue
  BY QueueStays
<1>4. JobsInOrder' /\ MailInv' /\ MailInOrder'
  BY <1>3, JobsStayInOrder, MailStays
<1>5. Sound(v, DOMAIN queue') /\ run[w].at \in Nat
  BY <1>2, <1>3, Facts DEF Sound, RunRecord
<1>6. Reviewed(w, v, automation, content, seen'.graced)
  BY <1>2, Facts DEF Reviewed
<1>7. ~seen.reshaped => InSequence(v, queue', automation.workflow, seen'.settled)
  <2> SUFFICES ASSUME ~seen.reshaped, NEW i \in 1 .. v.at - 1, Kind[automation.workflow[i]] = "email"
               PROVE  <<queue[run[w].job].of, i>> \in seen'.settled
    BY <1>2, Facts DEF InSequence, EarlierSettled
  <2>1. /\ run[w].row.workflow = automation.workflow
        /\ EarlierSettled(seen.settled, automation.workflow, queue[run[w].job].of, run[w].at)
    BY Facts DEF InSequence
  <2>2. CASE i = run[w].at
    BY <2>1, <2>2 DEF Node, Job
  <2>3. CASE i # run[w].at
    <3>1. i \in 1 .. run[w].at - 1
      BY <1>2, <1>5, <2>3
    <3> QED BY <2>1, <3>1 DEF EarlierSettled, SeenGoesOn
  <2> QED BY <2>2, <2>3
<1> QED BY <1>1, <1>3, <1>4, <1>5, <1>6, <1>7, WorkerMoves

(* ... having settled an e-mail.                                            *)
LEMMA AdvanceInv ==
    ASSUME Inv, NEW w \in Workers, Advance(w), run[w].pc \notin {"idle", "verify"},
           UNCHANGED <<store, queue, accepted, acts>>, mishaps' \in 0 .. MaxMishaps, LogInv'
    PROVE  Inv'
<1>1. Job(w).of \in Sources /\ run[w].at \in Nat /\ seen \in Seen
  BY ExecutionOf, Facts DEF Inv, RunRecord
<1>2. seen' = [seen EXCEPT !.settled = @ \union {<<Job(w).of, run[w].at>>}] /\ run' = Advanced(w)
  BY DEF Advance, Settled
<1>3. SeenGoesOn(w) /\ seen'.graced = seen.graced /\ <<Job(w).of, run[w].at>> \in seen'.settled
  BY <1>1, <1>2 DEF SeenGoesOn, Seen
<1> QED BY <1>2, <1>3, MovesOn

LEMMA AtEmail ==
    ASSUME Inv, NEW w \in Workers, NEW kind, AtNode(w, kind)
    PROVE  /\ run[w].pc = "node" /\ run[w].pc # "idle" /\ run[w].at <= Len(run[w].row.workflow)
           /\ Kind[Node(w)] = kind
BY DEF AtNode, At

LEMMA BeginInv == ASSUME Inv, NEW w \in Workers, Begin(w) PROVE Inv'
<1>1. /\ UNCHANGED <<store, queue, log, accepted, bounds>> /\ acts' = acts
      /\ mishaps' \in 0 .. MaxMishaps /\ LogInv'
  BY Facts, LogStays DEF Begin, bounds
<1>2. run[w].pc = "node" /\ run[w].at <= Len(run[w].row.workflow)
  BY AtEmail DEF Begin
<1>3. CASE Resolved(w)
  BY <1>1, <1>2, <1>3, AdvanceInv DEF Begin
<1>4. CASE ~Resolved(w)
  <2> DEFINE found == DeliveryKey(w) \in DOMAIN log
             v == [run[w] EXCEPT !.pc = "compose", !.found = found]
  <2>1. run' = [run EXCEPT ![w] = v] /\ seen' = seen
    BY <1>4 DEF Begin
  <2>3. found \in BOOLEAN
    BY SMT
  <2> HIDE DEF found
  <2>2. /\ v \in RunRecord /\ v.pc = "compose"
        /\ v.job = run[w].job /\ v.row = run[w].row /\ v.at = run[w].at
    BY <2>3, Facts DEF RunRecord
  <2> HIDE DEF v
  <2> QED BY <1>1, <1>2, <2>1, <2>2, PointMovesAlone
<1> QED BY <1>3, <1>4

LEMMA SuppressInv == ASSUME Inv, NEW w \in Workers, Suppress(w) PROVE Inv'
<1>1. run[w].pc = "node" /\ run[w].at <= Len(run[w].row.workflow) /\ mishaps' \in 0 .. MaxMishaps
  BY AtEmail, Facts DEF Suppress
<1>2. LogInv'
  BY <1>1, LogTyped DEF Suppress
<1> QED BY <1>1, <1>2, AdvanceInv DEF Suppress

LEMMA ComposeInv == ASSUME Inv, NEW w \in Workers, Compose(w) PROVE Inv'
<1>1. /\ UNCHANGED <<store, accepted, bounds>> /\ acts' = acts /\ mishaps' \in 0 .. MaxMishaps
      /\ run[w].pc = "compose" /\ run[w].at <= Len(run[w].row.workflow)
  BY Facts DEF Compose, bounds, At, Sound
<1>2. CASE Advance(w) /\ UNCHANGED <<queue, log>>
  BY <1>1, <1>2, LogStays, AdvanceInv
<1>3. CASE /\ log' = Logged("queued", w) /\ UNCHANGED <<queue, seen>>
           /\ run' = [run EXCEPT ![w].pc = "sending", ![w].mail = content]
  <2> DEFINE v == [run[w] EXCEPT !.pc = "sending", !.mail = content]
  <2>1. run' = [run EXCEPT ![w] = v]
    BY <1>3
  <2>2. /\ v \in RunRecord /\ v.pc = "sending" /\ v.mail = content
        /\ v.job = run[w].job /\ v.row = run[w].row /\ v.at = run[w].at
    BY Facts DEF RunRecord
  <2> HIDE DEF v
  <2>3. LogInv'
    BY <1>1, <1>3, LogTyped
  <2> QED BY <1>1, <1>3, <2>1, <2>2, <2>3, PointMovesAlone
<1>4. CASE Retry(w) /\ UNCHANGED <<log, seen>>
  BY <1>1, <1>4, LogStays, ExecutionEnds, WorkerRests DEF Inv
<1> QED BY <1>2, <1>3, <1>4 DEF Compose

LEMMA RefusedInv == ASSUME Inv, NEW w \in Workers, Refuse(w) \/ Reject(w) PROVE Inv'
<1>1. /\ UNCHANGED <<store, accepted, seen, acts>> /\ mishaps' \in 0 .. MaxMishaps
      /\ run[w].pc = "sending" /\ run[w].at <= Len(run[w].row.workflow)
  BY Facts DEF Refuse, Reject, At, Sound
<1>2. LogInv'
  BY <1>1, LogTyped DEF Refuse, Reject
<1>3. Retry(w) \/ Fail(w)
  BY DEF Refuse, Reject
<1> QED BY <1>1, <1>2, <1>3, ExecutionEnds, WorkerRests DEF Inv

LEMMA RecordSentInv == ASSUME Inv, NEW w \in Workers, RecordSent(w) PROVE Inv'
<1>1. /\ run[w].pc = "accepted" /\ run[w].at <= Len(run[w].row.workflow)
      /\ acts' = acts /\ mishaps' \in 0 .. MaxMishaps
  BY Facts DEF RecordSent, At, Sound, bounds
<1>2. LogInv'
  BY <1>1, LogTyped DEF RecordSent
<1> QED BY <1>1, <1>2, AdvanceInv DEF RecordSent

LEMMA HandOverInv == ASSUME Inv, NEW w \in Workers, HandOver(w) PROVE Inv'
<1> DEFINE v == [run[w] EXCEPT !.pc = "accepted"]
           a == [key |-> DeliveryKey(w), of |-> Job(w).of, at |-> run[w].at, content |-> run[w].mail]
<1>1. /\ UNCHANGED <<store, queue, log, seen, bounds>> /\ acts' = acts /\ mishaps' \in 0 .. MaxMishaps
      /\ run[w].pc = "sending" /\ run[w].at <= Len(run[w].row.workflow) /\ run[w].mail \in Contents
      /\ run[w].at \in Nat /\ run[w].at >= 1 /\ run[w].job \in DOMAIN queue
  BY Facts DEF HandOver, bounds, At, Sound, RunRecord
<1>2. run' = [run EXCEPT ![w] = v]
  BY DEF HandOver
<1>3. /\ v \in RunRecord /\ v.pc = "accepted"
      /\ v.job = run[w].job /\ v.row = run[w].row /\ v.at = run[w].at
  BY Facts DEF RunRecord
<1> HIDE DEF v
<1>4. LogInv' /\ SeenGoesOn(w) /\ QueueInv' /\ QueueGoesOn /\ DOMAIN queue' = DOMAIN queue
  BY <1>1, LogStays, SeenStays, QueueStays
<1>5. JobsInOrder'
  BY <1>1, <1>4, JobsStayInOrder
<1>6. DeliveryKey(w) \in Keys
  <2>1. run[w].pc # "idle"
    BY <1>1
  <2>2. run[w].row \in AutomationRow /\ Execution(w) \in Executions
    BY <2>1, Facts, ExecutionOf DEF Sound, Inv
  <2>3. run[w].row.version \in Nat /\ run[w].row.workflow \in Seq(Nodes)
    BY <2>2, AutomationRunnerAssumption DEF AutomationRow
  <2>4. Node(w) \in Nodes
    BY <1>1, <2>3 DEF Node
  <2> QED BY <2>2, <2>3, <2>4 DEF DeliveryKey, Keys
<1>7. /\ a \in Mail /\ a.key = DeliveryKey(w) /\ a.key[1] = <<"trigger", a.of>>
      /\ a.of = queue[run[w].job].of /\ a.at = run[w].at
  <2>1. Job(w).of \in Sources /\ Execution(w) = <<"trigger", Job(w).of>>
    BY <1>1, ExecutionOf DEF Inv
  <2>2. a \in Mail
    BY <1>1, <1>6, <2>1 DEF Mail
  <2> QED BY <2>1, <2>2 DEF DeliveryKey, Job
<1>8. accepted' = accepted \/ ((\A b \in accepted : b.key # a.key) /\ accepted' = accepted \union {a})
  BY DEF HandOver
<1> HIDE DEF a
<1>9. MailInv'
  BY <1>1, <1>7, <1>8 DEF Inv, TypeInv, MailInv
<1>10. ~seen.reshaped => EarlierSettled(seen.settled, automation.workflow, a.of, a.at)
  BY <1>1, <1>7, Facts DEF InSequence
<1>11. MailInOrder'
  BY <1>1, <1>8, <1>10 DEF Inv, OrderInv, MailInOrder, store, EarlierSettled
<1>12. Sound(v, DOMAIN queue') /\ Reviewed(w, v, automation, content, seen'.graced)
  BY <1>1, <1>3, Facts DEF Sound, Reviewed
<1>13. ~seen.reshaped => InSequence(v, queue', automation.workflow, seen'.settled)
  BY <1>1, <1>3, Facts DEF InSequence, EarlierSettled
<1> QED BY <1>1, <1>2, <1>4, <1>5, <1>9, <1>11, <1>12, <1>13, WorkerMoves

LEMMA VerifyInv == ASSUME Inv, NEW w \in Workers, Verify(w) PROVE Inv'
<1>1. /\ UNCHANGED <<content, log, accepted, bounds>> /\ acts' = acts /\ mishaps' \in 0 .. MaxMishaps
      /\ run[w].pc = "verify" /\ LogInv'
  BY Facts, LogStays DEF Verify, bounds, At
<1>2. CASE Unchanged(w)
  <2> DEFINE v == [run[w] EXCEPT !.pc = "node"]
  <2>1. run' = [run EXCEPT ![w] = v] /\ UNCHANGED <<store, queue, seen>>
    BY <1>1, <1>2 DEF Verify, store
  <2>2. v \in RunRecord /\ v.pc = "node" /\ v.job = run[w].job /\ v.row = run[w].row /\ v.at = run[w].at
    BY Facts DEF RunRecord
  <2> HIDE DEF v
  <2>3. run[w].row.checksum = Checksum(automation, content)
    BY <1>2 DEF Unchanged
  <2> QED BY <1>1, <2>1, <2>2, <2>3, PointMovesAlone
<1>3. CASE ~Unchanged(w)
  <2>1. /\ automation' = [automation EXCEPT !.status = "paused", !.checksum = None] /\ Retry(w)
        /\ seen' = [seen EXCEPT !.graced = @ \union Running]
    BY <1>3 DEF Verify, Stopped
  <2>2. /\ automation' \in AutomationRow /\ automation'.workflow = automation.workflow
        /\ seen' \in Seen /\ seen'.settled = seen.settled /\ seen'.reshaped = seen.reshaped
        /\ Running \subseteq seen'.graced
    BY <2>1, Facts DEF AutomationRow, Seen, Running
  <2>3. run' = [run EXCEPT ![w] = Idle] /\ QueueInv' /\ QueueGoesOn /\ DOMAIN queue' = DOMAIN queue
    BY <1>1, <2>1, ExecutionEnds DEF Inv
  <2>4. /\ run' \in [Workers -> RunRecord]
        /\ \A u \in Workers : run'[u] = IF u = w THEN Idle ELSE run[u]
    BY <2>3, IdleTyped, Facts
  <2>5. Stored'
    BY <1>1, <2>2 DEF Inv, TypeInv, Stored
  <2>6. RunInv'
    BY <2>3, <2>4, IdleTyped DEF Inv, TypeInv, RunInv, Sound
  <2>7. MailInv'
    BY <1>1, <2>3 DEF Inv, TypeInv, MailInv
  <2>8. GraceInv'
    BY <2>2, <2>4, IdleTyped DEF GraceInv, Reviewed, Running, At
  <2>9. OrderInv'
    <3> SUFFICES ASSUME ~seen.reshaped PROVE OrderInv'
      BY <2>2 DEF OrderInv
    <3>1. \A id \in DOMAIN queue' :
            EarlierSettled(seen'.settled, automation'.workflow, queue'[id].of, queue'[id].at)
      BY <2>2, <2>3 DEF Inv, OrderInv, QueueGoesOn
    <3>2. \A u \in Workers : InSequence(run'[u], queue', automation'.workflow, seen'.settled)
      BY <2>2, <2>3, <2>4, IdleTyped DEF Inv, OrderInv, InSequence, TypeInv, RunInv, Sound, QueueGoesOn
    <3>3. \A a \in accepted' : EarlierSettled(seen'.settled, automation'.workflow, a.of, a.at)
      BY <1>1, <2>2 DEF Inv, OrderInv
    <3> QED BY <3>1, <3>2, <3>3 DEF OrderInv
  <2> QED BY <1>1, <2>3, <2>5, <2>6, <2>7, <2>8, <2>9 DEF Inv, TypeInv
<1> QED BY <1>2, <1>3

LEMMA ConditionInv == ASSUME Inv, NEW w \in Workers, Condition(w) PROVE Inv'
<1>1. /\ UNCHANGED <<store, log, accepted, seen, bounds>> /\ acts' = acts /\ mishaps' \in 0 .. MaxMishaps
      /\ run[w].pc = "node" /\ Kind[Node(w)] = "condition"
  BY AtEmail, Facts DEF Condition, bounds
<1>2. CASE Finish(w)
  BY <1>1, <1>2, EndInv
<1>3. CASE run' = Advanced(w) /\ UNCHANGED queue
  BY <1>1, <1>3, LogStays, SeenStays, MovesOn
<1> QED BY <1>2, <1>3 DEF Condition

(* A job for a later time is added, at the node or behind it, and the       *)
(* execution leaves.                                                        *)
LEMMA LeavesJob ==
    ASSUME Inv, NEW w \in Workers, run[w].pc = "node", NEW id \in JobIds,
           NEW at \in Nat, at >= 1,
           ~seen.reshaped => EarlierSettled(seen.settled, automation.workflow, Job(w).of, at),
           NEW n \in Nat, queue' = Added(queue, id, NewJob(Job(w).of, at, Execution(w), n)),
           run' = [run EXCEPT ![w].pc = "leaving"],
           UNCHANGED <<store, log, accepted, seen, acts>>, mishaps' \in 0 .. MaxMishaps
    PROVE  Inv'
<1> DEFINE v == [run[w] EXCEPT !.pc = "leaving"]
           j == NewJob(Job(w).of, at, Execution(w), n)
<1>1. run' = [run EXCEPT ![w] = v] /\ queue' = Added(queue, id, j)
  OBVIOUS
<1>2. v \in RunRecord /\ v.pc = "leaving" /\ v.job = run[w].job /\ v.row = run[w].row /\ v.at = run[w].at
  BY Facts DEF RunRecord
<1>3. /\ Job(w).of \in Sources /\ Execution(w) = <<"trigger", Job(w).of>> /\ Execution(w) \in Executions
      /\ Execution(w) # None
  BY ExecutionOf, AutomationRunnerAssumption DEF Inv
<1>4. j \in JobRecord /\ j.at = at /\ j.of = Job(w).of /\ j.exec = Execution(w)
  BY <1>3 DEF NewJob, JobRecord
<1> HIDE DEF v, j
<1>5. Belongs(id, j)
  BY <1>3, <1>4 DEF Belongs
<1>6. /\ QueueInv' /\ QueueGoesOn
      /\ \A i \in DOMAIN queue' : i \in DOMAIN queue \/ queue'[i] = j
  BY <1>1, <1>4, <1>5, JobAdded DEF Inv, TypeInv
<1>7. JobsInOrder'
  BY <1>4, <1>6 DEF Inv, OrderInv, JobsInOrder, QueueGoesOn, store
<1> QED BY <1>1, <1>2, <1>6, <1>7, LogStays, PointMoves

LEMMA WaitInv == ASSUME Inv, NEW w \in Workers, Wait(w) PROVE Inv'
<1>1. /\ run[w].pc = "node" /\ Kind[Node(w)] = "wait" /\ Execution(w) \in Executions
      /\ run[w].at \in Nat /\ run[w].at + 1 \in Nat /\ run[w].at + 1 >= 1
      /\ acts' = acts /\ mishaps' \in 0 .. MaxMishaps
  BY AtEmail, Facts, ExecutionOf DEF Wait, bounds, RunRecord, Inv
<1>2. <<"continue", Execution(w), run[w].at + 1>> \in JobIds
  BY <1>1 DEF JobIds
<1>3. ASSUME ~seen.reshaped
      PROVE  EarlierSettled(seen.settled, automation.workflow, Job(w).of, run[w].at + 1)
  <2>1. /\ run[w].row.workflow = automation.workflow
        /\ EarlierSettled(seen.settled, automation.workflow, Job(w).of, run[w].at)
    BY <1>1, <1>3, Facts DEF InSequence, Job
  <2>2. ASSUME NEW i \in 1 .. (run[w].at + 1) - 1, i # run[w].at PROVE i \in 1 .. run[w].at - 1
    BY <1>1, <2>2
  <2>3. Kind[automation.workflow[run[w].at]] # "email"
    BY <1>1, <2>1 DEF Node
  <2> QED BY <2>1, <2>2, <2>3 DEF EarlierSettled
<1> QED BY <1>1, <1>2, <1>3, LeavesJob DEF Wait

LEMMA DeferInv == ASSUME Inv, NEW w \in Workers, NEW n \in Nights, Defer(w, n) PROVE Inv'
<1>1. /\ run[w].pc = "node" /\ Execution(w) \in Executions
      /\ run[w].at \in Nat /\ run[w].at >= 1 /\ mishaps' \in 0 .. MaxMishaps
  BY AtEmail, Facts, ExecutionOf DEF Defer, RunRecord, Sound, Inv
<1>2. <<"quiet", Execution(w), run[w].at, n>> \in JobIds
  BY <1>1 DEF JobIds
<1>3. ~seen.reshaped => EarlierSettled(seen.settled, automation.workflow, Job(w).of, run[w].at)
  BY <1>1, Facts DEF InSequence, Job
<1> QED BY <1>1, <1>2, <1>3, LeavesJob DEF Defer

-----------------------------------------------------------------------------
(* Steps of the queue and of the merchant *)

LEMMA QueueMoves ==
    ASSUME Inv, UNCHANGED <<store, run, log, accepted, seen, acts>>, mishaps' \in 0 .. MaxMishaps,
           QueueInv', QueueGoesOn, JobsInOrder'
    PROVE  Inv'
<1>1. Stored' /\ LogInv'
  BY LogStays DEF Inv, TypeInv, Stored, store
<1>2. RunInv'
  BY DEF Inv, TypeInv, RunInv, Sound, QueueGoesOn
<1>3. MailInv'
  BY DEF Inv, TypeInv, MailInv, QueueGoesOn
<1>4. GraceInv'
  BY DEF Inv, GraceInv, store
<1>5. OrderInv'
  BY DEF Inv, TypeInv, RunInv, Sound, OrderInv, JobsInOrder, InSequence, QueueGoesOn, store
<1> QED BY <1>1, <1>2, <1>3, <1>4, <1>5 DEF Inv, TypeInv

LEMMA TriggerInv == ASSUME Inv, NEW s \in Sources, Trigger(s) PROVE Inv'
<1> DEFINE id == <<"trigger", s>>
           j == NewJob(s, 1, None, Attempts[s])
<1>1. /\ UNCHANGED <<store, run, log, accepted, seen, acts>> /\ mishaps' \in 0 .. MaxMishaps
      /\ queue' = Added(queue, id, j)
  BY DEF Trigger, bounds, Inv, TypeInv, Stored
<1>2. id \in JobIds
  BY DEF JobIds, Executions
<1>3. j \in JobRecord /\ Belongs(id, j) /\ j.at = 1
  BY AutomationRunnerAssumption DEF NewJob, JobRecord, Belongs
<1> HIDE DEF id, j
<1>4. /\ QueueInv' /\ QueueGoesOn
      /\ \A i \in DOMAIN queue' : i \in DOMAIN queue \/ queue'[i] = j
  BY <1>1, <1>2, <1>3, JobAdded DEF Inv, TypeInv
<1>5. JobsInOrder'
  BY <1>1, <1>3, <1>4 DEF Inv, OrderInv, JobsInOrder, QueueGoesOn, store, EarlierSettled
<1> QED BY <1>1, <1>4, <1>5, QueueMoves

LEMMA StallInv == ASSUME Inv, NEW id \in DOMAIN queue, Stall(id) PROVE Inv'
<1>0. PICK state \in {"failed", "waiting"} :
        queue' = [queue EXCEPT ![id].owner = None, ![id].stalled = TRUE, ![id].state = state]
  <2>1. CASE queue[id].stalled
    BY <2>1 DEF Stall
  <2>2. CASE ~queue[id].stalled
    BY <2>2 DEF Stall
  <2> QED BY <2>1, <2>2
<1> DEFINE j == [queue[id] EXCEPT !.owner = None, !.stalled = TRUE, !.state = state]
<1>1. /\ UNCHANGED <<store, run, log, accepted, seen, acts>> /\ mishaps' \in 0 .. MaxMishaps
      /\ queue' = [queue EXCEPT ![id] = j]
  <2>1. mishaps \in 0 .. MaxMishaps /\ (Mishap => mishaps' \in 0 .. MaxMishaps)
    BY AutomationRunnerAssumption DEF Inv, TypeInv, Stored, Mishap
  <2>2. Mishap \/ UNCHANGED mishaps
    BY Zenon DEF Stall
  <2>3. queue' = [queue EXCEPT ![id] = j]
    BY <1>0
  <2> QED BY <2>1, <2>2, <2>3 DEF Stall
<1>2. queue[id] \in JobRecord
  BY DEF Inv, TypeInv, QueueInv
<1>3. j \in JobRecord /\ j.of = queue[id].of /\ j.at = queue[id].at /\ j.exec = queue[id].exec
  BY <1>2 DEF JobRecord
<1> HIDE DEF j
<1>4. QueueInv' /\ QueueGoesOn
  BY <1>1, <1>3, JobChanges DEF Inv, TypeInv
<1>5. JobsInOrder'
  BY <1>1, <1>4 DEF Inv, OrderInv, JobsInOrder, QueueGoesOn, QueueInv, store, TypeInv
<1> QED BY <1>1, <1>4, <1>5, QueueMoves

(* The merchant may change the nodes under nobody, or the history says so.  *)
LEMMA StoreMoves ==
    ASSUME Inv, UNCHANGED <<queue, run, log, accepted, mishaps>>, acts' \in 0 .. MaxActs,
           automation' \in AutomationRow, content' \in Contents,
           seen' \in Seen, seen'.settled = seen.settled, seen.reshaped => seen'.reshaped,
           ~seen'.reshaped => automation'.workflow = automation.workflow \/ DOMAIN queue = {},
           GraceInv'
    PROVE  Inv'
<1>1. Stored' /\ QueueInv' /\ RunInv' /\ LogInv' /\ MailInv'
  BY QueueStays, LogStays DEF Inv, TypeInv, Stored, RunInv, MailInv
<1>2. OrderInv'
  <2> SUFFICES ASSUME ~seen'.reshaped PROVE OrderInv'
    BY DEF OrderInv
  <2>1. CASE automation'.workflow = automation.workflow
    BY <2>1 DEF Inv, OrderInv
  <2>2. CASE DOMAIN queue = {}
    <3>1. (\A w \in Workers : run[w].pc = "idle") /\ accepted = {}
      BY <2>2 DEF Inv, TypeInv, RunInv, Sound, MailInv
    <3> QED BY <2>2, <3>1 DEF OrderInv, InSequence
  <2> QED BY <2>1, <2>2
<1> QED BY <1>1, <1>2 DEF Inv, TypeInv

(* A gate closed behind every execution leaves nobody to answer for.        *)
LEMMA AllGraced ==
    ASSUME UNCHANGED run, Running \subseteq seen'.graced
    PROVE  GraceInv'
BY DEF GraceInv, Reviewed, Running, At

LEMMA MerchantInv == ASSUME Inv, Merchant PROVE Inv'
<1>1. /\ automation \in AutomationRow /\ content \in Contents /\ seen \in Seen
      /\ acts \in 0 .. MaxActs /\ (Act => acts' \in 0 .. MaxActs)
      /\ automation.version + 1 \in Nat /\ Checksum(automation, content) \in [workflow : Workflows, content : Contents]
  BY AutomationRunnerAssumption DEF Inv, TypeInv, Stored, Act, AutomationRow, Checksum
<1>2. Running \subseteq Workers /\ Verified \subseteq Running
  BY DEF Running, Verified
<1>3. ASSUME NEW f \in Workflows, Update(f) PROVE Inv'
  <2>1. automation' \in AutomationRow /\ automation'.workflow = f
    BY <1>1, <1>3 DEF Update, AutomationRow
  <2>2. \E b \in BOOLEAN : /\ b <=> (seen.reshaped \/ (f # automation.workflow /\ DOMAIN queue # {}))
                           /\ seen' = [seen EXCEPT !.graced = @ \union Running, !.reshaped = b]
    BY <1>3 DEF Update
  <2>3. PICK b \in BOOLEAN : /\ b <=> (seen.reshaped \/ (f # automation.workflow /\ DOMAIN queue # {}))
                             /\ seen' = [seen EXCEPT !.graced = @ \union Running, !.reshaped = b]
    BY <2>2
  <2>4. /\ seen' \in Seen /\ seen'.settled = seen.settled /\ seen'.reshaped = b
        /\ Running \subseteq seen'.graced
    BY <1>1, <1>2, <2>3 DEF Seen
  <2>5. GraceInv'
    BY <1>3, <2>4, AllGraced DEF Update
  <2> QED BY <1>1, <1>3, <2>1, <2>3, <2>4, <2>5, StoreMoves DEF Update
<1>4. ASSUME NEW s \in {"draft", "ready", "paused"}, SetStatus(s) PROVE Inv'
  <2>1. automation' \in AutomationRow /\ automation'.workflow = automation.workflow
    BY <1>1, <1>4 DEF SetStatus, AutomationRow
  <2>2. /\ seen' \in Seen /\ seen'.settled = seen.settled /\ seen'.reshaped = seen.reshaped
        /\ Running \subseteq seen'.graced
    BY <1>1, <1>2, <1>4 DEF SetStatus, Stopped, Seen
  <2>3. GraceInv'
    BY <1>4, <2>2, AllGraced DEF SetStatus
  <2> QED BY <1>1, <1>4, <2>1, <2>2, <2>3, StoreMoves DEF SetStatus
<1>5. CASE Activate \/ Resume
  <2>1. automation' \in AutomationRow /\ automation'.workflow = automation.workflow /\ UNCHANGED seen
    BY <1>1, <1>5 DEF Activate, Resume, AutomationRow
  <2>2. Running \subseteq seen'.graced
    <3>1. automation.status # "active"
      BY <1>5 DEF Activate, Resume
    <3> QED BY <2>1, <3>1 DEF Inv, GraceInv, Reviewed, Running, At
  <2>3. GraceInv'
    BY <1>5, <2>2, AllGraced DEF Activate, Resume
  <2> QED BY <1>1, <1>5, <2>1, <2>3, StoreMoves DEF Activate, Resume
<1>6. ASSUME NEW c \in Contents, EditTemplates(c) PROVE Inv'
  <2>1. /\ seen' \in Seen /\ seen'.settled = seen.settled /\ seen'.reshaped = seen.reshaped
        /\ Verified \subseteq seen'.graced /\ seen.graced \subseteq seen'.graced
    BY <1>1, <1>2, <1>6 DEF EditTemplates, Seen
  <2>2. GraceInv'
    BY <1>6, <2>1 DEF EditTemplates, Inv, GraceInv, Reviewed, Verified, Running, At
  <2> QED BY <1>1, <1>6, <2>1, <2>2, StoreMoves DEF EditTemplates
<1> QED BY <1>3, <1>4, <1>5, <1>6 DEF Merchant

-----------------------------------------------------------------------------
LEMMA StepInv == ASSUME Inv, [Next]_vars PROVE Inv'
<1>1. ASSUME NEW w \in Workers, Step(w) PROVE Inv'
  BY <1>1, StartInv, VerifyInv, BeginInv, ComposeInv, HandOverInv, RecordSentInv, WaitInv, ConditionInv,
     EndInv DEF Step, Return, bounds
<1>2. ASSUME NEW w \in Workers, Trouble(w) PROVE Inv'
  BY <1>2, EndInv, SuppressInv, RefusedInv, DeferInv DEF Trouble, Unavailable, Die, store
<1>3. CASE UNCHANGED vars
  <2>1. JobsInOrder'
    BY <1>3 DEF vars, Inv, OrderInv, JobsInOrder, store
  <2> QED BY <1>3, <2>1, QueueStays, QueueMoves DEF vars, bounds, Inv, TypeInv, Stored
<1> QED BY <1>1, <1>2, <1>3, TriggerInv, StallInv, MerchantInv DEF Next

LEMMA InvHolds == Spec => []Inv
BY InitInv, StepInv, PTL DEF Spec

(* The automation, its queue, its log and its runner keep their types, and  *)
(* every job belongs to the execution its trigger started                   *)
(* (automation-runner.worker.ts).                                           *)
THEOREM TypeCorrect == Spec => []TypeOK
<1>1. Inv => TypeOK
  <2> SUFFICES ASSUME Inv PROVE TypeOK
    OBVIOUS
  <2>1. ASSUME NEW id \in DOMAIN queue
        PROVE  /\ id[1] \in {"trigger", "continue", "quiet"}
               /\ id[1] = "trigger" => id \in Executions
               /\ id[1] # "trigger" => id[2] \in Executions /\ id[3] \in Nat
    BY DEF Inv, TypeInv, QueueInv, JobIds, Executions
  <2>2. ASSUME NEW w \in Workers, run[w] # Idle
        PROVE  run[w].job \in DOMAIN queue /\ run[w].row.workflow \in Workflows /\ run[w].at \in Nat
    BY <2>2, Facts DEF Sound, RunRecord, AutomationRow
  <2> QED BY <2>1, <2>2 DEF TypeOK, Inv, TypeInv, Stored, AutomationRow, Seen, QueueInv, JobRecord, LogInv, Keys
<1> QED BY <1>1, InvHolds, PTL

(* However often the jobs of one start stall, are retried, wait or meet     *)
(* quiet hours, an email of an activated version is accepted once: every    *)
(* job carries its trigger's execution id, so the delivery key is the same  *)
(* (automation-runner.worker.ts).                                           *)
THEOREM EmailsAreSentOnce == Spec => []EachEmailOnce
<1>1. Inv => EachEmailOnce
  <2> SUFFICES ASSUME Inv, NEW a \in accepted, NEW b \in accepted,
                      a.of = b.of, a.key[2] = b.key[2], a.key[3] = b.key[3]
               PROVE  a = b
    BY DEF EachEmailOnce
  <2>1. a.key \in Keys /\ b.key \in Keys /\ a.key[1] = b.key[1]
    BY DEF Inv, TypeInv, MailInv, Mail
  <2>2. a.key = b.key
    BY <2>1 DEF Keys
  <2> QED BY <2>2 DEF Inv, TypeInv, MailInv
<1> QED BY <1>1, InvHolds, PTL

(* An email is accepted only after every earlier email of the journey has   *)
(* its outcome, unless the nodes were changed under a started journey.      *)
THEOREM EmailsFollowInOrder == Spec => []InOrder
<1>1. Inv => InOrder
  BY DEF Inv, OrderInv, InOrder, EarlierSettled
<1> QED BY <1>1, InvHolds, PTL

(* What the runner hands over is the workflow and the text the merchant     *)
(* activated, while the automation is active, unless the merchant acted     *)
(* behind the runner's reads.                                               *)
THEOREM ReviewedIsSent == Spec => OnlyReviewedIsSent
<1>1. ASSUME Inv, NEW w \in Workers, At(w, "sending"), w \notin seen.graced
      PROVE  /\ automation.status = "active"
             /\ automation.checksum = [workflow |-> run[w].row.workflow, content |-> run[w].mail]
  BY <1>1, Facts DEF Reviewed, At, Checksum
<1>2. Inv => [\A w \in Workers :
                 At(w, "sending") /\ run'[w].pc = "accepted" /\ w \notin seen.graced =>
                    /\ automation.status = "active"
                    /\ automation.checksum = [workflow |-> run[w].row.workflow,
                                              content |-> run[w].mail]]_vars
  BY <1>1
<1> QED BY <1>2, InvHolds, PTL DEF OnlyReviewedIsSent

=============================================================================
