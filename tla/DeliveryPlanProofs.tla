------------------------ MODULE DeliveryPlanProofs ------------------------
(***************************************************************************)
(* Theorems about DeliveryPlan for every cohort, page, chunk and bound.     *)
(* The first part holds however often planning is run again.  The second is *)
(* about a campaign whose planner is not: every scheduled delivery is       *)
(* written down, and a campaign is closed and called sent on its outcomes.  *)
(* With no loss of a deliver-one job and no pause either, a chunk marked    *)
(* complete owes nothing.                                                   *)
(***************************************************************************)
EXTENDS DeliveryPlan, FiniteSetTheorems, TLAPS

Planners == [pc : {"waiting", "reading", "flushing", "writing", "queueing",
                   "closing", "done", "failed"},
             page : 0 .. PageCount, chunk : Nat, next : Nat, scheduled : Nat,
             held : SUBSET Control, skipped : SUBSET Customers,
             staged : SUBSET Customers]
RowRecords == [deliveries : SUBSET Customers, completed : BOOLEAN,
               recoveries : 0 .. MAX_RECOVERIES]
JobRecords == [state : Pending \union {"missing", "completed", "failed"},
               batch : SUBSET Customers, todo : SUBSET Customers]

Campaigns == [status : {"approved", "planned", "sent", "partially_sent", "failed"},
              scheduled : Nat]

(* TypeOK, with the record sets named.                                      *)
Types ==
    /\ planner \in Planners
    /\ rows \in [Indices -> RowRecords]
    /\ jobs \in [JobIds -> JobRecords]
    /\ \A j \in JobIds : jobs[j].todo \subseteq jobs[j].batch
    /\ deferred \subseteq Customers
    /\ logs \in [Customers -> LogStates]
    /\ campaign \in Campaigns
    /\ finalize \in {"none", "waiting", "done"}
    /\ paused \in BOOLEAN
    /\ owed \subseteq Customers /\ heldBack \subseteq Customers

(* A planner that has read a page is still inside the cohort.               *)
PageInCohort ==
    planner.pc \in {"flushing", "writing", "queueing"} => planner.page < PageCount

PlanInv == Types /\ PageInCohort

(* No delivery in the planner's hands is a control customer's either.       *)
StagedTreatment == planner.staged \intersect Control = {}

-----------------------------------------------------------------------------
(* Data *)

LEMMA CountsAreNatural ==
    /\ PageCount \in Nat
    /\ \A S \in SUBSET Customers : Cardinality(S) \in Nat /\ ChunkCount(S) \in Nat
<1>1. PageCount \in Nat
  BY PlanAssumption, SMT DEF PageCount
<1>2. ASSUME NEW S \in SUBSET Customers PROVE Cardinality(S) \in Nat /\ ChunkCount(S) \in Nat
  <2>1. IsFiniteSet(Customers)
    BY FS_Interval, PlanAssumption DEF Customers
  <2>2. Cardinality(S) \in Nat
    BY <2>1, FS_Subset, FS_CardinalityType
  <2>3. (Cardinality(S) + ChunkSize - 1) \div ChunkSize \in Nat
    BY <2>2, PlanAssumption, SMT
  <2> QED BY <2>2, <2>3 DEF ChunkCount
<1> QED BY <1>1, <1>2

LEMMA ChunksAreParts == \A S \in SUBSET Customers : \A k : ChunkOf(S, k) \subseteq S
BY DEF ChunkOf

LEMMA RecordsOfJobs ==
    /\ NoRow \in RowRecords
    /\ NoJob \in JobRecords
    /\ \A D \in SUBSET Customers : Queued(D) \in JobRecords /\ Queued(D).todo \subseteq D
BY PlanAssumption DEF NoRow, NoJob, Queued, RowRecords, JobRecords, Pending

LEMMA TypeParts == TypeOK <=> Types
BY DEF TypeOK, Types, Planners, RowRecords, JobRecords, Campaigns

-----------------------------------------------------------------------------
(* Type correctness *)

LEMMA InitType == Init => PlanInv
<1> SUFFICES ASSUME Init PROVE PlanInv
  OBVIOUS
<1>1. planner \in Planners /\ PageInCohort
  BY CountsAreNatural DEF Init, Idle, Planners, PageInCohort
<1>2. rows \in [Indices -> RowRecords] /\ jobs \in [JobIds -> JobRecords]
  BY RecordsOfJobs DEF Init
<1>3. \A j \in JobIds : jobs[j].todo \subseteq jobs[j].batch
  BY DEF Init, NoJob
<1>4. /\ deferred \subseteq Customers /\ logs \in [Customers -> LogStates]
      /\ owed \subseteq Customers /\ heldBack \subseteq Customers
  BY DEF Init, LogStates
<1>5. /\ campaign \in Campaigns
      /\ finalize \in {"none", "waiting", "done"}
      /\ paused \in BOOLEAN
  BY DEF Init, Campaigns
<1> QED BY <1>1, <1>2, <1>3, <1>4, <1>5 DEF PlanInv, Types

LEMMA PlannerType == PlanInv /\ (Plan \/ PlannerDies) => PlanInv'
<1> SUFFICES ASSUME PlanInv, Plan \/ PlannerDies PROVE PlanInv'
  OBVIOUS
<1> USE DEF PlanInv, Types, PageInCohort, decided, bounds
<1>1. CASE StartPlanning
  BY <1>1, CountsAreNatural DEF StartPlanning, Idle, Planners
<1>2. CASE ReadPage
  <2>1. PICK E \in SUBSET {c \in Page(planner.page) : logs[c] = "none" /\ ~paused},
             skipped \in SUBSET Page(planner.page) :
          /\ skipped \subseteq E
          /\ planner' = [planner EXCEPT !.pc = "flushing", !.held = Withheld(E, skipped),
                             !.skipped = skipped, !.staged = Staged(E, skipped), !.next = 0,
                             !.scheduled = @ + Cardinality(Staged(E, skipped))]
          /\ owed' = owed \union Staged(E, skipped)
          /\ heldBack' = heldBack \union Withheld(E, skipped) \union skipped
    BY <1>2 DEF ReadPage
  <2>2. /\ Staged(E, skipped) \subseteq Customers /\ skipped \subseteq Customers
        /\ Withheld(E, skipped) \subseteq Control /\ Withheld(E, skipped) \subseteq Customers
    BY PlanAssumption DEF Staged, Withheld, Page
  <2>3. Cardinality(Staged(E, skipped)) \in Nat
    BY <2>2, CountsAreNatural
  <2>4. planner.page < PageCount
    BY <1>2 DEF ReadPage
  <2>5. planner' \in Planners
    <3>1. planner.scheduled + Cardinality(Staged(E, skipped)) \in Nat
      BY <2>3 DEF Planners
    <3>2. planner' = [planner EXCEPT !.pc = "flushing", !.held = Withheld(E, skipped),
                          !.skipped = skipped, !.staged = Staged(E, skipped), !.next = 0,
                          !.scheduled = planner.scheduled + Cardinality(Staged(E, skipped))]
      BY <2>1
    <3>3. \A W \in SUBSET Control, K, S \in SUBSET Customers, n \in Nat :
            [planner EXCEPT !.pc = "flushing", !.held = W, !.skipped = K, !.staged = S,
                            !.next = 0, !.scheduled = n] \in Planners
      BY DEF Planners
    <3> HIDE DEF PlanInv, Types, PageInCohort
    <3> QED BY <2>2, <3>1, <3>2, <3>3
  <2>6. planner'.page = planner.page
    BY <2>1 DEF Planners
  <2>7. owed' \subseteq Customers /\ heldBack' \subseteq Customers
    BY <2>1, <2>2
  <2> QED BY <1>2, <2>4, <2>5, <2>6, <2>7 DEF ReadPage
<1>3. CASE flushPlannedLogs
  <2>1. \A c \in Customers : HeldLog(c) \in LogStates
    BY DEF HeldLog, LogStates, HeldLogs
  <2> QED BY <1>3, <2>1 DEF flushPlannedLogs, Planners
<1>4. CASE WriteRows
  <2>1. \A k : ChunkOf(planner.staged, k) \subseteq Customers
    BY ChunksAreParts DEF Planners
  <2>2. rows' \in [Indices -> RowRecords]
    BY <1>4, <2>1, RecordsOfJobs DEF WriteRows, RowRecords, NoRow
  <2> QED BY <1>4, <2>2 DEF WriteRows, Planners
<1>5. CASE QueueChunk
  <2>1. ChunkOf(planner.staged, planner.next) \subseteq Customers
    BY ChunksAreParts DEF Planners
  <2>2. Queued(ChunkOf(planner.staged, planner.next)) \in JobRecords
    BY <2>1, RecordsOfJobs
  <2>3. Queued(ChunkOf(planner.staged, planner.next)).todo
          \subseteq Queued(ChunkOf(planner.staged, planner.next)).batch
    BY DEF Queued
  <2>4. jobs' \in [JobIds -> JobRecords] /\ \A j \in JobIds : jobs'[j].todo \subseteq jobs'[j].batch
    BY <1>5, <2>2, <2>3 DEF QueueChunk
  <2>5. planner' \in Planners
    BY <1>5 DEF QueueChunk, Planners
  <2>6. PageInCohort'
    BY <1>5 DEF QueueChunk, Planners
  <2> QED BY <1>5, <2>4, <2>5, <2>6 DEF QueueChunk
<1>6. CASE NextPage
  <2>1. planner.page + 1 \in 0 .. PageCount
    BY <1>6, CountsAreNatural DEF NextPage, Planners
  <2>2. NextIndex \in Nat
    BY DEF NextIndex, Planners
  <2>3. planner' = [planner EXCEPT !.pc = "reading", !.page = planner.page + 1,
                        !.chunk = NextIndex, !.next = 0, !.held = {}, !.skipped = {},
                        !.staged = {}]
    BY <1>6 DEF NextPage
  <2>4. planner' \in Planners
    BY <2>1, <2>2, <2>3 DEF Planners
  <2>5. planner'.pc = "reading"
    BY <2>3 DEF Planners
  <2> QED BY <1>6, <2>4, <2>5 DEF NextPage
<1>7. CASE ClosePlan
  BY <1>7 DEF ClosePlan, Planners, Campaigns
<1>8. CASE QueueFinalize
  BY <1>8 DEF QueueFinalize, Planners
<1>9. CASE PlannerDies
  BY <1>9, CountsAreNatural DEF PlannerDies, Idle, Planners
<1> QED BY <1>1, <1>2, <1>3, <1>4, <1>5, <1>6, <1>7, <1>8, <1>9 DEF Plan

LEMMA ChunkType ==
    ASSUME PlanInv, NEW j \in JobIds, RunChunk(j) \/ ChunkFails(j) \/ LoseJob(j)
    PROVE  PlanInv'
<1> USE DEF PlanInv, Types, PageInCohort, decided, bounds
<1> DEFINE JobsTyped == /\ jobs' \in [JobIds -> JobRecords]
                        /\ \A i \in JobIds : jobs'[i].todo \subseteq jobs'[i].batch
<1>1. CASE StartChunk(j)
  <2>1. JobsTyped
    BY <1>1 DEF StartChunk, JobRecords, Pending
  <2> QED BY <1>1, <2>1 DEF StartChunk
<1>2. CASE FinishChunk(j)
  <2>1. JobsTyped
    BY <1>2 DEF FinishChunk, JobRecords
  <2>2. rows' \in [Indices -> RowRecords]
    BY <1>2 DEF FinishChunk, JobIds, RowRecords
  <2> QED BY <1>2, <2>1, <2>2 DEF FinishChunk
<1>3. ASSUME NEW c \in Customers, Deliver(j, c) PROVE PlanInv'
  <2>1. JobsTyped
    BY <1>3 DEF Deliver, Handled, JobRecords
  <2>2. logs' \in [Customers -> LogStates]
    BY <1>3 DEF Deliver, LogStates
  <2> QED BY <1>3, <2>1, <2>2 DEF Deliver
<1>4. ASSUME NEW c \in Customers, Defer(j, c) PROVE PlanInv'
  <2>1. JobsTyped
    BY <1>4 DEF Defer, Handled, JobRecords
  <2>2. logs' \in [Customers -> LogStates]
    BY <1>4 DEF Defer, LogStates
  <2> QED BY <1>4, <2>1, <2>2 DEF Defer
<1>5. ASSUME NEW c \in Customers, Pace(j, c) PROVE PlanInv'
  <2>1. JobsTyped
    BY <1>5 DEF Pace, PutBack, JobRecords, Pending
  <2>2. logs' \in [Customers -> LogStates]
    BY <1>5 DEF Pace, LogStates
  <2> QED BY <1>5, <2>1, <2>2 DEF Pace
<1>6. CASE ChunkFails(j)
  <2>1. JobsTyped
    BY <1>6 DEF ChunkFails, JobRecords, Pending
  <2>2. logs' \in [Customers -> LogStates]
    BY <1>6 DEF ChunkFails, LogStates, Outcomes
  <2> QED BY <1>6, <2>1, <2>2 DEF ChunkFails
<1>7. CASE LoseJob(j)
  <2>1. JobsTyped
    BY <1>7, RecordsOfJobs DEF LoseJob, NoJob
  <2> QED BY <1>7, <2>1 DEF LoseJob
<1> QED BY <1>1, <1>2, <1>3, <1>4, <1>5, <1>6, <1>7 DEF RunChunk

LEMMA DriveType ==
    /\ PlanInv
    /\ \/ \E c \in Customers : RunDeferred(c) \/ DeferredFails(c)
       \/ \E n \in Indices : recoverStrandedDeliveries(n)
       \/ finalizeCampaign \/ setEmailSendingPaused
    => PlanInv'
<1> SUFFICES ASSUME PlanInv,
                    \/ \E c \in Customers : RunDeferred(c) \/ DeferredFails(c)
                    \/ \E n \in Indices : recoverStrandedDeliveries(n)
                    \/ finalizeCampaign \/ setEmailSendingPaused
             PROVE  PlanInv'
  OBVIOUS
<1> USE DEF PlanInv, Types, PageInCohort, decided, bounds
<1>1. ASSUME NEW c \in Customers, RunDeferred(c) PROVE PlanInv'
  BY <1>1 DEF RunDeferred, LogStates
<1>2. ASSUME NEW c \in Customers, DeferredFails(c) PROVE PlanInv'
  BY <1>2 DEF DeferredFails
<1>3. ASSUME NEW n \in Indices, recoverStrandedDeliveries(n) PROVE PlanInv'
  <2>1. Queued(rows[n].deliveries) \in JobRecords
    BY RecordsOfJobs DEF RowRecords
  <2>2. Queued(rows[n].deliveries).todo \subseteq Queued(rows[n].deliveries).batch
    BY DEF Queued
  <2>3. jobs' \in [JobIds -> JobRecords] /\ \A j \in JobIds : jobs'[j].todo \subseteq jobs'[j].batch
    BY <1>3, <2>1, <2>2 DEF recoverStrandedDeliveries
  <2>4. rows' \in [Indices -> RowRecords]
    BY <1>3, PlanAssumption DEF recoverStrandedDeliveries, RowRecords
  <2> QED BY <1>3, <2>3, <2>4 DEF recoverStrandedDeliveries
<1>4. CASE finalizeCampaign
  BY <1>4 DEF finalizeCampaign, FinalStatus, Campaigns
<1>5. CASE setEmailSendingPaused
  BY <1>5 DEF setEmailSendingPaused
<1> QED BY <1>1, <1>2, <1>3, <1>4, <1>5

LEMMA TypeStep == PlanInv /\ [Next]_vars => PlanInv'
<1>1. PlanInv /\ UNCHANGED vars => PlanInv'
  BY DEF PlanInv, Types, PageInCohort, vars, decided
<1> QED BY <1>1, PlannerType, ChunkType, DriveType DEF Next

(* Every reachable state is well typed, for any cohort, page and chunk size *)
(* and any number of crashes, faults and pauses: in particular no chunk is  *)
(* re-driven more than MAX_RECOVERIES times, and the planner holds back     *)
(* nobody outside the control group but those it skips.                     *)
THEOREM TypeCorrect == Spec => []TypeOK
<1>1. Init => PlanInv
  BY InitType
<1>2. PlanInv /\ [Next]_vars => PlanInv'
  BY TypeStep
<1>3. PlanInv => TypeOK
  BY TypeParts DEF PlanInv
<1> QED BY <1>1, <1>2, <1>3, PTL DEF Spec

-----------------------------------------------------------------------------
(* The control group *)

ControlInv == ControlUntouched /\ StagedTreatment

LEMMA ControlPlanning ==
    PlanInv /\ ControlInv /\ (Plan \/ PlannerDies) => ControlInv'
<1> SUFFICES ASSUME PlanInv, ControlInv, Plan \/ PlannerDies PROVE ControlInv'
  OBVIOUS
<1> USE DEF ControlInv, ControlUntouched, StagedTreatment
<1>1. planner \in Planners /\ logs \in [Customers -> LogStates]
  BY DEF PlanInv, Types
<1>2. rows \in [Indices -> RowRecords] /\ jobs \in [JobIds -> JobRecords]
  BY DEF PlanInv, Types
<1>3. CASE StartPlanning \/ PlannerDies
  BY <1>3 DEF StartPlanning, PlannerDies, Idle
<1>4. CASE ReadPage
  <2>1. planner'.staged \intersect Control = {}
    BY <1>1, <1>4 DEF ReadPage, Staged, Planners
  <2> QED BY <1>4, <2>1 DEF ReadPage
<1>5. CASE flushPlannedLogs
  <2>1. \A c \in Control : logs'[c] \in HeldLogs \union {"none"}
    BY <1>5, PlanAssumption DEF flushPlannedLogs, HeldLog, HeldLogs
  <2>2. planner'.staged = planner.staged
    BY <1>1, <1>5 DEF flushPlannedLogs, Planners
  <2> QED BY <1>5, <2>1, <2>2 DEF flushPlannedLogs
<1>6. CASE WriteRows
  <2>1. \A c \in Control, n \in Indices : c \notin rows'[n].deliveries
    BY <1>6 DEF WriteRows, ChunkOf, NoRow
  <2>2. planner'.staged = planner.staged
    BY <1>1, <1>6 DEF WriteRows, Planners
  <2> QED BY <1>6, <2>1, <2>2 DEF WriteRows
<1>7. CASE QueueChunk
  <2>1. \A c \in Control, k \in Nat : c \notin Queued(ChunkOf(planner.staged, k)).batch
    BY DEF Queued, ChunkOf
  <2>2. \A c \in Control, j \in JobIds : c \notin jobs'[j].batch
    BY <1>1, <1>2, <1>7, <2>1 DEF QueueChunk, Planners
  <2>3. planner'.staged = planner.staged
    BY <1>1, <1>7 DEF QueueChunk, Planners
  <2> QED BY <1>7, <2>2, <2>3 DEF QueueChunk
<1>8. CASE NextPage
  <2>1. planner'.staged = {}
    BY <1>1, <1>8 DEF NextPage, Planners
  <2> QED BY <1>8, <2>1 DEF NextPage
<1>9. CASE ClosePlan \/ QueueFinalize
  <2>1. planner'.staged = planner.staged
    BY <1>1, <1>9 DEF ClosePlan, QueueFinalize, Planners
  <2> QED BY <1>9, <2>1 DEF ClosePlan, QueueFinalize
<1> QED BY <1>3, <1>4, <1>5, <1>6, <1>7, <1>8, <1>9 DEF Plan

(* A chunk only delivers what its job's batch holds.                        *)
LEMMA ControlChunk ==
    ASSUME PlanInv, ControlInv, NEW j \in JobIds, RunChunk(j) \/ ChunkFails(j) \/ LoseJob(j)
    PROVE  ControlInv'
<1> USE DEF ControlInv, ControlUntouched, StagedTreatment
<1>1. /\ jobs \in [JobIds -> JobRecords] /\ rows \in [Indices -> RowRecords]
      /\ logs \in [Customers -> LogStates]
      /\ jobs[j].todo \subseteq jobs[j].batch
  BY DEF PlanInv, Types
<1>2. \A c \in jobs[j].todo : c \notin Control
  BY <1>1
<1>3. ASSUME \A i \in JobIds : jobs'[i].batch \in {jobs[i].batch, {}}
      PROVE  \A c \in Control, i \in JobIds : c \notin jobs'[i].batch
  BY <1>3
<1>4. CASE StartChunk(j)
  <2>1. \A i \in JobIds : jobs'[i].batch \in {jobs[i].batch, {}}
    BY <1>1, <1>4 DEF StartChunk, JobRecords
  <2> QED BY <1>3, <1>4, <2>1 DEF StartChunk
<1>5. CASE FinishChunk(j)
  <2>1. \A i \in JobIds : jobs'[i].batch \in {jobs[i].batch, {}}
    BY <1>1, <1>5 DEF FinishChunk, JobRecords
  <2>2. \A n \in Indices : rows'[n].deliveries = rows[n].deliveries
    BY <1>1, <1>5 DEF FinishChunk, RowRecords
  <2> QED BY <1>3, <1>5, <2>1, <2>2 DEF FinishChunk
<1>6. ASSUME NEW d \in Customers, Deliver(j, d) \/ Defer(j, d) \/ Pace(j, d) PROVE ControlInv'
  <2>1. \A i \in JobIds : jobs'[i].batch \in {jobs[i].batch, {}}
    BY <1>1, <1>6 DEF Deliver, Defer, Pace, Handled, PutBack, JobRecords
  <2>2. d \notin Control
    BY <1>2, <1>6 DEF Deliver, Defer, Pace, Delivering
  <2>3. \A c \in Control : logs'[c] = logs[c]
    BY <1>1, <1>6, <2>2, PlanAssumption DEF Deliver, Defer, Pace
  <2>4. \A c \in Control : c \notin deferred'
    BY <1>6, <2>2 DEF Deliver, Defer, Pace
  <2> QED BY <1>3, <1>6, <2>1, <2>3, <2>4 DEF Deliver, Defer, Pace
<1>7. CASE ChunkFails(j)
  <2>1. \A i \in JobIds : jobs'[i].batch \in {jobs[i].batch, {}}
    BY <1>1, <1>7 DEF ChunkFails, JobRecords
  <2>2. \A c \in Control : logs'[c] = logs[c]
    BY <1>1, <1>2, <1>7, PlanAssumption DEF ChunkFails
  <2> QED BY <1>3, <1>7, <2>1, <2>2 DEF ChunkFails
<1>8. CASE LoseJob(j)
  <2>1. \A i \in JobIds : jobs'[i].batch \in {jobs[i].batch, {}}
    BY <1>1, <1>8 DEF LoseJob, NoJob
  <2> QED BY <1>3, <1>8, <2>1 DEF LoseJob
<1> QED BY <1>4, <1>5, <1>6, <1>7, <1>8 DEF RunChunk

LEMMA ControlDriving ==
    /\ PlanInv /\ ControlInv
    /\ \/ \E c \in Customers : RunDeferred(c) \/ DeferredFails(c)
       \/ \E n \in Indices : recoverStrandedDeliveries(n)
       \/ finalizeCampaign \/ setEmailSendingPaused
    => ControlInv'
<1> SUFFICES ASSUME PlanInv, ControlInv,
                    \/ \E c \in Customers : RunDeferred(c) \/ DeferredFails(c)
                    \/ \E n \in Indices : recoverStrandedDeliveries(n)
                    \/ finalizeCampaign \/ setEmailSendingPaused
             PROVE  ControlInv'
  OBVIOUS
<1> USE DEF ControlInv, ControlUntouched, StagedTreatment
<1>1. /\ jobs \in [JobIds -> JobRecords] /\ rows \in [Indices -> RowRecords]
      /\ logs \in [Customers -> LogStates]
  BY DEF PlanInv, Types
<1>2. ASSUME NEW d \in Customers, RunDeferred(d) PROVE ControlInv'
  <2>1. d \notin Control
    BY <1>2 DEF RunDeferred
  <2>2. \A c \in Control : logs'[c] = logs[c]
    BY <1>1, <1>2, <2>1, PlanAssumption DEF RunDeferred
  <2> QED BY <1>2, <2>2 DEF RunDeferred
<1>3. ASSUME NEW d \in Customers, DeferredFails(d) PROVE ControlInv'
  BY <1>3 DEF DeferredFails
<1>4. ASSUME NEW n \in Indices, recoverStrandedDeliveries(n) PROVE ControlInv'
  <2>1. \A m \in Indices : rows'[m].deliveries = rows[m].deliveries
    BY <1>1, <1>4 DEF recoverStrandedDeliveries, RowRecords
  <2>2. \A c \in Control : c \notin Queued(rows[n].deliveries).batch
    BY DEF Queued
  <2>3. \A c \in Control, j \in JobIds : c \notin jobs'[j].batch
    BY <1>1, <1>4, <2>2 DEF recoverStrandedDeliveries
  <2> QED BY <1>4, <2>1, <2>3 DEF recoverStrandedDeliveries
<1>5. CASE finalizeCampaign \/ setEmailSendingPaused
  BY <1>5 DEF finalizeCampaign, setEmailSendingPaused
<1> QED BY <1>2, <1>3, <1>4, <1>5

(* Nobody the frozen cohort put in the control group is ever treated: no    *)
(* chunk, deferred job or log of theirs exists, whatever crashes, retries,  *)
(* re-drives and pauses happen and however often the planner runs.          *)
THEOREM ControlProtected == Spec => []ControlUntouched
<1>1. Init => PlanInv /\ ControlInv
  BY InitType, PlanAssumption
     DEF Init, Idle, NoRow, NoJob, ControlInv, ControlUntouched, StagedTreatment
<1>2. PlanInv /\ ControlInv /\ [Next]_vars => (PlanInv /\ ControlInv)'
  <2>1. PlanInv /\ ControlInv /\ UNCHANGED vars => ControlInv'
    BY DEF ControlInv, ControlUntouched, StagedTreatment, vars
  <2> QED BY <2>1, TypeStep, ControlPlanning, ControlChunk, ControlDriving DEF Next
<1>3. ControlInv => ControlUntouched
  BY DEF ControlInv
<1> QED BY <1>1, <1>2, <1>3, PTL DEF Spec
-----------------------------------------------------------------------------
(* The reconciliation *)

(* Whoever was held back has a log that says so, or is in the buffer the    *)
(* planner is about to flush.                                               *)
HeldIsRecorded ==
    \A h \in heldBack :
        \/ logs[h] \in HeldLogs
        \/ planner.pc = "flushing" /\ h \in planner.held \union planner.skipped

(* A log that says so is final: deliveries go on from the others only.      *)
LEMMA HeldLogsStay ==
    ASSUME PlanInv, HeldIsRecorded, UNCHANGED <<planner, heldBack>>,
           logs' \in [Customers -> LogStates],
           \A c \in Customers : logs[c] \in HeldLogs => logs'[c] = logs[c]
    PROVE  HeldIsRecorded'
BY DEF HeldIsRecorded, PlanInv, Types

LEMMA HeldByPlanner ==
    ASSUME PlanInv, HeldIsRecorded, Plan \/ PlannerDies
    PROVE  HeldIsRecorded'
<1> USE DEF HeldIsRecorded, decided
<1>1. planner \in Planners /\ logs \in [Customers -> LogStates] /\ heldBack \subseteq Customers
  BY DEF PlanInv, Types
<1>2. CASE ReadPage
  <2>1. PICK E \in SUBSET {c \in Page(planner.page) : logs[c] = "none" /\ ~paused},
             skipped \in SUBSET Page(planner.page) :
          /\ planner' = [planner EXCEPT !.pc = "flushing", !.held = Withheld(E, skipped),
                             !.skipped = skipped, !.staged = Staged(E, skipped), !.next = 0,
                             !.scheduled = @ + Cardinality(Staged(E, skipped))]
          /\ heldBack' = heldBack \union Withheld(E, skipped) \union skipped
    BY <1>2 DEF ReadPage
  <2>2. /\ planner'.pc = "flushing" /\ planner'.held = Withheld(E, skipped)
        /\ planner'.skipped = skipped
    BY <1>1, <2>1 DEF Planners
  <2> QED BY <1>2, <2>1, <2>2 DEF ReadPage
<1>3. CASE flushPlannedLogs
  BY <1>1, <1>3 DEF flushPlannedLogs, HeldLog, HeldLogs
<1>4. CASE PlannerDies
  BY <1>4 DEF PlannerDies
<1>5. CASE StartPlanning \/ WriteRows \/ QueueChunk \/ NextPage \/ ClosePlan \/ QueueFinalize
  BY <1>5 DEF StartPlanning, WriteRows, QueueChunk, NextPage, ClosePlan, QueueFinalize
<1> QED BY <1>2, <1>3, <1>4, <1>5 DEF Plan

LEMMA HeldByOthers ==
    ASSUME PlanInv, HeldIsRecorded, [Next]_vars, ~(Plan \/ PlannerDies)
    PROVE  HeldIsRecorded'
<1> USE DEF decided, Retryable, HeldLogs
<1>1. logs \in [Customers -> LogStates] /\ logs' \in [Customers -> LogStates]
  BY TypeStep DEF PlanInv, Types
<1>2. ASSUME NEW j \in JobIds, RunChunk(j) \/ ChunkFails(j) \/ LoseJob(j) PROVE HeldIsRecorded'
  <2>1. UNCHANGED <<planner, heldBack>>
    BY <1>2 DEF RunChunk, StartChunk, FinishChunk, Deliver, Defer, Pace, ChunkFails, LoseJob
  <2>2. \A c \in Customers : logs[c] \in HeldLogs => logs'[c] = logs[c]
    BY <1>1, <1>2 DEF RunChunk, StartChunk, FinishChunk, Deliver, Defer, Pace, ChunkFails, LoseJob
  <2> QED BY <1>1, <2>1, <2>2, HeldLogsStay
<1>3. ASSUME NEW c \in Customers, RunDeferred(c) \/ DeferredFails(c) PROVE HeldIsRecorded'
  BY <1>1, <1>3, HeldLogsStay DEF RunDeferred, DeferredFails
<1>4. ASSUME NEW n \in Indices, recoverStrandedDeliveries(n) PROVE HeldIsRecorded'
  BY <1>1, <1>4, HeldLogsStay DEF recoverStrandedDeliveries
<1>5. CASE finalizeCampaign \/ setEmailSendingPaused \/ UNCHANGED vars
  BY <1>1, <1>5, HeldLogsStay DEF finalizeCampaign, setEmailSendingPaused, vars
<1> QED BY <1>2, <1>3, <1>4, <1>5 DEF Next

(* Rows are only written once everyone held back so far is durably so,      *)
(* however often the planner dies and is run again (send.worker.ts, the     *)
(* forced flush before createMany).                                         *)
THEOREM ReconciliationKept == Spec => ReconciliationComplete
<1>1. Init => PlanInv /\ HeldIsRecorded
  BY InitType DEF Init, HeldIsRecorded
<1>2. PlanInv /\ HeldIsRecorded /\ [Next]_vars => (PlanInv /\ HeldIsRecorded)'
  BY TypeStep, HeldByPlanner, HeldByOthers
<1>3. ASSUME PlanInv, HeldIsRecorded, Next, NEW n \in Indices,
             rows'[n].deliveries # rows[n].deliveries
      PROVE  \A h \in heldBack : logs[h] \in HeldLogs
  <2>1. rows \in [Indices -> RowRecords]
    BY <1>3 DEF PlanInv, Types
  <2>2. WriteRows
    <3>1. ASSUME NEW j \in JobIds, FinishChunk(j) PROVE FALSE
      BY <1>3, <2>1, <3>1 DEF FinishChunk, RowRecords
    <3>2. ASSUME NEW m \in Indices, recoverStrandedDeliveries(m) PROVE FALSE
      BY <1>3, <2>1, <3>2 DEF recoverStrandedDeliveries, RowRecords
    <3> QED BY <1>3, <3>1, <3>2
         DEF Next, Plan, StartPlanning, ReadPage, flushPlannedLogs, QueueChunk, NextPage, ClosePlan,
             QueueFinalize, PlannerDies, RunChunk, StartChunk, Deliver, Defer, Pace, ChunkFails, LoseJob,
             RunDeferred, DeferredFails, finalizeCampaign, setEmailSendingPaused
  <2> QED BY <1>3, <2>2 DEF WriteRows, HeldIsRecorded
<1>4. PlanInv /\ HeldIsRecorded /\ [Next]_vars =>
        [(\E n \in Indices : rows'[n].deliveries # rows[n].deliveries)
            => \A h \in heldBack : logs[h] \in HeldLogs]_vars
  BY <1>3
<1> QED BY <1>1, <1>2, <1>4, PTL DEF Spec, ReconciliationComplete

-----------------------------------------------------------------------------
(* When no planner is run again *)

PlannedOnce == MaxCrashes = 0
Undisturbed == MaxLosses = 0 /\ MaxPauses = 0

PageOf(c) == (c - 1) \div COHORT_PAGE
Past == {c \in Customers : PageOf(c) < planner.page}
PlannedRow(k) == [NoRow EXCEPT !.deliveries = ChunkOf(planner.staged, k)]

(* The planner goes through the pages once, numbering chunks as it goes.    *)
PlannerInOrder ==
    /\ crashes = 0
    /\ planner.pc \in {"waiting", "failed"} => planner = [Idle EXCEPT !.pc = planner.pc] /\ owed = {}
    /\ planner.pc \notin {"flushing", "writing", "queueing"} => planner.staged = {}
    /\ planner.pc # "queueing" => planner.next = 0
    /\ planner.next <= ChunkCount(planner.staged)
    /\ planner.staged \subseteq Page(planner.page)
    /\ planner.held \union planner.skipped \subseteq Page(planner.page)
    /\ planner.staged \intersect (planner.held \union planner.skipped) = {}
    /\ planner.chunk <= Cardinality(Past)

(* Whoever is owed a delivery is behind the planner or in its hands.        *)
OwedInOrder ==
    /\ planner.staged \subseteq owed /\ owed \subseteq Past \union planner.staged
    /\ planner.scheduled = Cardinality(owed)
    /\ \A c \in Customers : logs[c] \in Outcomes \union {"queued"} => c \in owed
    /\ deferred \subseteq owed
    /\ \A c \in owed : logs[c] \notin HeldLogs

(* Rows below the page's first chunk are of earlier pages, the others are   *)
(* the page's own, or still to come.                                        *)
RowsInOrder ==
    /\ \A n \in Indices : n < planner.chunk => rows[n].deliveries \subseteq Past \intersect owed
    /\ \A n \in Indices : n >= planner.chunk =>
         IF planner.pc = "queueing"
         THEN rows[n].deliveries = ChunkOf(planner.staged, n - planner.chunk)
         ELSE rows[n] = NoRow
    /\ planner.pc = "queueing" =>
         \A n \in Indices : n >= NextIndex => rows[n] = PlannedRow(n - planner.chunk)
    /\ \A n, m \in Indices : n # m => rows[n].deliveries \intersect rows[m].deliveries = {}
    /\ \A c \in owed : \/ planner.pc \in {"flushing", "writing"} /\ c \in planner.staged
                       \/ \E n \in Indices : c \in rows[n].deliveries

(* A job carries the deliveries of its row.                                 *)
JobsInOrder ==
    \A j \in JobIds : jobs[j].state # "missing" =>
        j[1] < NextIndex /\ jobs[j].batch = rows[j[1]].deliveries

(* A campaign is closed on the count of what is owed.                       *)
ClosedInOrder ==
    /\ planner.pc \in {"closing", "done"} => campaign.scheduled = Cardinality(owed)
    /\ finalize # "none" => planner.pc = "done"
    /\ campaign.status = "sent" => finalize = "done" /\ \A c \in owed : logs[c] = "sent"

Orderly == PlannerInOrder /\ OwedInOrder /\ RowsInOrder /\ JobsInOrder /\ ClosedInOrder

Settled(c) == logs[c] \in Outcomes \/ c \in deferred

(* One job of a chunk is pending at a time, none when it is complete; what  *)
(* an active job is through with is settled.                                *)
ChunksSettle ==
    /\ losses = 0 /\ pauses = 0 /\ ~paused
    /\ \A j \in JobIds : jobs[j].state \in Pending =>
         j[2] = rows[j[1]].recoveries /\ ~rows[j[1]].completed
    /\ \A j \in JobIds : jobs[j].state = "active" =>
         \A c \in jobs[j].batch \ jobs[j].todo : Settled(c)
    /\ FinishedIsSettled

-----------------------------------------------------------------------------
(* Data *)

LEMMA Finite ==
    ASSUME NEW S \in SUBSET Customers
    PROVE  IsFiniteSet(S) /\ Cardinality(S) \in Nat /\ Cardinality(S) <= LastCustomer
<1>1. IsFiniteSet(Customers) /\ Cardinality(Customers) = LastCustomer
  BY FS_Interval, PlanAssumption DEF Customers
<1> QED BY <1>1, FS_Subset, FS_CardinalityType

LEMMA Smaller ==
    ASSUME NEW T \in SUBSET Customers, NEW S \in SUBSET T
    PROVE  Cardinality(S) <= Cardinality(T) /\ (Cardinality(S) = Cardinality(T) => S = T)
BY Finite, FS_Subset

LEMMA Together ==
    ASSUME NEW S \in SUBSET Customers, NEW T \in SUBSET Customers, S \intersect T = {}
    PROVE  Cardinality(S \union T) = Cardinality(S) + Cardinality(T)
<1>1. IsFiniteSet(S) /\ IsFiniteSet(T) /\ Cardinality(S) \in Nat /\ Cardinality(T) \in Nat
  BY Finite
<1>2. Cardinality(S \union T) = Cardinality(S) + Cardinality(T) - Cardinality(S \intersect T)
  BY <1>1, FS_Union
<1> QED BY <1>1, <1>2, FS_EmptySet

(* A delivery is in one chunk, and the chunks are as many as counted.       *)
LEMMA Chunking ==
    ASSUME NEW D \in SUBSET Customers
    PROVE  /\ ChunkCount(D) \in Nat /\ ChunkCount(D) <= Cardinality(D)
           /\ \A c \in D : \E k \in Nat : k < ChunkCount(D) /\ c \in ChunkOf(D, k)
           /\ \A k \in Nat : k >= ChunkCount(D) => ChunkOf(D, k) = {}
           /\ \A k, l : k # l => ChunkOf(D, k) \intersect ChunkOf(D, l) = {}
<1>1. Cardinality(D) \in Nat /\ ChunkSize \in Nat \ {0}
  BY Finite, PlanAssumption
<1>2. ChunkCount(D) \in Nat /\ ChunkCount(D) <= Cardinality(D)
  <2>1. ASSUME NEW a \in Nat, NEW m \in Nat \ {0} PROVE (a + m - 1) \div m \in Nat /\ (a + m - 1) \div m <= a
    BY SMT
  <2> QED BY <1>1, <2>1 DEF ChunkCount
<1>3. ASSUME NEW c \in D
      PROVE  LET k == Cardinality({d \in D : d < c}) \div ChunkSize IN k \in Nat /\ k < ChunkCount(D)
  <2> DEFINE before == {d \in D : d < c}
  <2>1. c \in Nat /\ before \subseteq D /\ before # D
    BY PlanAssumption DEF Customers
  <2>2. Cardinality(before) \in Nat /\ Cardinality(before) < Cardinality(D)
    BY <1>1, <2>1, Finite, Smaller
  <2>3. ASSUME NEW a \in Nat, NEW b \in Nat, a < b, NEW m \in Nat \ {0}
        PROVE  a \div m \in Nat /\ a \div m < (b + m - 1) \div m
    BY <2>3, SMT
  <2> HIDE DEF before
  <2>4. Cardinality(before) \div ChunkSize \in Nat /\ Cardinality(before) \div ChunkSize < ChunkCount(D)
    BY <1>1, <2>2, <2>3 DEF ChunkCount
  <2> QED BY <2>4 DEF before
<1>4. \A c \in D : \E k \in Nat : k < ChunkCount(D) /\ c \in ChunkOf(D, k)
  BY <1>3 DEF ChunkOf
<1>5. \A k \in Nat : k >= ChunkCount(D) => ChunkOf(D, k) = {}
  BY <1>2, <1>3 DEF ChunkOf
<1>6. \A k, l : k # l => ChunkOf(D, k) \intersect ChunkOf(D, l) = {}
  BY DEF ChunkOf
<1> QED BY <1>2, <1>4, <1>5, <1>6

LEMMA Typed ==
    ASSUME PlanInv
    PROVE  /\ planner.page \in Nat /\ planner.chunk \in Nat /\ planner.next \in Nat
           /\ planner.scheduled \in Nat /\ NextIndex \in Nat
           /\ planner.staged \in SUBSET Customers /\ Past \in SUBSET Customers
           /\ owed \in SUBSET Customers /\ planner \in Planners
           /\ Indices \subseteq Nat /\ \A j \in JobIds : j[1] \in Indices /\ j[1] \in Nat
           /\ rows \in [Indices -> RowRecords] /\ jobs \in [JobIds -> JobRecords]
           /\ logs \in [Customers -> LogStates]
BY CountsAreNatural DEF PlanInv, Types, Planners, NextIndex, Past, Indices, JobIds

(* The pages before the planner's do not touch its own.                     *)
LEMMA PagesApart == ASSUME PlanInv PROVE Past \intersect Page(planner.page) = {}
BY Typed DEF Past, PageOf, Page

-----------------------------------------------------------------------------
(* The planner *)

LEMMA StartOrder == ASSUME PlanInv, Orderly, StartPlanning PROVE Orderly'
<1>1. /\ UNCHANGED <<rows, jobs, deferred, logs, campaign, finalize, paused, owed, heldBack, bounds>>
      /\ planner.pc = "waiting" /\ planner = [Idle EXCEPT !.pc = planner.pc]
      /\ planner' = [Idle EXCEPT !.pc = planner'.pc] /\ planner'.pc \in {"failed", "reading"}
  BY DEF StartPlanning, decided, Orderly, PlannerInOrder, Idle
<1>2. /\ planner'.page = planner.page /\ planner'.chunk = planner.chunk /\ planner'.next = planner.next
      /\ planner'.held = planner.held /\ planner'.skipped = planner.skipped
      /\ planner'.staged = planner.staged /\ planner'.scheduled = planner.scheduled
  BY <1>1 DEF Idle
<1>3. Past' = Past /\ NextIndex' = NextIndex
  BY <1>2 DEF Past, NextIndex
<1>4. PlannerInOrder'
  BY <1>1, <1>2, <1>3 DEF Orderly, PlannerInOrder, bounds
<1>5. OwedInOrder'
  BY <1>1, <1>2, <1>3 DEF Orderly, OwedInOrder
<1>6. RowsInOrder'
  BY <1>1, <1>2, <1>3 DEF Orderly, PlannerInOrder, RowsInOrder
<1>7. JobsInOrder'
  BY <1>1, <1>3 DEF Orderly, JobsInOrder
<1>8. ClosedInOrder'
  BY <1>1 DEF Orderly, ClosedInOrder
<1> QED BY <1>4, <1>5, <1>6, <1>7, <1>8 DEF Orderly

LEMMA ReadOrder == ASSUME PlanInv, Orderly, ReadPage PROVE Orderly'
<1>1. PICK E \in SUBSET {c \in Page(planner.page) : logs[c] = "none" /\ ~paused},
           skipped \in SUBSET Page(planner.page) :
        /\ planner' = [planner EXCEPT !.pc = "flushing", !.held = Withheld(E, skipped),
                           !.skipped = skipped, !.staged = Staged(E, skipped), !.next = 0,
                           !.scheduled = @ + Cardinality(Staged(E, skipped))]
        /\ owed' = owed \union Staged(E, skipped)
  BY DEF ReadPage
<1>2. /\ UNCHANGED <<rows, jobs, deferred, logs, campaign, finalize, paused, bounds>>
      /\ planner.pc = "reading" /\ planner.staged = {} /\ planner.next = 0
  BY DEF ReadPage, Orderly, PlannerInOrder
<1> DEFINE S == Staged(E, skipped)
           W == Withheld(E, skipped)
<1>3. /\ planner'.pc = "flushing" /\ planner'.page = planner.page /\ planner'.chunk = planner.chunk
      /\ planner'.next = 0 /\ planner'.held = W /\ planner'.skipped = skipped /\ planner'.staged = S
      /\ planner'.scheduled = planner.scheduled + Cardinality(S)
  BY <1>1, Typed DEF Planners
<1>4. /\ S \subseteq Page(planner.page) /\ S \in SUBSET Customers /\ W \union skipped \subseteq Page(planner.page)
      /\ S \intersect (W \union skipped) = {} /\ \A c \in S : logs[c] = "none"
  BY DEF Staged, Withheld, Page
<1>5. owed' = owed \union S
  BY <1>1
<1> HIDE DEF S, W
<1>6. Past' = Past /\ NextIndex' = NextIndex
  BY <1>2, <1>3 DEF Past, NextIndex
<1>7. owed \subseteq Past /\ owed \intersect S = {} /\ owed \in SUBSET Customers
  BY <1>2, <1>4, PagesApart, Typed DEF Orderly, OwedInOrder
<1>8. Cardinality(owed') = Cardinality(owed) + Cardinality(S)
  BY <1>4, <1>5, <1>7, Together
<1>9. PlannerInOrder'
  <2>1. ChunkCount(S) \in Nat
    BY <1>4, Chunking
  <2> QED BY <1>2, <1>3, <1>4, <1>6, <2>1 DEF Orderly, PlannerInOrder, bounds
<1>10. OwedInOrder'
  BY <1>2, <1>3, <1>4, <1>5, <1>6, <1>7, <1>8 DEF Orderly, OwedInOrder, HeldLogs
<1>11. RowsInOrder'
  BY <1>2, <1>3, <1>5, <1>6 DEF Orderly, RowsInOrder
<1>12. JobsInOrder' /\ ClosedInOrder'
  BY <1>2, <1>3, <1>6 DEF Orderly, JobsInOrder, ClosedInOrder
<1> QED BY <1>9, <1>10, <1>11, <1>12 DEF Orderly

LEMMA FlushOrder == ASSUME PlanInv, Orderly, flushPlannedLogs PROVE Orderly'
<1>1. /\ UNCHANGED <<rows, jobs, deferred, campaign, finalize, paused, owed, heldBack, bounds>>
      /\ planner.pc = "flushing" /\ logs' = [c \in Customers |-> HeldLog(c)]
      /\ planner' = [planner EXCEPT !.pc = "writing"]
  BY DEF flushPlannedLogs, decided
<1>2. /\ planner'.pc = "writing" /\ planner'.page = planner.page /\ planner'.chunk = planner.chunk
      /\ planner'.next = planner.next /\ planner'.held = planner.held /\ planner'.skipped = planner.skipped
      /\ planner'.staged = planner.staged /\ planner'.scheduled = planner.scheduled
  BY <1>1, Typed DEF Planners
<1>3. Past' = Past /\ NextIndex' = NextIndex
  BY <1>2 DEF Past, NextIndex
<1>4. owed \intersect (planner.held \union planner.skipped) = {} /\ owed \subseteq Customers
  BY PagesApart, Typed DEF Orderly, OwedInOrder, PlannerInOrder
<1>5. /\ \A c \in Customers : logs'[c] \in HeldLogs \/ logs'[c] = logs[c]
      /\ \A c \in owed : logs'[c] = logs[c]
  BY <1>1, <1>4 DEF HeldLog, HeldLogs
<1>6. PlannerInOrder'
  BY <1>1, <1>2, <1>3 DEF Orderly, PlannerInOrder, bounds
<1>7. OwedInOrder'
  BY <1>1, <1>2, <1>3, <1>5 DEF Orderly, OwedInOrder, HeldLogs, Outcomes
<1>8. RowsInOrder'
  BY <1>1, <1>2, <1>3 DEF Orderly, RowsInOrder
<1>9. JobsInOrder' /\ ClosedInOrder'
  BY <1>1, <1>2, <1>3 DEF Orderly, JobsInOrder, ClosedInOrder
<1> QED BY <1>6, <1>7, <1>8, <1>9 DEF Orderly

(* The page's chunks fit behind those of the pages before.                  *)
LEMMA ChunksFit ==
    ASSUME PlanInv, Orderly
    PROVE  planner.chunk + ChunkCount(planner.staged) <= Cardinality(Past \union planner.staged)
           /\ planner.chunk + ChunkCount(planner.staged) <= LastCustomer
<1>1. Past \intersect planner.staged = {} /\ Past \in SUBSET Customers /\ planner.staged \in SUBSET Customers
  BY PagesApart, Typed DEF Orderly, PlannerInOrder
<1>2. /\ Cardinality(Past \union planner.staged) = Cardinality(Past) + Cardinality(planner.staged)
      /\ Cardinality(Past \union planner.staged) <= LastCustomer
  BY <1>1, Together, Finite
<1>3. /\ Cardinality(Past) \in Nat /\ Cardinality(planner.staged) \in Nat
      /\ ChunkCount(planner.staged) \in Nat /\ ChunkCount(planner.staged) <= Cardinality(planner.staged)
      /\ planner.chunk \in Nat /\ planner.chunk <= Cardinality(Past) /\ LastCustomer \in Nat
  BY <1>1, Finite, Chunking, Typed, PlanAssumption DEF Orderly, PlannerInOrder
<1> QED BY <1>2, <1>3

LEMMA WriteOrder == ASSUME PlanInv, Orderly, WriteRows PROVE Orderly'
<1>1. /\ UNCHANGED <<jobs, deferred, logs, campaign, finalize, paused, owed, heldBack, bounds>>
      /\ planner.pc = "writing" /\ planner' = [planner EXCEPT !.pc = "queueing"]
      /\ rows' = [n \in Indices |->
           IF rows[n] = NoRow /\ n >= planner.chunk
           THEN [NoRow EXCEPT !.deliveries = ChunkOf(planner.staged, n - planner.chunk)]
           ELSE rows[n]]
  BY DEF WriteRows, decided
<1>2. /\ planner'.pc = "queueing" /\ planner'.page = planner.page /\ planner'.chunk = planner.chunk
      /\ planner'.next = planner.next /\ planner'.held = planner.held /\ planner'.skipped = planner.skipped
      /\ planner'.staged = planner.staged /\ planner'.scheduled = planner.scheduled
  BY <1>1, Typed DEF Planners
<1>3. Past' = Past /\ NextIndex' = NextIndex /\ NextIndex = planner.chunk
  BY <1>1, <1>2, Typed DEF Past, NextIndex, Orderly, PlannerInOrder
<1>4. \A n \in Indices :
        /\ n < planner.chunk => rows'[n] = rows[n]
        /\ n >= planner.chunk => rows'[n] = PlannedRow(n - planner.chunk)
  BY <1>1, Typed DEF PlannedRow, Orderly, RowsInOrder
<1>5. \A k : PlannedRow(k)' = PlannedRow(k) /\ PlannedRow(k).deliveries = ChunkOf(planner.staged, k)
  BY <1>2 DEF PlannedRow, NoRow, ChunkOf
<1>6. PlannerInOrder' /\ OwedInOrder'
  BY <1>1, <1>2, <1>3 DEF Orderly, PlannerInOrder, OwedInOrder, bounds
<1>7. RowsInOrder'
  <2>1. \A n \in Indices : n < planner.chunk => rows'[n].deliveries \subseteq Past \intersect owed
    BY <1>4 DEF Orderly, RowsInOrder
  <2>2. \A n \in Indices : n >= planner.chunk => rows'[n].deliveries = ChunkOf(planner.staged, n - planner.chunk)
    BY <1>4, <1>5
  <2>3. ASSUME NEW n \in Indices, NEW m \in Indices, n # m
        PROVE  rows'[n].deliveries \intersect rows'[m].deliveries = {}
    <3>1. Past \intersect planner.staged = {}
      BY PagesApart DEF Orderly, PlannerInOrder
    <3>2. planner.chunk \in Nat /\ n \in Nat /\ m \in Nat /\ n - planner.chunk # m - planner.chunk
      BY <2>3, Typed
    <3>3. CASE n < planner.chunk /\ m < planner.chunk
      BY <1>4, <2>3, <3>3 DEF Orderly, RowsInOrder
    <3>4. CASE n >= planner.chunk /\ m >= planner.chunk
      <4>1. ChunkOf(planner.staged, n - planner.chunk) \intersect ChunkOf(planner.staged, m - planner.chunk) = {}
        BY <3>2, Chunking, Typed
      <4> QED BY <2>2, <3>4, <4>1
    <3>5. CASE n < planner.chunk /\ m >= planner.chunk
      BY <2>1, <2>2, <3>1, <3>5, ChunksAreParts, Typed
    <3>6. CASE n >= planner.chunk /\ m < planner.chunk
      BY <2>1, <2>2, <3>1, <3>6, ChunksAreParts, Typed
    <3> QED BY <3>2, <3>3, <3>4, <3>5, <3>6
  <2>4. ASSUME NEW c \in owed PROVE \E n \in Indices : c \in rows'[n].deliveries
    <3>1. CASE c \in planner.staged
      <4>1. PICK k \in Nat : k < ChunkCount(planner.staged) /\ c \in ChunkOf(planner.staged, k)
        BY <3>1, Chunking, Typed
      <4>2. planner.chunk + k \in Indices
        BY <4>1, ChunksFit, Chunking, Typed, PlanAssumption DEF Indices
      <4>3. planner.chunk + k >= planner.chunk /\ (planner.chunk + k) - planner.chunk = k
        BY <4>1, Typed
      <4> QED BY <2>2, <4>1, <4>2, <4>3
    <3>2. CASE c \notin planner.staged
      <4>1. PICK n \in Indices : c \in rows[n].deliveries
        BY <3>2 DEF Orderly, RowsInOrder
      <4>2. n < planner.chunk
        <5>1. CASE n >= planner.chunk
          BY <1>1, <4>1, <5>1 DEF Orderly, RowsInOrder, NoRow
        <5> QED BY <5>1, Typed
      <4> QED BY <1>4, <4>1, <4>2
    <3> QED BY <3>1, <3>2
  <2>5. \A n \in Indices : n >= NextIndex => rows'[n] = PlannedRow(n - planner.chunk)'
    BY <1>2, <1>3, <1>4, <1>5
  <2>6. \A n \in Indices : n < planner'.chunk => rows'[n].deliveries \subseteq Past' \intersect owed'
    BY <1>1, <1>2, <1>3, <2>1
  <2>7. \A n \in Indices : n >= planner'.chunk =>
          rows'[n].deliveries = ChunkOf(planner'.staged, n - planner'.chunk)
    BY <1>2, <2>2
  <2> QED BY <1>1, <1>2, <1>3, <2>3, <2>4, <2>5, <2>6, <2>7 DEF RowsInOrder, ChunkOf
<1>8. JobsInOrder'
  BY <1>1, <1>3, <1>4, Typed DEF Orderly, JobsInOrder
<1>9. ClosedInOrder'
  BY <1>1, <1>2 DEF Orderly, ClosedInOrder
<1> QED BY <1>6, <1>7, <1>8, <1>9 DEF Orderly

LEMMA QueueOrder == ASSUME PlanInv, Orderly, QueueChunk PROVE Orderly'
<1>1. /\ UNCHANGED <<rows, deferred, logs, campaign, finalize, paused, owed, heldBack, bounds>>
      /\ planner.pc = "queueing" /\ planner.next < ChunkCount(planner.staged)
      /\ planner' = [planner EXCEPT !.next = planner.next + 1]
      /\ jobs' = IF jobs[<<NextIndex, 0>>] = NoJob
                 THEN [jobs EXCEPT ![<<NextIndex, 0>>] = Queued(ChunkOf(planner.staged, planner.next))]
                 ELSE jobs
  BY DEF QueueChunk, decided, NextIndex
<1>2. /\ planner'.pc = "queueing" /\ planner'.page = planner.page /\ planner'.chunk = planner.chunk
      /\ planner'.next = planner.next + 1
      /\ planner'.held = planner.held /\ planner'.skipped = planner.skipped
      /\ planner'.staged = planner.staged /\ planner'.scheduled = planner.scheduled
  BY <1>1, Typed DEF Planners
<1>3. Past' = Past /\ NextIndex' = NextIndex + 1
  BY <1>2, Typed DEF Past, NextIndex
<1>4. \A k : PlannedRow(k)' = PlannedRow(k) /\ PlannedRow(k).deliveries = ChunkOf(planner.staged, k)
  BY <1>2 DEF PlannedRow, NoRow, ChunkOf
<1>5. planner.next + 1 <= ChunkCount(planner.staged)
  BY <1>1, Chunking, Typed
<1>6. PlannerInOrder' /\ OwedInOrder'
  BY <1>1, <1>2, <1>3, <1>5 DEF Orderly, PlannerInOrder, OwedInOrder, bounds
<1>7. RowsInOrder'
  <2>1. \A n \in Indices : n >= NextIndex + 1 => n >= NextIndex
    BY Typed
  <2> QED BY <1>1, <1>2, <1>3, <1>4, <2>1 DEF Orderly, RowsInOrder, ChunkOf
<1>8. JobsInOrder'
  <2> SUFFICES ASSUME NEW j \in JobIds, jobs'[j].state # "missing"
               PROVE  j[1] < NextIndex + 1 /\ jobs'[j].batch = rows[j[1]].deliveries
    BY <1>1, <1>3 DEF JobsInOrder
  <2>1. CASE jobs'[j] = jobs[j]
    BY <2>1, Typed DEF Orderly, JobsInOrder
  <2>2. CASE jobs'[j] # jobs[j]
    <3>1. j = <<NextIndex, 0>> /\ jobs'[j] = Queued(ChunkOf(planner.staged, planner.next))
      BY <1>1, <2>2, Typed
    <3>2. j[1] = NextIndex /\ NextIndex \in Indices /\ jobs'[j].batch = ChunkOf(planner.staged, planner.next)
      BY <3>1, Typed DEF Queued
    <3>3. NextIndex >= planner.chunk /\ NextIndex - planner.chunk = planner.next
      BY Typed DEF NextIndex
    <3>4. rows[NextIndex].deliveries = ChunkOf(planner.staged, planner.next)
      BY <1>1, <3>2, <3>3 DEF Orderly, RowsInOrder
    <3> QED BY <3>2, <3>4, Typed
  <2> QED BY <2>1, <2>2
<1>9. ClosedInOrder'
  BY <1>1, <1>2 DEF Orderly, ClosedInOrder
<1> QED BY <1>6, <1>7, <1>8, <1>9 DEF Orderly

LEMMA NextOrder == ASSUME PlanInv, Orderly, NextPage PROVE Orderly'
<1> DEFINE C == ChunkCount(planner.staged)
<1>1. /\ UNCHANGED <<rows, jobs, deferred, logs, campaign, finalize, paused, owed, heldBack, bounds>>
      /\ planner.pc = "queueing" /\ planner.next = C /\ NextIndex = planner.chunk + C /\ C \in Nat
      /\ planner' = [planner EXCEPT !.pc = "reading", !.page = planner.page + 1, !.chunk = NextIndex,
                        !.next = 0, !.held = {}, !.skipped = {}, !.staged = {}]
  BY Chunking, Typed DEF NextPage, decided, NextIndex
<1>2. /\ planner'.pc = "reading" /\ planner'.page = planner.page + 1 /\ planner'.chunk = NextIndex
      /\ planner'.next = 0 /\ planner'.held = {} /\ planner'.skipped = {}
      /\ planner'.staged = {} /\ planner'.scheduled = planner.scheduled
  BY <1>1, Typed DEF Planners
<1>3. NextIndex' = NextIndex
  BY <1>2, Typed DEF NextIndex
<1>4. Past \union planner.staged \subseteq Past' /\ Past' \in SUBSET Customers
  <2>1. \A c \in planner.staged : c \in Customers /\ PageOf(c) = planner.page
    BY Typed DEF Orderly, PlannerInOrder, Page, PageOf
  <2>2. \A c \in Customers : PageOf(c) \in Nat
    <3>1. \A a \in Nat, m \in Nat \ {0} : a \div m \in Nat
      BY SMT
    <3>2. \A c \in Customers : c - 1 \in Nat
      BY PlanAssumption DEF Customers
    <3> QED BY <3>1, <3>2, PlanAssumption DEF PageOf
  <2>3. Past' = {c \in Customers : PageOf(c) < planner.page + 1}
    BY <1>2 DEF Past, PageOf
  <2> QED BY <2>1, <2>2, <2>3, Typed DEF Past
<1>5. PlannerInOrder'
  <2>1. Cardinality(Past \union planner.staged) <= Cardinality(Past')
    BY <1>4, Smaller
  <2>2. /\ Cardinality(Past \union planner.staged) \in Nat /\ Cardinality(Past') \in Nat
        /\ NextIndex <= Cardinality(Past \union planner.staged)
    BY <1>1, <1>4, ChunksFit, Finite
  <2>3. NextIndex <= Cardinality(Past')
    BY <1>1, <2>1, <2>2, Typed
  <2>4. 0 <= ChunkCount({})
    BY Chunking
  <2> QED BY <1>1, <1>2, <2>3, <2>4 DEF Orderly, PlannerInOrder, bounds
<1>6. OwedInOrder'
  BY <1>1, <1>2, <1>4 DEF Orderly, OwedInOrder
<1>7. RowsInOrder'
  <2>1. ASSUME NEW n \in Indices, n < NextIndex PROVE rows[n].deliveries \subseteq Past' \intersect owed
    <3>1. CASE n < planner.chunk
      BY <1>4, <3>1 DEF Orderly, RowsInOrder
    <3>2. CASE n >= planner.chunk
      <4>1. rows[n].deliveries = ChunkOf(planner.staged, n - planner.chunk)
        BY <1>1, <3>2 DEF Orderly, RowsInOrder
      <4> QED BY <1>4, <4>1, ChunksAreParts, Typed DEF Orderly, OwedInOrder
    <3> QED BY <3>1, <3>2, Typed
  <2>2. ASSUME NEW n \in Indices, n >= NextIndex PROVE rows[n] = NoRow
    <3>1. n \in Nat /\ planner.chunk \in Nat /\ n - planner.chunk \in Nat /\ n - planner.chunk >= C
      BY <1>1, <2>2, Typed
    <3>2. ChunkOf(planner.staged, n - planner.chunk) = {}
      BY <3>1, Chunking, Typed
    <3>3. rows[n] = PlannedRow(n - planner.chunk)
      BY <1>1, <2>2 DEF Orderly, RowsInOrder
    <3> QED BY <3>2, <3>3 DEF PlannedRow, NoRow
  <2> QED BY <1>1, <1>2, <2>1, <2>2 DEF Orderly, RowsInOrder
<1>8. JobsInOrder' /\ ClosedInOrder'
  BY <1>1, <1>2, <1>3 DEF Orderly, JobsInOrder, ClosedInOrder
<1> QED BY <1>5, <1>6, <1>7, <1>8 DEF Orderly

LEMMA CloseOrder == ASSUME PlanInv, Orderly, ClosePlan \/ QueueFinalize PROVE Orderly'
<1>1. /\ UNCHANGED <<rows, jobs, deferred, logs, paused, owed, heldBack, bounds>>
      /\ planner.pc \in {"reading", "closing"} /\ planner'.pc \in {"closing", "done"}
      /\ planner' = [planner EXCEPT !.pc = planner'.pc]
  BY Typed DEF ClosePlan, QueueFinalize, decided, Planners
<1>2. /\ planner'.page = planner.page /\ planner'.chunk = planner.chunk /\ planner'.next = planner.next
      /\ planner'.held = planner.held /\ planner'.skipped = planner.skipped
      /\ planner'.staged = planner.staged /\ planner'.scheduled = planner.scheduled
  BY <1>1, Typed DEF Planners
<1>3. Past' = Past /\ NextIndex' = NextIndex
  BY <1>2 DEF Past, NextIndex
<1>4. PlannerInOrder' /\ OwedInOrder'
  BY <1>1, <1>2, <1>3 DEF Orderly, PlannerInOrder, OwedInOrder, bounds
<1>5. RowsInOrder' /\ JobsInOrder'
  BY <1>1, <1>2, <1>3 DEF Orderly, RowsInOrder, JobsInOrder
<1>6. ClosedInOrder'
  <2>1. CASE ClosePlan
    BY <1>1, <2>1 DEF ClosePlan, Orderly, OwedInOrder, ClosedInOrder
  <2>2. CASE QueueFinalize
    <3>1. planner.pc = "closing" /\ planner'.pc = "done" /\ UNCHANGED campaign
      BY <2>2, Typed DEF QueueFinalize, Planners
    <3>2. campaign.status # "sent"
      BY <3>1 DEF Orderly, ClosedInOrder
    <3> QED BY <1>1, <3>1, <3>2 DEF Orderly, ClosedInOrder
  <2> QED BY <2>1, <2>2
<1> QED BY <1>4, <1>5, <1>6 DEF Orderly

-----------------------------------------------------------------------------
(* What follows the planner *)

(* Jobs, logs and rows go on among those who are owed a delivery; a log     *)
(* that says sent stays.                                                    *)
LEMMA DrivenOrder ==
    ASSUME PlanInv, Orderly, UNCHANGED <<planner, owed, crashes, finalize, campaign>>,
           \A c \in Customers : \/ logs'[c] = logs[c]
                                \/ /\ c \in owed /\ logs[c] # "sent"
                                   /\ logs'[c] \in Outcomes \union {"queued"},
           deferred' \subseteq owed,
           \A n \in Indices : /\ rows'[n].deliveries = rows[n].deliveries
                              /\ n >= NextIndex => rows'[n] = rows[n],
           \A j \in JobIds : jobs'[j].state # "missing" =>
               j[1] < NextIndex /\ jobs'[j].batch = rows[j[1]].deliveries
    PROVE  Orderly'
<1>1. Past' = Past /\ NextIndex' = NextIndex /\ \A k : PlannedRow(k)' = PlannedRow(k)
  BY DEF Past, NextIndex, PlannedRow
<1>2. PlannerInOrder'
  BY <1>1 DEF Orderly, PlannerInOrder
<1>3. OwedInOrder'
  BY <1>1, Typed DEF Orderly, OwedInOrder, HeldLogs, Outcomes
<1>4. RowsInOrder'
  <2>1. ASSUME planner.pc # "queueing" PROVE \A n \in Indices : n >= planner.chunk => rows'[n] = NoRow
    <3>1. NextIndex = planner.chunk
      BY <2>1, Typed DEF NextIndex, Orderly, PlannerInOrder
    <3> QED BY <2>1, <3>1 DEF Orderly, RowsInOrder
  <2>2. \A n \in Indices : n < planner.chunk => rows'[n].deliveries \subseteq Past' \intersect owed'
    BY <1>1 DEF Orderly, RowsInOrder
  <2>3. planner.pc = "queueing" =>
          /\ \A n \in Indices : n >= planner.chunk =>
               rows'[n].deliveries = ChunkOf(planner.staged, n - planner.chunk)
          /\ \A n \in Indices : n >= NextIndex => rows'[n] = PlannedRow(n - planner.chunk)
    BY DEF Orderly, RowsInOrder
  <2>4. /\ \A n, m \in Indices : n # m => rows'[n].deliveries \intersect rows'[m].deliveries = {}
        /\ \A c \in owed : \/ planner.pc \in {"flushing", "writing"} /\ c \in planner.staged
                           \/ \E n \in Indices : c \in rows'[n].deliveries
    BY DEF Orderly, RowsInOrder
  <2> QED BY <1>1, <2>1, <2>2, <2>3, <2>4 DEF RowsInOrder, ChunkOf
<1>5. JobsInOrder'
  BY <1>1, Typed DEF JobsInOrder
<1>6. ClosedInOrder'
  BY Typed DEF Orderly, ClosedInOrder
<1> QED BY <1>2, <1>3, <1>4, <1>5, <1>6 DEF Orderly

LEMMA RowsOwed ==
    ASSUME PlanInv, Orderly
    PROVE  /\ \A n \in Indices : rows[n].deliveries \subseteq owed
           /\ \A j \in JobIds : jobs[j].state # "missing" =>
                /\ j[1] \in Indices /\ j[1] < NextIndex /\ jobs[j].batch = rows[j[1]].deliveries
                /\ jobs[j].todo \subseteq jobs[j].batch /\ jobs[j].batch \subseteq owed
<1>1. ASSUME NEW n \in Indices PROVE rows[n].deliveries \subseteq owed
  <2>1. CASE n < planner.chunk
    BY <2>1 DEF Orderly, RowsInOrder
  <2>2. CASE n >= planner.chunk /\ planner.pc = "queueing"
    BY <2>2, ChunksAreParts, Typed DEF Orderly, RowsInOrder, OwedInOrder
  <2>3. CASE n >= planner.chunk /\ planner.pc # "queueing"
    BY <2>3 DEF Orderly, RowsInOrder, NoRow
  <2> QED BY <2>1, <2>2, <2>3, Typed
<1> QED BY <1>1, Typed DEF Orderly, JobsInOrder, PlanInv, Types

LEMMA ChunkOrder ==
    ASSUME PlanInv, Orderly, NEW j \in JobIds, RunChunk(j) \/ ChunkFails(j) \/ LoseJob(j)
    PROVE  Orderly'
<1>1. /\ UNCHANGED <<planner, owed, crashes, finalize, campaign>> /\ jobs[j].state # "missing"
  BY DEF RunChunk, StartChunk, FinishChunk, Deliver, Defer, Pace, Delivering, ChunkFails, LoseJob, decided, bounds
<1>2. /\ rows \in [Indices -> RowRecords] /\ jobs \in [JobIds -> JobRecords]
      /\ logs \in [Customers -> LogStates] /\ deferred \subseteq owed /\ j[1] \in Indices
  BY Typed DEF Orderly, OwedInOrder
<1>3. \A c \in Customers : \/ logs'[c] = logs[c]
                           \/ /\ c \in owed /\ logs[c] # "sent"
                              /\ logs'[c] \in Outcomes \union {"queued"}
  <2>1. jobs[j].todo \subseteq owed
    BY <1>1, RowsOwed
  <2> QED BY <1>2, <2>1
       DEF RunChunk, StartChunk, FinishChunk, Deliver, Defer, Pace, Delivering, ChunkFails, LoseJob, Retryable,
           Outcomes
<1>4. deferred' \subseteq owed
  BY <1>1, <1>2, RowsOwed
     DEF RunChunk, StartChunk, FinishChunk, Deliver, Defer, Pace, Delivering, ChunkFails, LoseJob
<1>5. \A n \in Indices : /\ rows'[n].deliveries = rows[n].deliveries
                         /\ n >= NextIndex => rows'[n] = rows[n]
  <2>1. CASE FinishChunk(j)
    <3>1. rows' = [rows EXCEPT ![j[1]].completed = TRUE] /\ j[1] < NextIndex
      BY <1>1, <2>1, RowsOwed DEF FinishChunk
    <3>2. \A n \in Indices : rows'[n].deliveries = rows[n].deliveries
      BY <1>2, <3>1 DEF RowRecords
    <3>3. \A n \in Indices : n # j[1] => rows'[n] = rows[n]
      BY <1>2, <3>1
    <3> QED BY <3>1, <3>2, <3>3, Typed
  <2>2. CASE ~FinishChunk(j)
    BY <2>2 DEF RunChunk, StartChunk, Deliver, Defer, Pace, ChunkFails, LoseJob
  <2> QED BY <2>1, <2>2
<1>6. \A i \in JobIds : jobs'[i].state # "missing" => jobs[i].state # "missing" /\ jobs'[i].batch = jobs[i].batch
  <2>1. CASE StartChunk(j) \/ FinishChunk(j) \/ ChunkFails(j)
    BY <1>1, <1>2, <2>1 DEF StartChunk, FinishChunk, ChunkFails, JobRecords
  <2>2. ASSUME NEW c \in Customers, Deliver(j, c) \/ Defer(j, c) \/ Pace(j, c)
        PROVE  \A i \in JobIds : jobs'[i].state # "missing" =>
                   jobs[i].state # "missing" /\ jobs'[i].batch = jobs[i].batch
    BY <1>1, <1>2, <2>2 DEF Deliver, Defer, Pace, Handled, PutBack, JobRecords
  <2>3. CASE LoseJob(j)
    BY <1>2, <2>3 DEF LoseJob, NoJob
  <2> QED BY <2>1, <2>2, <2>3 DEF RunChunk
<1>7. \A i \in JobIds : jobs'[i].state # "missing" =>
        i[1] < NextIndex /\ jobs'[i].batch = rows[i[1]].deliveries
  BY <1>6, RowsOwed
<1> QED BY <1>1, <1>3, <1>4, <1>5, <1>7, DrivenOrder

LEMMA DeferredOrder ==
    ASSUME PlanInv, Orderly, NEW c \in Customers, RunDeferred(c) \/ DeferredFails(c)
    PROVE  Orderly'
<1>1. /\ UNCHANGED <<planner, rows, jobs, owed, crashes, finalize, campaign>>
      /\ deferred' \subseteq owed /\ c \in owed
  BY DEF RunDeferred, DeferredFails, decided, bounds, Orderly, OwedInOrder
<1>2. \A d \in Customers : \/ logs'[d] = logs[d]
                           \/ /\ d \in owed /\ logs[d] # "sent"
                              /\ logs'[d] \in Outcomes \union {"queued"}
  BY <1>1, Typed DEF RunDeferred, DeferredFails, Retryable
<1> QED BY <1>1, <1>2, RowsOwed, DrivenOrder

LEMMA RecoverOrder ==
    ASSUME PlanInv, Orderly, NEW n \in Indices, recoverStrandedDeliveries(n)
    PROVE  Orderly'
<1> DEFINE r == rows[n].recoveries + 1
<1>1. /\ UNCHANGED <<planner, logs, deferred, owed, crashes, finalize, campaign>>
      /\ jobs' = [jobs EXCEPT ![<<n, r>>] = Queued(rows[n].deliveries)]
      /\ rows' = [rows EXCEPT ![n].recoveries = r]
      /\ planner.pc # "queueing" /\ rows[n] # NoRow
  BY DEF recoverStrandedDeliveries, Stranded, decided, bounds
<1> HIDE DEF r
<1>2. n < NextIndex
  <2>1. NextIndex = planner.chunk
    BY <1>1, Typed DEF NextIndex, Orderly, PlannerInOrder
  <2> QED BY <1>1, <2>1, Typed DEF Orderly, RowsInOrder
<1>3. \A m \in Indices : /\ rows'[m].deliveries = rows[m].deliveries
                         /\ m >= NextIndex => rows'[m] = rows[m]
  <2>1. \A m \in Indices : rows'[m].deliveries = rows[m].deliveries
    BY <1>1, Typed DEF RowRecords
  <2> QED BY <1>1, <1>2, <2>1, Typed
<1>4. \A j \in JobIds : jobs'[j].state # "missing" =>
        j[1] < NextIndex /\ jobs'[j].batch = rows[j[1]].deliveries
  <2>1. ASSUME NEW j \in JobIds, j # <<n, r>> PROVE jobs'[j] = jobs[j]
    BY <1>1, <2>1, Typed
  <2>2. ASSUME <<n, r>> \in JobIds PROVE jobs'[<<n, r>>].batch = rows[n].deliveries
    BY <1>1, <2>2, Typed DEF Queued
  <2> QED BY <1>2, <2>1, <2>2, RowsOwed
<1>5. deferred' \subseteq owed
  BY <1>1 DEF Orderly, OwedInOrder
<1> QED BY <1>1, <1>3, <1>4, <1>5, DrivenOrder

LEMMA PauseOrder == ASSUME PlanInv, Orderly, setEmailSendingPaused \/ UNCHANGED vars PROVE Orderly'
<1>1. UNCHANGED <<planner, rows, jobs, logs, deferred, owed, crashes, finalize, campaign>>
  BY DEF setEmailSendingPaused, vars, decided, bounds
<1> QED BY <1>1, RowsOwed, DrivenOrder DEF Orderly, OwedInOrder

(* Only those who are owed a delivery are counted, each once: when as many  *)
(* are counted as are owed, it is everyone.                                 *)
LEMMA CountedIsOwed ==
    ASSUME PlanInv, Orderly
    PROVE  /\ Completed >= Cardinality(owed) => \A c \in owed : logs[c] \in Outcomes
           /\ Count("sent") = Cardinality(owed) => \A c \in owed : logs[c] = "sent"
<1> DEFINE With(status) == {c \in Customers \ Control : logs[c] = status}
<1>1. owed \in SUBSET Customers
  BY Typed
<1>2. \A status \in Outcomes : With(status) \in SUBSET owed
  BY DEF Orderly, OwedInOrder
<1> DEFINE S == With("sent")
           F == With("failed")
           U == With("suppressed")
<1>3. /\ S \in SUBSET owed /\ F \in SUBSET owed /\ U \in SUBSET owed
      /\ S \intersect F = {} /\ (S \union F) \intersect U = {}
  BY <1>2 DEF Outcomes
<1>4. Count("sent") = Cardinality(S) /\ Completed = Cardinality(S) + Cardinality(F) + Cardinality(U)
  BY DEF Count, Completed
<1>5. \A c \in S \union F \union U : logs[c] \in Outcomes
  BY DEF Outcomes
<1>6. \A c \in S : logs[c] = "sent"
  OBVIOUS
<1> HIDE DEF S, F, U
<1>7. Cardinality(S \union F \union U) = Completed
  <2>1. S \in SUBSET Customers /\ F \in SUBSET Customers /\ U \in SUBSET Customers
    BY <1>1, <1>3
  <2>2. Cardinality(S \union F) = Cardinality(S) + Cardinality(F)
    BY <1>3, <2>1, Together
  <2>3. Cardinality((S \union F) \union U) = Cardinality(S \union F) + Cardinality(U)
    BY <1>3, <2>1, Together
  <2> QED BY <1>4, <2>2, <2>3
<1>8. Completed >= Cardinality(owed) => S \union F \union U = owed
  <2>1. S \union F \union U \in SUBSET owed
    BY <1>3
  <2>2. /\ Cardinality(S \union F \union U) <= Cardinality(owed)
        /\ Cardinality(S \union F \union U) = Cardinality(owed) => S \union F \union U = owed
    BY <1>1, <2>1, Smaller
  <2>3. Cardinality(S \union F \union U) \in Nat /\ Cardinality(owed) \in Nat
    BY <1>1, <2>1, Finite
  <2> QED BY <1>7, <2>2, <2>3
<1>9. Count("sent") = Cardinality(owed) => S = owed
  BY <1>1, <1>3, <1>4, Smaller
<1> QED BY <1>5, <1>6, <1>8, <1>9

LEMMA FinalizeOrder == ASSUME PlanInv, Orderly, finalizeCampaign PROVE Orderly'
<1>1. /\ UNCHANGED <<planner, rows, jobs, deferred, logs, owed, crashes>>
      /\ campaign' = [campaign EXCEPT !.status = FinalStatus] /\ finalize' = "done" /\ planner.pc = "done"
  BY DEF finalizeCampaign, decided, bounds, Orderly, ClosedInOrder
<1>2. Past' = Past /\ NextIndex' = NextIndex /\ \A k : PlannedRow(k)' = PlannedRow(k)
  BY <1>1 DEF Past, NextIndex, PlannedRow
<1>3. PlannerInOrder' /\ OwedInOrder' /\ RowsInOrder' /\ JobsInOrder'
  BY <1>1, <1>2 DEF Orderly, PlannerInOrder, OwedInOrder, RowsInOrder, JobsInOrder
<1>4. ClosedInOrder'
  <2>1. campaign \in Campaigns /\ campaign.scheduled = Cardinality(owed)
    BY <1>1 DEF PlanInv, Types, Orderly, ClosedInOrder
  <2>2. campaign'.scheduled = campaign.scheduled /\ campaign'.status = FinalStatus
    BY <1>1, <2>1 DEF Campaigns
  <2>3. FinalStatus = "sent" => \A c \in owed : logs[c] = "sent"
    BY <2>1, CountedIsOwed DEF FinalStatus
  <2> QED BY <1>1, <2>1, <2>2, <2>3 DEF ClosedInOrder
<1> QED BY <1>3, <1>4 DEF Orderly

LEMMA InitOrder == Init => Orderly
<1> SUFFICES ASSUME Init PROVE Orderly
  OBVIOUS
<1> USE DEF Init, Idle
<1>1. PlanInv
  BY InitType
<1>2. PlannerInOrder
  <2>1. ChunkCount({}) \in Nat /\ Cardinality(Past) \in Nat
    BY <1>1, Chunking, Typed, Finite
  <2> QED BY <2>1 DEF PlannerInOrder
<1>3. OwedInOrder
  BY FS_EmptySet DEF OwedInOrder, Outcomes
<1>4. RowsInOrder
  BY DEF RowsInOrder, NoRow, Indices
<1>5. JobsInOrder /\ ClosedInOrder
  BY DEF JobsInOrder, ClosedInOrder, NoJob
<1> QED BY <1>2, <1>3, <1>4, <1>5 DEF Orderly

LEMMA OrderStep == ASSUME PlannedOnce, PlanInv, Orderly, [Next]_vars PROVE Orderly'
<1>1. CASE Plan
  BY <1>1, StartOrder, ReadOrder, FlushOrder, WriteOrder, QueueOrder, NextOrder, CloseOrder DEF Plan
<1>2. CASE PlannerDies
  BY <1>2 DEF PlannerDies, PlannedOnce, Orderly, PlannerInOrder
<1> QED BY <1>1, <1>2, ChunkOrder, DeferredOrder, RecoverOrder, FinalizeOrder, PauseOrder DEF Next

LEMMA OrderHolds == ASSUME PlannedOnce PROVE Spec => [](PlanInv /\ Orderly)
<1>1. Init => PlanInv /\ Orderly
  BY InitType, InitOrder
<1>2. PlanInv /\ Orderly /\ [Next]_vars => (PlanInv /\ Orderly)'
  BY TypeStep, OrderStep
<1> QED BY <1>1, <1>2, PTL DEF Spec

(* A planner that is not run again writes every delivery it scheduled to a  *)
(* chunk row, for any cohort, page and chunk size (send.worker.ts, the      *)
(* chunk index across pages).                                               *)
THEOREM NobodyIsDropped == ASSUME PlannedOnce PROVE Spec => []NobodyDropped
<1>1. Orderly => NobodyDropped
  BY DEF Orderly, RowsInOrder, NobodyDropped
<1> QED BY <1>1, OrderHolds, PTL

(* A campaign is closed only when every delivery it scheduled has its       *)
(* outcome, whatever is lost, deferred or paused on the way                 *)
(* (send.worker.ts, the finalize job's counts).                             *)
THEOREM CompletionIsEarned == ASSUME PlannedOnce PROVE Spec => CompletionNotManufactured
<1>1. ASSUME PlanInv, Orderly, Next, finalize' # finalize, finalize' = "done"
      PROVE  \A c \in owed : logs[c] \in Outcomes
  <2>1. finalizeCampaign
    BY <1>1 DEF Next, Plan, StartPlanning, ReadPage, flushPlannedLogs, WriteRows, QueueChunk, NextPage, ClosePlan,
       QueueFinalize, PlannerDies, RunChunk, StartChunk, FinishChunk, Deliver, Defer, Pace, ChunkFails, LoseJob,
       RunDeferred, DeferredFails, recoverStrandedDeliveries, setEmailSendingPaused
  <2>2. campaign.scheduled = Cardinality(owed) /\ Completed >= campaign.scheduled
    BY <1>1, <2>1 DEF finalizeCampaign, Orderly, ClosedInOrder
  <2> QED BY <1>1, <2>2, CountedIsOwed
<1>2. PlanInv /\ Orderly /\ [Next]_vars =>
        [finalize' # finalize /\ finalize' = "done" => \A c \in owed : logs[c] \in Outcomes]_vars
  BY <1>1
<1> QED BY <1>2, OrderHolds, PTL DEF Spec, CompletionNotManufactured

(* A campaign called sent had every scheduled delivery accepted, and no     *)
(* late job changes that (send.worker.ts, the final status).                *)
THEOREM SentIsEverybody == ASSUME PlannedOnce PROVE Spec => []SentMeansAllAccepted
<1>1. Orderly => SentMeansAllAccepted
  BY DEF Orderly, ClosedInOrder, SentMeansAllAccepted
<1> QED BY <1>1, OrderHolds, PTL

-----------------------------------------------------------------------------
(* Chunks settle when nothing is paused and no deliver-one job is lost *)

LEMMA SettleInit == ASSUME Init PROVE ChunksSettle
BY DEF Init, ChunksSettle, FinishedIsSettled, NoRow, NoJob, Pending

LEMMA SettlePlan == ASSUME PlanInv, Orderly, ChunksSettle, Plan PROVE ChunksSettle'
<1>1. UNCHANGED <<deferred, paused, bounds>>
  BY DEF Plan, StartPlanning, ReadPage, flushPlannedLogs, WriteRows, QueueChunk, NextPage, ClosePlan,
     QueueFinalize
<1>2. \A c \in owed : logs'[c] = logs[c]
  <2>1. CASE flushPlannedLogs
    <3>1. owed \intersect (planner.held \union planner.skipped) = {} /\ owed \subseteq Customers
      BY PagesApart, Typed DEF Orderly, OwedInOrder, PlannerInOrder
    <3> QED BY <2>1, <3>1 DEF flushPlannedLogs, HeldLog
  <2>2. CASE ~flushPlannedLogs
    BY <2>2 DEF Plan, StartPlanning, ReadPage, WriteRows, QueueChunk, NextPage, ClosePlan, QueueFinalize
  <2> QED BY <2>1, <2>2
<1>3. \A c \in owed : Settled(c) => Settled(c)'
  BY <1>1, <1>2 DEF Settled
<1>4. CASE WriteRows
  <2>1. UNCHANGED jobs /\ planner.pc = "writing" /\ NextIndex = planner.chunk
    BY <1>4, Typed DEF WriteRows, Orderly, PlannerInOrder, NextIndex
  <2>2. \A n \in Indices : \/ rows'[n] = rows[n]
                           \/ n >= NextIndex /\ ~rows'[n].completed
    BY <1>4, <2>1 DEF WriteRows, NoRow
  <2>3. \A j \in JobIds : jobs[j].state # "missing" => rows'[j[1]] = rows[j[1]]
    BY <2>1, <2>2, RowsOwed, Typed
       DEF Orderly, RowsInOrder, WriteRows
  <2>4. \A j \in JobIds : jobs'[j].state \in Pending => j[2] = rows'[j[1]].recoveries /\ ~rows'[j[1]].completed
    BY <2>1, <2>3 DEF ChunksSettle, Pending
  <2>5. \A j \in JobIds : jobs'[j].state = "active" => \A c \in jobs'[j].batch \ jobs'[j].todo : Settled(c)'
    BY <1>3, <2>1, RowsOwed DEF ChunksSettle
  <2>6. FinishedIsSettled'
    BY <1>3, <2>2, RowsOwed DEF ChunksSettle, FinishedIsSettled, Settled
  <2> QED BY <1>1, <2>4, <2>5, <2>6 DEF ChunksSettle, bounds
<1>5. CASE QueueChunk
  <2>1. \A j \in JobIds : \/ jobs'[j] = jobs[j]
                          \/ /\ jobs'[j].state = "waiting" /\ j[2] = 0 /\ j[1] = NextIndex
                             /\ j[1] \in Indices
    BY <1>5, Typed DEF QueueChunk, NextIndex, Queued
  <2>2. \A n \in Indices : n = NextIndex => rows[n].recoveries = 0 /\ ~rows[n].completed
    BY <1>5, Typed DEF QueueChunk, Orderly, RowsInOrder, PlannedRow, NoRow
  <2>3. UNCHANGED rows
    BY <1>5 DEF QueueChunk
  <2>4. \A j \in JobIds : jobs'[j].state \in Pending => j[2] = rows[j[1]].recoveries /\ ~rows[j[1]].completed
    BY <2>1, <2>2 DEF ChunksSettle
  <2>5. \A j \in JobIds : jobs'[j].state = "active" => \A c \in jobs'[j].batch \ jobs'[j].todo : Settled(c)'
    BY <1>3, <2>1, RowsOwed DEF ChunksSettle
  <2>6. FinishedIsSettled'
    BY <1>3, <2>3, RowsOwed DEF ChunksSettle, FinishedIsSettled, Settled
  <2> QED BY <1>1, <2>3, <2>4, <2>5, <2>6 DEF ChunksSettle, bounds
<1>6. CASE ~WriteRows /\ ~QueueChunk
  <2>1. UNCHANGED <<rows, jobs>>
    BY <1>6 DEF Plan, StartPlanning, ReadPage, flushPlannedLogs, NextPage, ClosePlan, QueueFinalize
  <2> QED BY <1>1, <1>3, <2>1, RowsOwed DEF ChunksSettle, FinishedIsSettled, bounds, Settled
<1> QED BY <1>4, <1>5, <1>6

LEMMA SettleChunk ==
    ASSUME PlanInv, Orderly, ChunksSettle, NEW j \in JobIds, RunChunk(j) \/ ChunkFails(j) \/ LoseJob(j)
    PROVE  ChunksSettle'
<1>1. /\ UNCHANGED <<owed, paused, losses, pauses>> /\ jobs[j].state \in Pending /\ ~paused
      /\ j[1] \in Indices /\ jobs[j].batch = rows[j[1]].deliveries /\ jobs[j].batch \subseteq owed
      /\ jobs[j].todo \subseteq jobs[j].batch /\ owed \subseteq Customers
  <2>1. /\ UNCHANGED <<owed, paused, losses, pauses>> /\ jobs[j].state \in Pending
    BY DEF RunChunk, StartChunk, FinishChunk, Deliver, Defer, Pace, Delivering, ChunkFails, LoseJob, decided, bounds,
       Pending
  <2> QED BY <2>1, RowsOwed, Typed DEF ChunksSettle, Pending
<1>2. /\ jobs \in [JobIds -> JobRecords] /\ rows \in [Indices -> RowRecords] /\ logs \in [Customers -> LogStates]
  BY Typed
(* Another chunk's deliveries are other customers'.                         *)
<1>3. ASSUME NEW n \in Indices, n # j[1], NEW c \in rows[n].deliveries PROVE c \notin jobs[j].batch /\ c \in owed
  BY <1>1, <1>3, RowsOwed DEF Orderly, RowsInOrder
<1>4. ASSUME NEW c \in Customers, c \notin jobs[j].todo, Settled(c) PROVE Settled(c)'
  BY <1>2, <1>4 DEF Settled, RunChunk, StartChunk, FinishChunk, Deliver, Defer, Pace, Delivering, ChunkFails, LoseJob
<1>5. /\ \A i \in JobIds : i # j => jobs'[i] = jobs[i]
      /\ jobs'[j].state \in Pending => ~FinishChunk(j)
  BY <1>1, <1>2 DEF RunChunk, StartChunk, FinishChunk, Deliver, Defer, Pace, Handled, PutBack, ChunkFails, LoseJob,
     JobRecords, Pending
<1>6. \A n \in Indices : /\ rows'[n].deliveries = rows[n].deliveries /\ rows'[n].recoveries = rows[n].recoveries
                         /\ rows'[n].completed # rows[n].completed => FinishChunk(j) /\ n = j[1]
  BY <1>1, <1>2 DEF RunChunk, StartChunk, FinishChunk, Deliver, Defer, Pace, ChunkFails, LoseJob, RowRecords
<1>7. \A i \in JobIds : i # j /\ jobs[i].state \in Pending => i[1] # j[1]
  BY <1>1 DEF ChunksSettle, JobIds
<1>8. \A i \in JobIds : jobs'[i].state \in Pending => i[2] = rows'[i[1]].recoveries /\ ~rows'[i[1]].completed
  <2> SUFFICES ASSUME NEW i \in JobIds, jobs'[i].state \in Pending
               PROVE  i[2] = rows'[i[1]].recoveries /\ ~rows'[i[1]].completed
    OBVIOUS
  <2>1. jobs[i].state \in Pending /\ i[1] \in Indices
    BY <1>1, <1>5, Typed
  <2>2. i[2] = rows[i[1]].recoveries /\ ~rows[i[1]].completed
    BY <2>1 DEF ChunksSettle
  <2>3. ~(FinishChunk(j) /\ i[1] = j[1])
    BY <1>5, <1>7, <2>1
  <2> QED BY <1>6, <2>1, <2>2, <2>3
<1>9. ASSUME NEW i \in JobIds, jobs'[i].state = "active", NEW c \in jobs'[i].batch \ jobs'[i].todo
      PROVE  Settled(c)'
  <2>1. CASE i # j
    <3>1. jobs'[i] = jobs[i] /\ jobs[i].state = "active" /\ jobs[i].state # "missing" /\ i[1] # j[1]
      BY <1>5, <1>7, <1>9, <2>1 DEF Pending
    <3>2. Settled(c) /\ c \in rows[i[1]].deliveries /\ i[1] \in Indices /\ c \in owed
      BY <1>9, <3>1, RowsOwed DEF ChunksSettle
    <3> QED BY <1>1, <1>3, <1>4, <3>1, <3>2
  <2>2. CASE i = j
    <3>1. StartChunk(j) \/ \E d \in Customers : Deliver(j, d) \/ Defer(j, d)
      BY <1>1, <1>2, <1>9, <2>2
         DEF RunChunk, StartChunk, FinishChunk, Pace, PutBack, ChunkFails, LoseJob, NoJob, JobRecords
    <3>2. CASE StartChunk(j)
      BY <1>2, <1>9, <2>2, <3>2 DEF StartChunk, JobRecords
    <3>3. ASSUME NEW d \in Customers, Deliver(j, d) \/ Defer(j, d) PROVE Settled(c)'
      <4>1. /\ jobs[j].state = "active" /\ d \in jobs[j].todo /\ jobs'[j].batch = jobs[j].batch
            /\ jobs'[j].todo = jobs[j].todo \ {d}
        BY <1>2, <3>3 DEF Deliver, Defer, Delivering, Handled, JobRecords
      <4>2. CASE c = d
        <5>1. logs[d] \in Outcomes \union Retryable
          BY <1>1, <1>2, <4>1 DEF Orderly, OwedInOrder, LogStates, Outcomes, Retryable, HeldLogs
        <5> QED BY <1>1, <1>2, <3>3, <4>2, <5>1 DEF Settled, Deliver, Defer, Retryable, Outcomes
      <4>3. CASE c # d
        <5>1. c \in jobs[j].batch \ jobs[j].todo /\ c \in Customers
          BY <1>1, <1>9, <2>2, <4>1, <4>3
        <5> QED BY <1>4, <4>1, <5>1 DEF ChunksSettle
      <4> QED BY <4>2, <4>3
    <3> QED BY <3>1, <3>2, <3>3
  <2> QED BY <2>1, <2>2
<1>10. FinishedIsSettled'
  <2> SUFFICES ASSUME NEW n \in Indices, rows'[n].completed, NEW c \in rows'[n].deliveries PROVE Settled(c)'
    BY DEF FinishedIsSettled, Settled
  <2>1. c \in rows[n].deliveries /\ c \in Customers
    BY <1>1, <1>6, RowsOwed
  <2>2. CASE rows[n].completed
    <3>1. n # j[1]
      BY <1>1, <2>2 DEF ChunksSettle
    <3> QED BY <1>1, <1>3, <1>4, <2>1, <2>2, <3>1 DEF ChunksSettle, FinishedIsSettled, Settled
  <2>3. CASE ~rows[n].completed
    <3>1. FinishChunk(j) /\ n = j[1]
      BY <1>6, <2>3
    <3>2. c \in jobs[j].batch \ jobs[j].todo /\ jobs[j].state = "active"
      BY <1>1, <2>1, <3>1 DEF FinishChunk
    <3> QED BY <1>4, <2>1, <3>2 DEF ChunksSettle
  <2> QED BY <2>2, <2>3
<1> QED BY <1>1, <1>8, <1>9, <1>10 DEF ChunksSettle

LEMMA SettleOthers ==
    ASSUME Undisturbed, PlanInv, Orderly, ChunksSettle,
           \/ \E c \in Customers : RunDeferred(c) \/ DeferredFails(c)
           \/ \E n \in Indices : recoverStrandedDeliveries(n)
           \/ finalizeCampaign \/ setEmailSendingPaused \/ UNCHANGED vars
    PROVE  ChunksSettle'
<1>1. ASSUME NEW d \in Customers, RunDeferred(d) PROVE ChunksSettle'
  <2>1. UNCHANGED <<rows, jobs, owed, paused, losses, pauses>> /\ ~paused /\ d \in owed
    BY <1>1 DEF RunDeferred, decided, bounds, ChunksSettle, Orderly, OwedInOrder
  <2>2. ASSUME NEW c \in Customers, Settled(c) PROVE Settled(c)'
    <3>1. logs[d] \in Outcomes \union Retryable
      BY <2>1, Typed DEF Orderly, OwedInOrder, LogStates, Outcomes, Retryable, HeldLogs
    <3> QED BY <1>1, <2>1, <2>2, <3>1, Typed DEF RunDeferred, Settled, Retryable, Outcomes
  <2> QED BY <2>1, <2>2, RowsOwed, Typed DEF ChunksSettle, FinishedIsSettled, Settled
<1>2. ASSUME NEW d \in Customers, DeferredFails(d) PROVE ChunksSettle'
  BY <1>2 DEF DeferredFails, ChunksSettle, Undisturbed
<1>3. ASSUME NEW n \in Indices, recoverStrandedDeliveries(n) PROVE ChunksSettle'
  <2> DEFINE r == rows[n].recoveries + 1
  <2>1. /\ UNCHANGED <<logs, deferred, paused, losses, pauses>> /\ ~rows[n].completed
        /\ jobs[<<n, rows[n].recoveries>>].state \notin Pending
        /\ jobs' = [jobs EXCEPT ![<<n, r>>] = Queued(rows[n].deliveries)]
        /\ rows' = [rows EXCEPT ![n].recoveries = r]
    BY <1>3 DEF recoverStrandedDeliveries, Stranded, decided, bounds
  <2> HIDE DEF r
  <2>2. \A m \in Indices : /\ rows'[m].deliveries = rows[m].deliveries /\ rows'[m].completed = rows[m].completed
                           /\ rows'[m].recoveries = IF m = n THEN r ELSE rows[m].recoveries
    BY <2>1, Typed DEF RowRecords
  <2>3. \A j \in JobIds : \/ j = <<n, r>> /\ jobs'[j].state = "waiting"
                          \/ j # <<n, r>> /\ jobs'[j] = jobs[j]
    BY <2>1, Typed DEF Queued
  <2>4. \A j \in JobIds : jobs[j].state \in Pending => j[1] # n
    <3> SUFFICES ASSUME NEW j \in JobIds, jobs[j].state \in Pending, j[1] = n PROVE FALSE
      OBVIOUS
    <3>1. j = <<n, rows[n].recoveries>>
      BY DEF ChunksSettle, JobIds
    <3> QED BY <2>1, <3>1
  <2>5. \A j \in JobIds : jobs'[j].state \in Pending => j[2] = rows'[j[1]].recoveries /\ ~rows'[j[1]].completed
    <3> SUFFICES ASSUME NEW j \in JobIds, jobs'[j].state \in Pending
                 PROVE  j[2] = rows'[j[1]].recoveries /\ ~rows'[j[1]].completed
      OBVIOUS
    <3>1. CASE j = <<n, r>>
      BY <2>1, <2>2, <3>1
    <3>2. CASE j # <<n, r>>
      BY <2>2, <2>3, <2>4, <3>2, Typed DEF ChunksSettle
    <3> QED BY <3>1, <3>2
  <2>6. \A j \in JobIds : jobs'[j].state = "active" => \A c \in jobs'[j].batch \ jobs'[j].todo : Settled(c)'
    BY <2>1, <2>3 DEF ChunksSettle, Settled
  <2>7. FinishedIsSettled'
    BY <2>1, <2>2 DEF ChunksSettle, FinishedIsSettled
  <2> QED BY <2>1, <2>5, <2>6, <2>7 DEF ChunksSettle
<1>4. CASE setEmailSendingPaused
  BY <1>4 DEF setEmailSendingPaused, ChunksSettle, Undisturbed
<1>5. CASE finalizeCampaign \/ UNCHANGED vars
  BY <1>5 DEF finalizeCampaign, vars, bounds, ChunksSettle, FinishedIsSettled, Settled
<1> QED BY <1>1, <1>2, <1>3, <1>4, <1>5

(* A chunk marked complete owes nothing: every delivery of its row has its  *)
(* outcome or a deliver-one job of its own, for any number of faults,       *)
(* refusals and re-drives (send.worker.ts, runDeliveryChunk).               *)
THEOREM FinishedChunksAreSettled ==
    ASSUME PlannedOnce, Undisturbed PROVE Spec => []FinishedIsSettled
<1>1. Init => ChunksSettle
  BY SettleInit
<1>2. PlanInv /\ Orderly /\ ChunksSettle /\ [Next]_vars => ChunksSettle'
  <2>1. ASSUME PlannerDies, Orderly PROVE FALSE
    BY <2>1 DEF PlannerDies, PlannedOnce, Orderly, PlannerInOrder
  <2> QED BY <2>1, SettlePlan, SettleChunk, SettleOthers DEF Next
<1>3. ChunksSettle => FinishedIsSettled
  BY DEF ChunksSettle
<1> QED BY <1>1, <1>2, <1>3, OrderHolds, PTL DEF Spec
=============================================================================
