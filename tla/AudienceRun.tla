---------------------------- MODULE AudienceRun ----------------------------
(***************************************************************************)
(* The durable audience run of one campaign approval                       *)
(* (packages/campaign-engine/src/audience-run.ts).                          *)
(*                                                                         *)
(* Any number of calls of runCampaignAudienceResolution share one run row   *)
(* and one table of member rows.  A call takes the run's lease, evaluates   *)
(* the customers beyond the resume cursor in id order, stages their rows in *)
(* chunks, counts the staged rows, plans the control quotas, rewrites the   *)
(* pooled strata, draws the arms and completes the run.  Every action below *)
(* is one database statement, or the computation between two of them, so    *)
(* that calls interleave exactly where the code awaits.                     *)
(*                                                                         *)
(* Time is abstract: a lease is live until LeaseExpires says it is not.     *)
(* Customers are numbered in the order of their ids; cuids grow, so a new   *)
(* customer has a greater id than every earlier one.                        *)
(***************************************************************************)
EXTENDS ControlQuotas, Sequences

CONSTANTS
    Workers,        \* concurrent callers; each is one lease owner id at a time
    None,           \* no lease owner
    LastCustomer,   \* bound on the customers of the store
    SetAside,       \* verdicts other than candidate (excluded, left alone)
    Params,         \* (assignmentSeed, policyVersion) pairs calls may ask for
    Rates,          \* Params -> assignment stratum -> percent
    Hash,           \* Params -> assignment stratum -> customer -> value
    WriteChunk,     \* rows per flush
    MaxFaults,      \* bound: crashes and failed statements
    MaxLostDiscards,\* bound: crashes between a takeover and its discard
    MaxExpiries,    \* bound: leases that expire under a call still running
    MaxDrift        \* bound: changes to the customers while runs are open

Customers == 1 .. LastCustomer
Verdicts  == Strata \union SetAside
Absent    == "absent"

ASSUME RunAssumption ==
    /\ LastCustomer \in Nat
    /\ WriteChunk \in Nat \ {0}
    /\ None \notin Workers
    /\ Params # {}
    /\ Strata \intersect SetAside = {}
    /\ Absent \notin Strata \union SetAside
    /\ Rates \in [Params -> [AssignmentStrata -> Nat]]
    /\ Hash \in [Params -> [AssignmentStrata -> [Customers -> Nat]]]
    /\ MaxFaults \in Nat /\ MaxLostDiscards \in Nat
    /\ MaxExpiries \in Nat /\ MaxDrift \in Nat

VARIABLES
    run,        \* the campaign_audience_runs row, or NoRun
    members,    \* campaign_audience_members: customer -> row
    audience,   \* what evaluating each customer would say now, or Absent
    call,       \* local state of each caller
    spent       \* how much of each bound has been used

vars == <<run, members, audience, call, spent>>

-----------------------------------------------------------------------------
(* Types *)

Statuses == {"none", "resolving", "assigning", "complete", "failed"}

Run == [status : Statuses, owner : Workers \union {None}, live : BOOLEAN,
        params : Params, cursor : 0 .. LastCustomer,
        candidateCount : Nat, controlCount : Nat, treatmentCount : Nat]

(* A row keeps the ranking it was hashed for: seed and assignment stratum.  *)
Row == [verdict : Verdicts, assigned : AssignmentStrata \union {None},
        seed : Params, arm : {None, "CONTROL", "TREATMENT"}]

Points == {"idle", "create", "join", "claim", "discard", "reread", "stream",
           "insert", "renew", "count", "census", "mark", "fixup", "draw",
           "arms", "complete", "failing"}

(* Inside the try block of runCampaignAudienceResolution. *)
Attempting == {"stream", "insert", "renew", "count", "census", "mark", "fixup",
               "draw", "arms", "complete", "failing"}

(* Past the compare-and-set that made this call the lease owner. *)
Claimed == Attempting \union {"discard", "reread"}

AnyParams == CHOOSE p \in Params : TRUE

NoRun == [status |-> "none", owner |-> None, live |-> FALSE, params |-> AnyParams,
          cursor |-> 0, candidateCount |-> 0, controlCount |-> 0, treatmentCount |-> 0]

NoRows == [c \in {} |-> {}]

EmptyCensus == [s \in Strata |-> 0]

(* The local variables of a call.  buffer holds the verdicts of the         *)
(* customers flushed + 1 .. pos; todo the listed rows of one pooled stratum, *)
(* gone whether they have been deleted since.                               *)
Call == [pc : Points, params : Params, seen : Params, seed : Params,
         pos : 0 .. LastCustomer, flushed : 0 .. LastCustomer,
         buffer : Seq(Verdicts), ended : BOOLEAN,
         candidates : Nat, census : Censuses, control : Nat, treatment : Nat,
         pending : SUBSET Strata, todo : SUBSET Customers, gone : BOOLEAN]

LocalState == {c \in Call : c.pos = c.flushed + Len(c.buffer)}

Idle == [pc |-> "idle", params |-> AnyParams, seen |-> AnyParams, seed |-> AnyParams,
         pos |-> 0, flushed |-> 0, buffer |-> << >>, ended |-> FALSE,
         candidates |-> 0, census |-> EmptyCensus, control |-> 0, treatment |-> 0,
         pending |-> {}, todo |-> {}, gone |-> FALSE]

IsCandidate(row) == row.verdict \in Strata

Candidates(rows) == {c \in DOMAIN rows : IsCandidate(rows[c])}

(* GROUP BY stratum over the candidate rows. *)
StratumCensus(rows) ==
    [s \in Strata |-> Cardinality({c \in DOMAIN rows : rows[c].verdict = s})]

(* Mutant: createMany without skipDuplicates, as an upsert. *)
InsertOverwriting(rows, new) ==
    [c \in DOMAIN rows \union DOMAIN new |-> IF c \in DOMAIN new THEN new[c] ELSE rows[c]]

(* createMany with skipDuplicates on (runId, customerId). *)
InsertMissing(rows, new) ==
    [c \in DOMAIN rows \union DOMAIN new |-> IF c \in DOMAIN rows THEN rows[c] ELSE new[c]]

Present == {c \in Customers : audience[c] # Absent}

Becomes(w, local) == call' = [call EXCEPT ![w] = local]

Goto(w, point) == Becomes(w, [call[w] EXCEPT !.pc = point])

Return(w) == Becomes(w, Idle)

-----------------------------------------------------------------------------
(* Joining, creating or taking over the run *)

(* A call starts: findUnique on (campaignId, runKey). *)
Start(w, p) ==
    /\ call[w].pc = "idle"
    /\ run.status # "complete"
    /\ Becomes(w, [Idle EXCEPT !.pc = IF run.status = "none" THEN "create" ELSE "claim",
                               !.params = p, !.seen = run.params])
    /\ UNCHANGED <<run, members, audience, spent>>

(* A complete run is summarised and reused, by a call that starts or joins. *)
Reuse(w) ==
    /\ call[w].pc \in {"idle", "join"}
    /\ run.status = "complete"
    /\ Return(w)
    /\ UNCHANGED <<run, members, audience, spent>>

(* resolveAndAssign begins from the run row it was handed. *)
Attempt(w, row) ==
    Becomes(w, [call[w] EXCEPT !.pc = "stream", !.seed = row.params, !.pos = row.cursor,
                               !.flushed = row.cursor, !.buffer = << >>])

Create(w) ==
    /\ call[w].pc = "create"
    /\ run.status = "none"
    /\ run' = [NoRun EXCEPT !.status = "resolving", !.owner = w, !.live = TRUE,
                            !.params = call[w].params]
    /\ Attempt(w, run')
    /\ UNCHANGED <<members, audience, spent>>

(* The unique constraint refuses a second run; the winner is read afterwards. *)
LoseCreation(w) ==
    /\ call[w].pc = "create"
    /\ run.status # "none"
    /\ Goto(w, "join")
    /\ UNCHANGED <<run, members, audience, spent>>

Join(w) ==
    /\ call[w].pc = "join"
    /\ run.status # "complete"
    /\ Becomes(w, [call[w] EXCEPT !.pc = "claim", !.seen = run.params])
    /\ UNCHANGED <<run, members, audience, spent>>

(* Mutant: a lease is only ever given back, never expired. *)
LeaseReturned == run.owner = None

LeaseFree == run.owner = None \/ ~run.live

(* Durable rows are resumable under the parameters the call read. *)
Resumable(w) == call[w].seen = call[w].params

(* The compare-and-set of takeOverRun. *)
Claim(w) ==
    /\ call[w].pc = "claim"
    /\ run.status # "complete"
    /\ LeaseFree
    /\ run' = [run EXCEPT
                 !.status = "resolving", !.owner = w, !.live = TRUE,
                 !.params = IF Resumable(w) THEN @ ELSE call[w].params,
                 !.cursor = IF Resumable(w) THEN @ ELSE 0]
    /\ Goto(w, IF Resumable(w) THEN "reread" ELSE "discard")
    /\ UNCHANGED <<members, audience, spent>>

(* AudienceRunBusyError, outside the try block: nothing is marked. *)
Busy(w) ==
    /\ call[w].pc = "claim"
    /\ run.status = "complete" \/ ~LeaseFree
    /\ Return(w)
    /\ UNCHANGED <<run, members, audience, spent>>

(* Mutant: the rows hashed under the old parameters are kept. *)
DiscardNothing(w) ==
    /\ call[w].pc = "discard"
    /\ Goto(w, "reread")
    /\ UNCHANGED <<run, members, audience, spent>>

Discard(w) ==
    /\ call[w].pc = "discard"
    /\ members' = NoRows
    /\ call' = [v \in Workers |->
                 IF v = w THEN [call[v] EXCEPT !.pc = "reread"]
                          ELSE [call[v] EXCEPT !.gone = (call[v].todo # {})]]
    /\ UNCHANGED <<run, audience, spent>>

(* The run as the attempt knows it from here on: seed and resume cursor. *)
Reread(w) ==
    /\ call[w].pc = "reread"
    /\ Attempt(w, run)
    /\ UNCHANGED <<run, members, audience, spent>>

-----------------------------------------------------------------------------
(* Evaluating and staging the audience *)

(* Mutant: a full chunk is acknowledged before it is written. *)
EvaluateAcknowledging(w) ==
    LET next == call[w].pos + 1 IN
    /\ call[w].pc = "stream"
    /\ next \in Present
    /\ Becomes(w, [call[w] EXCEPT
                 !.pos = next,
                 !.buffer = Append(@, audience[next]),
                 !.pc = IF Len(call[w].buffer) + 1 >= WriteChunk THEN "renew" ELSE "stream"])
    /\ UNCHANGED <<run, members, audience, spent>>

(* The resolver's next customer, judged by what the database says now. *)
Evaluate(w) ==
    LET next == call[w].pos + 1 IN
    /\ call[w].pc = "stream"
    /\ next \in Present
    /\ Becomes(w, [call[w] EXCEPT
                 !.pos = next,
                 !.buffer = Append(@, audience[next]),
                 !.pc = IF Len(call[w].buffer) + 1 >= WriteChunk THEN "insert" ELSE "stream"])
    /\ UNCHANGED <<run, members, audience, spent>>

(* Mutant: the final flush after the stream is forgotten. *)
EndOfAudienceUnflushed(w) ==
    /\ call[w].pc = "stream"
    /\ call[w].pos + 1 \notin Present
    /\ Becomes(w, [call[w] EXCEPT !.ended = TRUE, !.pc = "count"])
    /\ UNCHANGED <<run, members, audience, spent>>

(* No customer beyond the position: the final flush, if anything is buffered. *)
EndOfAudience(w) ==
    /\ call[w].pc = "stream"
    /\ call[w].pos + 1 \notin Present
    /\ Becomes(w, [call[w] EXCEPT
                 !.ended = TRUE,
                 !.pc = IF call[w].buffer = << >> THEN "count" ELSE "insert"])
    /\ UNCHANGED <<run, members, audience, spent>>

(* The provisional row: ranked in its own stratum until the fix-up. *)
NewRow(verdict, seed) ==
    [verdict |-> verdict, assigned |-> IF verdict \in Strata THEN verdict ELSE None,
     seed |-> seed, arm |-> None]

Staged(local) ==
    [c \in local.flushed + 1 .. local.flushed + Len(local.buffer) |->
       NewRow(local.buffer[c - local.flushed], local.seed)]

(* flush, first statement: the rows. *)
InsertMembers(w) ==
    /\ call[w].pc = "insert"
    /\ members' = InsertMissing(members, Staged(call[w]))
    /\ Goto(w, "renew")
    /\ UNCHANGED <<run, audience, spent>>

(* Mutant: the buffer is not emptied once its rows are durable. *)
RenewLeaseKeepingBuffer(w) ==
    /\ call[w].pc = "renew"
    /\ run.owner = w
    /\ run' = [run EXCEPT !.live = TRUE, !.cursor = call[w].pos]
    /\ Becomes(w, [call[w] EXCEPT !.flushed = call[w].pos,
                            !.pc = IF call[w].ended THEN "count" ELSE "stream"])
    /\ UNCHANGED <<members, audience, spent>>

(* Mutant: the update does not ask who owns the lease. *)
RenewLeaseUnowned(w) ==
    /\ call[w].pc = "renew"
    /\ run' = [run EXCEPT !.live = TRUE, !.cursor = call[w].pos]
    /\ Becomes(w, [call[w] EXCEPT !.flushed = call[w].pos, !.buffer = << >>,
                            !.pc = IF call[w].ended THEN "count" ELSE "stream"])
    /\ UNCHANGED <<members, audience, spent>>

(* flush, second statement: renew the lease and advance the cursor. *)
RenewLease(w) ==
    /\ call[w].pc = "renew"
    /\ run.owner = w
    /\ run' = [run EXCEPT !.live = TRUE, !.cursor = call[w].pos]
    /\ Becomes(w, [call[w] EXCEPT !.flushed = call[w].pos, !.buffer = << >>,
                            !.pc = IF call[w].ended THEN "count" ELSE "stream"])
    /\ UNCHANGED <<members, audience, spent>>

(* The lease is somebody else's: AudienceRunBusyError inside the try block. *)
LoseLease(w) ==
    /\ call[w].pc = "renew"
    /\ run.owner # w
    /\ Goto(w, "failing")
    /\ UNCHANGED <<run, members, audience, spent>>

-----------------------------------------------------------------------------
(* Counting, planning, drawing and completing *)

CountDecisions(w) ==
    /\ call[w].pc = "count"
    /\ Becomes(w, [call[w] EXCEPT !.pc = "census",
                            !.candidates = Cardinality(Candidates(members))])
    /\ UNCHANGED <<run, members, audience, spent>>

TakeCensus(w) ==
    /\ call[w].pc = "census"
    /\ Becomes(w, [call[w] EXCEPT !.pc = "mark", !.census = StratumCensus(members)])
    /\ UNCHANGED <<run, members, audience, spent>>

(* The update is by run id alone: it asks for no lease. *)
MarkAssigning(w) ==
    /\ call[w].pc = "mark"
    /\ run' = [run EXCEPT !.status = "assigning", !.candidateCount = call[w].candidates]
    /\ Becomes(w, [call[w] EXCEPT !.pc = "fixup",
                            !.pending = PooledStrata(call[w].census)])
    /\ UNCHANGED <<members, audience, spent>>

(* The rows of one pooled stratum are listed ... *)
ListPooledRows(w, s) ==
    /\ call[w].pc = "fixup"
    /\ call[w].todo = {}
    /\ s \in call[w].pending
    /\ Becomes(w, [call[w] EXCEPT
                 !.pending = @ \ {s},
                 !.todo = {c \in DOMAIN members : members[c].verdict = s},
                 !.gone = FALSE])
    /\ UNCHANGED <<run, members, audience, spent>>

(* ... and rewritten by row id one after the other, in customer order.  The *)
(* id of a deleted row never returns: updating it is an error.              *)
RewritePooledRow(w, c) ==
    /\ call[w].pc = "fixup"
    /\ c \in call[w].todo
    /\ \A d \in call[w].todo : c <= d
    /\ ~call[w].gone
    /\ members' = [members EXCEPT ![c].assigned = Pooled, ![c].seed = call[w].seed]
    /\ Becomes(w, [call[w] EXCEPT !.todo = @ \ {c}])
    /\ UNCHANGED <<run, audience, spent>>

PooledRowGone(w) ==
    /\ call[w].pc = "fixup"
    /\ call[w].todo # {} /\ call[w].gone
    /\ Goto(w, "failing")
    /\ UNCHANGED <<run, members, audience, spent>>

FixupDone(w) ==
    /\ call[w].pc = "fixup"
    /\ call[w].todo = {} /\ call[w].pending = {}
    /\ Goto(w, "draw")
    /\ UNCHANGED <<run, members, audience, spent>>

(* The rows the draw ranks together, and the hash each row carries. *)
RankedIn(rows, a) == {c \in Candidates(rows) : rows[c].assigned = a}

(* Mutant: the fix-up pools a row without hashing it again. *)
RowHashUnpooled(rows, c) == Hash[rows[c].seed][rows[c].verdict][c]

RowHash(rows, c) == Hash[rows[c].seed][rows[c].assigned][c]

DrawnArms(rows, census, rates) ==
    LET planned  == PlannedStrata(census)
        value    == [c \in Candidates(rows) |-> RowHash(rows, c)]
        controls == UNION {Withheld(RankedIn(rows, a), value, PlannedQuota(census, rates, a)) :
                             a \in planned}
    IN  [c \in DOMAIN rows |->
           IF c \notin Candidates(rows) \/ rows[c].assigned \notin planned
           THEN rows[c].arm
           ELSE IF c \in controls THEN "CONTROL" ELSE "TREATMENT"]

(* assignArmsInDatabase: one statement over the durable rows. *)
DrawArms(w) ==
    LET arms == DrawnArms(members, call[w].census, Rates[call[w].params]) IN
    /\ call[w].pc = "draw"
    /\ members' = [c \in DOMAIN members |-> [members[c] EXCEPT !.arm = arms[c]]]
    /\ Goto(w, "arms")
    /\ UNCHANGED <<run, audience, spent>>

InArm(rows, arm) == {c \in Candidates(rows) : rows[c].arm = arm}

(* Nobody unassigned, and the control group exactly the planned size. *)
CheckArms(w) ==
    LET control   == Cardinality(InArm(members, "CONTROL"))
        treatment == Cardinality(InArm(members, "TREATMENT"))
        adds_up   == /\ control + treatment = call[w].candidates
                     /\ control = PlannedControl(call[w].census, Rates[call[w].params])
    IN  /\ call[w].pc = "arms"
        /\ Becomes(w, [call[w] EXCEPT !.control = control, !.treatment = treatment,
                                !.pc = IF adds_up THEN "complete" ELSE "failing"])
        /\ UNCHANGED <<run, members, audience, spent>>

(* Mutant: the two arms' counts are swapped. *)
CompleteSwapped(w) ==
    /\ call[w].pc = "complete"
    /\ run' = [run EXCEPT !.status = "complete", !.owner = None, !.live = FALSE,
                          !.controlCount = call[w].treatment,
                          !.treatmentCount = call[w].control]
    /\ Return(w)
    /\ UNCHANGED <<members, audience, spent>>

(* Again an update by run id alone. *)
Complete(w) ==
    /\ call[w].pc = "complete"
    /\ run' = [run EXCEPT !.status = "complete", !.owner = None, !.live = FALSE,
                          !.controlCount = call[w].control,
                          !.treatmentCount = call[w].treatment]
    /\ Return(w)
    /\ UNCHANGED <<members, audience, spent>>

-----------------------------------------------------------------------------
(* Failure, crash, time and the customers themselves *)

Spend(kind, bound) ==
    /\ spent[kind] < bound
    /\ spent' = [spent EXCEPT ![kind] = @ + 1]

(* The catch block: only the lease holder marks the run failed. *)
MarkFailed(w) ==
    /\ call[w].pc = "failing"
    /\ run' = IF run.owner = w /\ run.status # "complete"
              THEN [run EXCEPT !.status = "failed", !.owner = None, !.live = FALSE]
              ELSE run
    /\ Return(w)
    /\ UNCHANGED <<members, audience, spent>>

(* A statement of the attempt throws. *)
StepFails(w) ==
    /\ call[w].pc \in Attempting \ {"failing"}
    /\ Spend("faults", MaxFaults)
    /\ Goto(w, "failing")
    /\ UNCHANGED <<run, members, audience>>

(* The process dies, or a statement outside the try block throws.  A takeover *)
(* that dies before it has discarded the old rows is counted on its own.      *)
Crash(w) ==
    /\ call[w].pc # "idle"
    /\ IF call[w].pc = "discard" THEN Spend("discards", MaxLostDiscards)
                                 ELSE Spend("faults", MaxFaults)
    /\ Return(w)
    /\ UNCHANGED <<run, members, audience>>

HolderRuns == run.owner # None /\ call[run.owner].pc \in Claimed

(* Two minutes without a renewal.  Of a dead holder this always happens. *)
LeaseExpires ==
    /\ run.live
    /\ run' = [run EXCEPT !.live = FALSE]
    /\ IF HolderRuns THEN Spend("expiries", MaxExpiries) ELSE UNCHANGED spent
    /\ UNCHANGED <<members, audience, call>>

(* A customer joins the store, or is judged differently from now on. *)
CustomersDrift ==
    /\ Spend("drift", MaxDrift)
    /\ \E c \in Customers, v \in Verdicts :
         /\ \A d \in Customers : d < c => d \in Present
         /\ audience[c] # v
         /\ audience' = [audience EXCEPT ![c] = v]
    /\ UNCHANGED <<run, members, call>>

-----------------------------------------------------------------------------

Init ==
    /\ run = NoRun
    /\ members = NoRows
    /\ audience \in {f \in [Customers -> Verdicts \union {Absent}] :
                       \A c, d \in Customers : c < d /\ f[d] # Absent => f[c] # Absent}
    /\ call = [w \in Workers |-> Idle]
    /\ spent = [faults |-> 0, discards |-> 0, expiries |-> 0, drift |-> 0]

Step(w) ==
    \/ Create(w) \/ LoseCreation(w) \/ Join(w) \/ Reuse(w)
    \/ Claim(w) \/ Busy(w) \/ Discard(w) \/ Reread(w)
    \/ Evaluate(w) \/ EndOfAudience(w)
    \/ InsertMembers(w) \/ RenewLease(w) \/ LoseLease(w)
    \/ CountDecisions(w) \/ TakeCensus(w) \/ MarkAssigning(w)
    \/ \E s \in Strata : ListPooledRows(w, s)
    \/ \E c \in Customers : RewritePooledRow(w, c)
    \/ PooledRowGone(w)
    \/ FixupDone(w) \/ DrawArms(w) \/ CheckArms(w) \/ Complete(w)
    \/ MarkFailed(w)

Next ==
    \/ \E w \in Workers :
         \/ Step(w)
         \/ \E p \in Params : Start(w, p)
         \/ StepFails(w)
         \/ Crash(w)
    \/ LeaseExpires
    \/ CustomersDrift

Spec == Init /\ [][Next]_vars

(***************************************************************************)
(* A call that runs takes its next step, callers come back while the run is *)
(* incomplete (the job's retries and the recovery sweep), and time passes.  *)
(* Faults, expiries under a running call and drift are never forced.        *)
(***************************************************************************)
Fairness ==
    /\ \A w \in Workers : WF_vars(Step(w))
    /\ \A w \in Workers : WF_vars(\E p \in Params : Start(w, p))
    /\ WF_vars(LeaseExpires /\ ~HolderRuns)

FairSpec == Spec /\ Fairness

-----------------------------------------------------------------------------
(* Properties *)

TypeOK ==
    /\ run \in Run
    /\ DOMAIN members \subseteq Customers
    /\ members \in [DOMAIN members -> Row]
    /\ audience \in [Customers -> Verdicts \union {Absent}]
    /\ call \in [Workers -> LocalState]
    /\ spent \in [{"faults", "discards", "expiries", "drift"} -> Nat]

(* The resume cursor never passes a customer without a durable row, so a    *)
(* takeover that skips to it skips nothing unevaluated.                     *)
CursorCovered == \A c \in Customers : c <= run.cursor => c \in DOMAIN members

FrozenStratum == [c \in Candidates(members) |-> members[c].verdict]

FrozenArms == [c \in Candidates(members) |-> members[c].arm]

(* The arms of a complete run are those an uninterrupted in-memory draw     *)
(* over the same rows gives, under the parameters the run row names.        *)
ArmsMatchReference ==
    run.status = "complete" =>
        FrozenArms = AssignStratifiedCohortArms(FrozenStratum, Hash[run.params],
                                                Rates[run.params])

(* A complete run holds a row for every customer of the store, its counts   *)
(* are those of its rows, and no candidate is left without an arm.          *)
CountsMatchRows ==
    run.status = "complete" =>
        /\ DOMAIN members = Present
        /\ run.candidateCount = Cardinality(Candidates(members))
        /\ run.controlCount = Cardinality(InArm(members, "CONTROL"))
        /\ run.treatmentCount = Cardinality(InArm(members, "TREATMENT"))
        /\ run.candidateCount = run.controlCount + run.treatmentCount

(* Every row of a complete run was ranked under the run's own parameters.   *)
OneRanking ==
    run.status = "complete" =>
        \A c \in Candidates(members) : members[c].seed = run.params

(* Durable work is never given up: the cursor retreats only to the start,   *)
(* and only when a call that asked for other parameters takes over.         *)
CursorNeverRetreats ==
    [][run'.cursor < run.cursor =>
         /\ run'.cursor = 0
         /\ \E w \in Workers : run'.owner = w /\ ~Resumable(w)]_vars

(* Once a run is complete its membership and arms do not change.            *)
MembershipFrozen == [][run.status = "complete" => members' = members]_vars

(* Every approval that is retried reaches a complete run, whatever crashes  *)
(* and whichever leases are lost on the way (the recovery sweep's promise). *)
EventuallyComplete == <>(run.status = "complete")

(* The run implements the atomic freeze it stands for.                      *)
Frozen == INSTANCE FrozenCohort WITH
    cohort <- IF run.status = "complete" THEN FrozenArms ELSE [c \in {0} |-> "none"]

ImplementsFrozenCohort == Frozen!Spec
=============================================================================
