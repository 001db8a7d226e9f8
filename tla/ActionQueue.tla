----------------------------- MODULE ActionQueue -----------------------------
(***************************************************************************)
(* The autonomy engine's action queue (action-queue.ts,                     *)
(* approval-workflow.ts) and the endpoints that review it                   *)
(* (routers/autonomy.ts): opportunities are proposed under a fingerprint,   *)
(* reviewers approve or reject them, an approval has its creative generated *)
(* and is executed, which drafts a campaign or activates an automation.     *)
(*                                                                         *)
(* Proposals and approvals are calls of several awaited statements that     *)
(* overlap; rejections, expiry and the agent's approval are single ones.    *)
(* Proposals without a fingerprint, which match on type and category, are   *)
(* left out.                                                                *)
(***************************************************************************)
EXTENDS Naturals, FiniteSets

CONSTANTS
    Actions,       \* fingerprints of one store
    Automations,   \* those that activate an automation; the others draft a campaign
    Autopilot,     \* those whose category is on autopilot
    Proposals,     \* calls of routeAction, each with a payload of its own
    Reviews,       \* calls of approveAction and bulkApprove
    None,
    MaxDecisions,  \* bound: rejections, approvals by the agent
    MaxFaults      \* bound: calls that fail or die

Statuses == {"pending", "approved", "rejected", "executed", "expired"}
Campaign == [of : Actions, by : Reviews, payload : Proposals, draft : Proposals \union {None}]
Row == [status : Statuses, payload : Proposals, draft : Proposals \union {None},
        artifact : Campaign \union Automations \union {None}]

ASSUME ActionQueueAssumption ==
    /\ Automations \subseteq Actions /\ Autopilot \subseteq Actions
    /\ None \notin Proposals /\ None \notin Reviews /\ None \notin Row
    /\ IsFiniteSet(Reviews) /\ MaxDecisions \in Nat /\ MaxFaults \in Nat

VARIABLES
    row,        \* the row of each fingerprint, or None
    proposal,   \* the routeAction calls
    review,     \* the approval calls
    campaigns,  \* campaigns drafted
    active,     \* automations activated
    approvals,  \* history: approvals of each action
    excess,     \* history: executions of each begun before another was recorded, if ever
    decisions, faults

products == <<campaigns, active>>
history  == <<approvals, excess>>
bounds   == <<decisions, faults>>
vars == <<row, proposal, review, products, history, bounds>>

-----------------------------------------------------------------------------
Exists(a) == row[a] # None
HasStatus(a, s) == Exists(a) /\ row[a].status = s
Pending(as) == {a \in as : HasStatus(a, "pending")}
SetStatus(as, s) == row' = [a \in Actions |-> IF a \in as THEN [row[a] EXCEPT !.status = s] ELSE row[a]]

NotCalled == [pc |-> "idle", of |-> None, seen |-> None]
NoReview  == [pc |-> "idle", ids |-> {}, of |-> None, payload |-> None, draft |-> None]

Init ==
    /\ row = [a \in Actions |-> None]
    /\ proposal = [p \in Proposals |-> NotCalled]
    /\ review = [r \in Reviews |-> NoReview]
    /\ campaigns = {} /\ active = {}
    /\ approvals = [a \in Actions |-> 0] /\ excess = [a \in Actions |-> 0]
    /\ decisions = 0 /\ faults = 0

Fault == faults < MaxFaults /\ faults' = faults + 1

-----------------------------------------------------------------------------
(* routeAction and proposeAction: find the fingerprint, then refresh what   *)
(* was found, or create; on autopilot mark it executed.                     *)

Find(p, a) ==
    /\ proposal[p].pc = "idle"
    /\ proposal' = [proposal EXCEPT ![p] =
                      [pc |-> "found", of |-> a, seen |-> IF Exists(a) THEN row[a].status ELSE None]]
    /\ UNCHANGED <<row, review, products, history, bounds>>

RefreshMerging(p, a) ==  \* a slip: the new payload is merged into the old
    row' = [row EXCEPT ![a].payload = p]
Refresh(p, a) == row' = [row EXCEPT ![a].payload = p, ![a].draft = None]

NewRow(p) == [status |-> "pending", payload |-> p, draft |-> None, artifact |-> None]
NewRowPrefilled(p) ==  \* a slip: the autopilot's status is not one of the queue's
    [NewRow(p) EXCEPT !.status = "auto_executed"]
Created(p) == NewRow(p)

mayRefresh(p) == proposal[p].seen \in {"pending", "approved"}

(* Decided rows keep their payload.  Two creations of one fingerprint       *)
(* conflict: the later call fails.                                          *)
Propose(p) ==
    LET a == proposal[p].of
    IN /\ proposal[p].pc = "found"
       /\ IF proposal[p].seen # None
          THEN IF mayRefresh(p) THEN Refresh(p, a) ELSE UNCHANGED row
          ELSE IF ~Exists(a) THEN row' = [row EXCEPT ![a] = Created(p)] ELSE UNCHANGED row
       /\ proposal' = [proposal EXCEPT ![p].pc =
                         IF a \in Autopilot /\ ~(proposal[p].seen = None /\ Exists(a))
                         THEN "routing" ELSE "done"]
       /\ UNCHANGED <<review, products, history, bounds>>

(* markExecuted, when confidence is above the threshold: nothing else is    *)
(* executed here.                                                           *)
Route(p) ==
    LET a == proposal[p].of
    IN /\ proposal[p].pc = "routing"
       /\ SetStatus({a}, "executed") \/ UNCHANGED row
       /\ proposal' = [proposal EXCEPT ![p].pc = "done"]
       /\ UNCHANGED <<review, products, history, bounds>>

ProposalFails(p) ==
    /\ proposal[p].pc \in {"found", "routing"} /\ Fault
    /\ proposal' = [proposal EXCEPT ![p].pc = "done"]
    /\ UNCHANGED <<row, review, products, history, decisions>>

-----------------------------------------------------------------------------
(* Single statements.  A decision on one action is written whatever its     *)
(* status; those in bulk and the expiry touch pending ones only.            *)

Decision == decisions < MaxDecisions /\ decisions' = decisions + 1
Approved(as) == approvals' = [a \in Actions |-> IF a \in as THEN approvals[a] + 1 ELSE approvals[a]]

rejectAction(a) ==
    /\ Exists(a) /\ Decision
    /\ SetStatus({a}, "rejected")
    /\ UNCHANGED <<proposal, review, products, history, faults>>

(* The agent's tool has seen the action pending, as every action once was.  *)
approveByAgent(a) ==
    /\ Exists(a) /\ Decision
    /\ SetStatus({a}, "approved") /\ Approved({a})
    /\ UNCHANGED <<proposal, review, products, excess, faults>>

bulkReject(as) ==
    /\ Decision
    /\ SetStatus(Pending(as), "rejected")
    /\ UNCHANGED <<proposal, review, products, history, faults>>

AnyStale(as) ==  \* a slip: what was approved but not executed expires too
    {a \in as : HasStatus(a, "pending") \/ HasStatus(a, "approved")}
Stale(as) == Pending(as)

(* Any pending action may have passed its time by now.                      *)
expireStaleActions(as) ==
    /\ Stale(as) # {} /\ SetStatus(Stale(as), "expired")
    /\ UNCHANGED <<proposal, review, products, history, bounds>>

-----------------------------------------------------------------------------
(* approveAction and bulkApprove of the router: approve, then for each id   *)
(* generate the creative and execute, errors ignored.                       *)

At(r, pc)      == review[r].pc = pc
Current(r)     == review[r].of
Becomes(r, v)  == review' = [review EXCEPT ![r] = v]
Goto(r, pc)    == review' = [review EXCEPT ![r].pc = pc]

(* The next id, or the end of the call.                                     *)
NextId(r) ==
    LET ids == review[r].ids \ {Current(r)}
    IN IF ids = {} THEN Becomes(r, [NoReview EXCEPT !.pc = "done"])
       ELSE \E a \in ids : Becomes(r, [NoReview EXCEPT !.pc = "creative", !.ids = ids, !.of = a])

approveAction(r, a) ==
    /\ At(r, "idle") /\ Exists(a)
    /\ SetStatus({a}, "approved") /\ Approved({a})
    /\ Becomes(r, [NoReview EXCEPT !.pc = "creative", !.ids = {a}, !.of = a])
    /\ UNCHANGED <<proposal, products, excess, bounds>>

(* Every id listed is executed below, those approved here or not.           *)
bulkApprove(r, as) ==
    /\ At(r, "idle") /\ as # {} /\ \A a \in as : Exists(a)
    /\ SetStatus(Pending(as), "approved") /\ Approved(Pending(as))
    /\ \E a \in as : Becomes(r, [NoReview EXCEPT !.pc = "creative", !.ids = as, !.of = a])
    /\ UNCHANGED <<proposal, products, excess, bounds>>

(* generateApprovedCreative: from a payload with an opportunity a draft is  *)
(* generated, and written back later with the payload it was read from.     *)
ReadForCreative(r) ==
    LET a == Current(r)
    IN /\ At(r, "creative")
       /\ \/ Goto(r, "executing")
          \/ /\ a \notin Automations
             /\ review' = [review EXCEPT ![r].pc = "drafting", ![r].payload = row[a].payload]
       /\ UNCHANGED <<row, proposal, products, history, bounds>>

WriteCreative(r) ==
    LET a == Current(r)
    IN /\ At(r, "drafting") /\ Goto(r, "executing")
       /\ row' = [row EXCEPT ![a].payload = review[r].payload, ![a].draft = review[r].payload]
       /\ UNCHANGED <<proposal, products, history, bounds>>

(* Another execution has read the action as approved and is not recorded.   *)
BeingExecuted(r, a) ==
    \E o \in Reviews \ {r} : review[o].of = a /\ review[o].pc \in {"producing", "recording"}

MayExecuteAgain(a) ==  \* a slip: an executed action is executed again
    HasStatus(a, "approved") \/ HasStatus(a, "executed")
MayExecute(a) == HasStatus(a, "approved")

(* executeApprovedAction.  An executed action is left alone, any other      *)
(* refused.                                                                 *)
ReadApproved(r) ==
    LET a == Current(r)
    IN /\ At(r, "executing")
       /\ IF MayExecute(a)
          THEN /\ review' = [review EXCEPT ![r].pc = "producing",
                               ![r].payload = row[a].payload, ![r].draft = row[a].draft]
               /\ excess' = [excess EXCEPT ![a] = IF BeingExecuted(r, a) THEN @ + 1 ELSE @]
          ELSE NextId(r) /\ UNCHANGED excess
       /\ UNCHANGED <<row, proposal, products, approvals, bounds>>

Draft(r) == [of |-> Current(r), by |-> r, payload |-> review[r].payload, draft |-> review[r].draft]

Produce(r) ==
    LET a == Current(r)
    IN /\ At(r, "producing") /\ Goto(r, "recording")
       /\ IF a \in Automations THEN active' = active \union {a} /\ UNCHANGED campaigns
          ELSE campaigns' = campaigns \union {Draft(r)} /\ UNCHANGED active
       /\ UNCHANGED <<row, proposal, history, bounds>>

Record(r) ==
    LET a == Current(r)
    IN /\ At(r, "recording") /\ NextId(r)
       /\ row' = [row EXCEPT ![a].status = "executed",
                    ![a].artifact = IF a \in Automations THEN a ELSE Draft(r)]
       /\ UNCHANGED <<proposal, products, history, bounds>>

(* A statement throws and the call goes on with the next id, or the process *)
(* dies.  An execution given up after its read is never recorded.           *)
ReviewFails(r) ==
    LET a == Current(r)
    IN /\ review[r].pc \notin {"idle", "done"} /\ Fault
       /\ NextId(r) \/ Becomes(r, [NoReview EXCEPT !.pc = "done"])
       /\ excess' = [excess EXCEPT ![a] = IF At(r, "recording") THEN @ + 1 ELSE @]
       /\ UNCHANGED <<row, proposal, products, approvals, decisions>>

-----------------------------------------------------------------------------
Execute(r) ==
    \/ ReadForCreative(r) \/ WriteCreative(r) \/ ReadApproved(r) \/ Produce(r) \/ Record(r)

Next ==
    \/ \E p \in Proposals :
          (\E a \in Actions : Find(p, a)) \/ Propose(p) \/ Route(p) \/ ProposalFails(p)
    \/ \E a \in Actions : rejectAction(a) \/ approveByAgent(a)
    \/ \E as \in SUBSET Actions : bulkReject(as) \/ expireStaleActions(as)
    \/ \E r \in Reviews :
          \/ \E a \in Actions : approveAction(r, a)
          \/ \E as \in SUBSET Actions : bulkApprove(r, as)
          \/ Execute(r) \/ ReviewFails(r)

Spec == Init /\ [][Next]_vars

-----------------------------------------------------------------------------
TypeOK ==
    /\ row \in [Actions -> Row \union {None}]
    /\ proposal \in [Proposals -> [pc : {"idle", "found", "routing", "done"},
                       of : Actions \union {None}, seen : Statuses \union {None}]]
    /\ review \in [Reviews -> [pc : {"idle", "creative", "drafting", "executing", "producing",
                                     "recording", "done"},
                     ids : SUBSET Actions, of : Actions \union {None},
                     payload : Proposals \union {None}, draft : Proposals \union {None}]]
    /\ campaigns \subseteq Campaign /\ active \subseteq Automations
    /\ approvals \in [Actions -> Nat] /\ excess \in [Actions -> Nat]
    /\ decisions \in 0 .. MaxDecisions /\ faults \in 0 .. MaxFaults

CampaignsOf(a) == {k \in campaigns : k.of = a}

(* One approval drafts one campaign.  There are more only when executions   *)
(* of the action overlapped between reading it and recording it, or one was *)
(* given up with its campaign unrecorded: approving again, in bulk, what is *)
(* executed, rejected or expired adds none.                                 *)
OneCampaignPerApproval ==
    \A a \in Actions : Cardinality(CampaignsOf(a)) <= approvals[a] + excess[a]

(* A campaign's generated draft belongs to the payload it is built from,    *)
(* though proposals refresh the payload while creatives are generated.      *)
CampaignOfOnePayload == \A k \in campaigns : k.draft \in {None, k.payload}

(* A decision stands: an action that is approved, rejected, expired or      *)
(* executed changes by a review of that action, by an execution that read   *)
(* it approved or by its autopilot, never by expiry, a bulk review or a new *)
(* proposal.                                                                *)
DecisionStands ==
    [][\A a \in Actions :
          Exists(a) /\ row[a].status # "pending" /\ row'[a].status # row[a].status =>
             \/ row'[a].status = "executed" /\ a \in Autopilot
             \/ row'[a].status = "executed"
                  /\ \E r \in Reviews : review[r].of = a /\ At(r, "recording")
             \/ row'[a].status \in {"approved", "rejected"} /\ decisions' # decisions
             \/ row'[a].status = "approved"
                  /\ \E r \in Reviews : At(r, "idle") /\ review'[r].ids = {a}]_vars
=============================================================================
