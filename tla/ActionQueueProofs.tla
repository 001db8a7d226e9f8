-------------------------- MODULE ActionQueueProofs --------------------------
(***************************************************************************)
(* Theorems about ActionQueue for any actions, proposals and reviews.       *)
(***************************************************************************)
EXTENDS ActionQueue, FiniteSetTheorems, TLAPS

Present == {a \in Actions : Exists(a)}

(* A call works on an action that has a row, which stays.                   *)
CallsOfPresent ==
    /\ \A p \in Proposals :
         /\ proposal[p].pc # "idle" => proposal[p].of \in Actions
         /\ proposal[p].pc # "idle" /\ proposal[p].seen # None => proposal[p].of \in Present
         /\ proposal[p].pc = "routing" =>
              proposal[p].of \in Present /\ proposal[p].of \in Autopilot
    /\ \A r \in Reviews : review[r].pc \notin {"idle", "done"} =>
         /\ review[r].of \in Present /\ review[r].ids \subseteq Present
         /\ review[r].pc \in {"drafting", "producing", "recording"} => review[r].payload \in Proposals

(* A draft belongs to the payload beside it: in a row, and in what an       *)
(* execution has read of one.                                               *)
DraftOfPayload ==
    /\ \A a \in Present : row[a].draft \in {None, row[a].payload}
    /\ \A r \in Reviews :
         review[r].pc \in {"producing", "recording"} =>
             review[r].draft \in {None, review[r].payload}

ActionInv == TypeOK /\ CallsOfPresent
PayloadInv == DraftOfPayload /\ CampaignOfOnePayload

-----------------------------------------------------------------------------
LEMMA InitInv == Init => ActionInv /\ PayloadInv
<1> SUFFICES ASSUME Init PROVE ActionInv /\ PayloadInv
  OBVIOUS
<1> USE DEF Init, NotCalled, NoReview
<1>1. TypeOK
  BY ActionQueueAssumption DEF TypeOK
<1>2. CallsOfPresent
  BY DEF CallsOfPresent
<1>3. PayloadInv
  BY DEF PayloadInv, DraftOfPayload, CampaignOfOnePayload, Present, Exists
<1> QED BY <1>1, <1>2, <1>3 DEF ActionInv

-----------------------------------------------------------------------------
(* Actions that touch no call in progress *)

LEMMA SetStatusTyped ==
    ASSUME ActionInv, PayloadInv, NEW as \in SUBSET Present, NEW s \in Statuses, SetStatus(as, s),
           UNCHANGED campaigns
    PROVE  /\ row' \in [Actions -> Row \union {None}]
           /\ Present' = Present
           /\ (\A a \in Present : row[a].draft \in {None, row[a].payload})'
<1>1. \A a \in Actions : a \in as => row[a] \in Row
  BY DEF ActionInv, TypeOK, Present, Exists
<1>2. \A a \in Actions : row'[a] = IF a \in as THEN [row[a] EXCEPT !.status = s] ELSE row[a]
  BY DEF SetStatus
<1>3. \A a \in Actions : a \in as =>
        /\ row'[a] \in Row
        /\ row'[a].draft = row[a].draft /\ row'[a].payload = row[a].payload
  BY <1>1, <1>2 DEF Row
<1>4. row' \in [Actions -> Row \union {None}]
  BY <1>2, <1>3 DEF SetStatus, ActionInv, TypeOK
<1>5. Present' = Present
  BY <1>2, <1>3, ActionQueueAssumption DEF Present, Exists
<1>6. \A a \in Present : row'[a].draft \in {None, row'[a].payload}
  BY <1>2, <1>3 DEF PayloadInv, DraftOfPayload, Present
<1> QED BY <1>4, <1>5, <1>6

(* What leaves the calls alone leaves their rows there and their drafts.    *)
LEMMA CallsUndisturbed ==
    ASSUME ActionInv, PayloadInv, UNCHANGED <<proposal, review, campaigns>>, Present' = Present
    PROVE  /\ CallsOfPresent' /\ CampaignOfOnePayload'
           /\ (\A r \in Reviews : review[r].pc \in {"producing", "recording"} =>
                 review[r].draft \in {None, review[r].payload})'
BY DEF ActionInv, PayloadInv, CallsOfPresent, CampaignOfOnePayload, DraftOfPayload

LEMMA DecisionInv ==
    ASSUME ActionInv, PayloadInv,
           \/ \E a \in Actions : rejectAction(a) \/ approveByAgent(a)
           \/ \E as \in SUBSET Actions : bulkReject(as) \/ expireStaleActions(as)
    PROVE  (ActionInv /\ PayloadInv)'
<1>1. PICK as \in SUBSET Present, s \in Statuses :
        /\ SetStatus(as, s)
        /\ UNCHANGED <<proposal, review, products, excess, faults>>
        /\ approvals' \in [Actions -> Nat] /\ decisions' \in 0 .. MaxDecisions
  <2>1. ASSUME NEW a \in Actions, rejectAction(a)
        PROVE  /\ {a} \in SUBSET Present /\ "rejected" \in Statuses /\ SetStatus({a}, "rejected")
               /\ UNCHANGED <<proposal, review, products, excess, faults>>
               /\ approvals' \in [Actions -> Nat] /\ decisions' \in 0 .. MaxDecisions
    BY <2>1, ActionQueueAssumption
       DEF rejectAction, Decision, ActionInv, TypeOK, history, Present, Statuses
  <2>2. ASSUME NEW a \in Actions, approveByAgent(a)
        PROVE  /\ {a} \in SUBSET Present /\ "approved" \in Statuses /\ SetStatus({a}, "approved")
               /\ UNCHANGED <<proposal, review, products, excess, faults>>
               /\ approvals' \in [Actions -> Nat] /\ decisions' \in 0 .. MaxDecisions
    BY <2>2, ActionQueueAssumption
       DEF approveByAgent, Approved, Decision, ActionInv, TypeOK, Present, Statuses
  <2>3. ASSUME NEW as \in SUBSET Actions, bulkReject(as)
        PROVE  /\ Pending(as) \in SUBSET Present /\ "rejected" \in Statuses
               /\ SetStatus(Pending(as), "rejected")
               /\ UNCHANGED <<proposal, review, products, excess, faults>>
               /\ approvals' \in [Actions -> Nat] /\ decisions' \in 0 .. MaxDecisions
    <3>1. Pending(as) \in SUBSET Present /\ "rejected" \in Statuses
      BY DEF Present, Pending, HasStatus, Statuses
    <3>2. decisions' \in 0 .. MaxDecisions
      BY <2>3, ActionQueueAssumption DEF bulkReject, Decision, ActionInv, TypeOK
    <3> QED BY <2>3, <3>1, <3>2 DEF bulkReject, ActionInv, TypeOK, history
  <2>4. ASSUME NEW as \in SUBSET Actions, expireStaleActions(as)
        PROVE  /\ Stale(as) \in SUBSET Present /\ "expired" \in Statuses
               /\ SetStatus(Stale(as), "expired")
               /\ UNCHANGED <<proposal, review, products, excess, faults>>
               /\ approvals' \in [Actions -> Nat] /\ decisions' \in 0 .. MaxDecisions
    BY <2>4 DEF expireStaleActions, ActionInv, TypeOK, history, bounds, Present, Stale, Pending,
                HasStatus, Statuses
  <2> QED BY <2>1, <2>2, <2>3, <2>4
<1>2. /\ row' \in [Actions -> Row \union {None}] /\ Present' = Present
      /\ (\A a \in Present : row[a].draft \in {None, row[a].payload})'
  BY <1>1, SetStatusTyped DEF products
<1>3. CallsOfPresent' /\ PayloadInv'
  BY <1>1, <1>2, CallsUndisturbed DEF PayloadInv, DraftOfPayload, products
<1>4. TypeOK'
  BY <1>1, <1>2 DEF ActionInv, TypeOK, products
<1> QED BY <1>3, <1>4 DEF ActionInv

-----------------------------------------------------------------------------
(* Proposals *)

LEMMA FindInv ==
    ASSUME ActionInv, PayloadInv, NEW p \in Proposals, NEW a \in Actions, Find(p, a)
    PROVE  (ActionInv /\ PayloadInv)'
<1> USE DEF Find, history, bounds, products, ActionInv
<1>1. row[a] # None => row[a] \in Row
  BY DEF TypeOK
<1>2. TypeOK'
  BY <1>1 DEF TypeOK, Exists, Row
<1>3. Present' = Present
  BY DEF Present, Exists
<1>4. \A q \in Proposals : proposal'[q] =
        IF q = p THEN [pc |-> "found", of |-> a, seen |-> IF Exists(a) THEN row[a].status ELSE None]
        ELSE proposal[q]
  BY DEF TypeOK
<1>5. CallsOfPresent'
  BY <1>3, <1>4 DEF CallsOfPresent, Present
<1>6. PayloadInv'
  BY <1>3 DEF PayloadInv, DraftOfPayload, CampaignOfOnePayload
<1> QED BY <1>2, <1>5, <1>6

LEMMA ProposeInv ==
    ASSUME ActionInv, PayloadInv, NEW p \in Proposals, Propose(p)
    PROVE  (ActionInv /\ PayloadInv)'
<1> DEFINE a == proposal[p].of
<1> USE DEF Propose, history, bounds, products, ActionInv
<1>1. a \in Actions /\ (proposal[p].seen # None => a \in Present)
  BY DEF CallsOfPresent
<1>2. /\ row' \in [Actions -> Row \union {None}]
      /\ Present \subseteq Present' /\ (~(proposal[p].seen = None /\ Exists(a)) => a \in Present'
                                         \/ (proposal[p].seen # None /\ a \in Present))
      /\ (\A b \in Present : row[b].draft \in {None, row[b].payload})'
  <2>1. CASE UNCHANGED row /\ (proposal[p].seen # None \/ Exists(a))
    BY <1>1, <2>1 DEF TypeOK, Present, Exists, PayloadInv, DraftOfPayload
  <2>2. CASE proposal[p].seen # None /\ Refresh(p, a)
    <3>1. row[a] \in Row
      BY <1>1, <2>2 DEF TypeOK, Present, Exists
    <3>2. \A b \in Actions : b # a => row'[b] = row[b]
      BY <2>2 DEF Refresh, TypeOK
    <3>3. row'[a] \in Row /\ row'[a].draft = None
      BY <1>1, <2>2, <3>1 DEF Refresh, TypeOK, Row
    <3>4. row' \in [Actions -> Row \union {None}]
      BY <1>1, <2>2, <3>2, <3>3 DEF Refresh, TypeOK
    <3> QED BY <1>1, <2>2, <3>2, <3>3, <3>4, ActionQueueAssumption
            DEF Present, Exists, PayloadInv, DraftOfPayload
  <2>3. CASE ~Exists(a) /\ row' = [row EXCEPT ![a] = Created(p)]
    <3>1. Created(p) \in Row /\ Created(p).draft = None
      BY DEF Created, NewRow, Row, Statuses
    <3>2. /\ \A b \in Actions : b # a => row'[b] = row[b]
          /\ row'[a] = Created(p)
      BY <1>1, <2>3 DEF TypeOK
    <3> QED BY <1>1, <2>3, <3>1, <3>2, ActionQueueAssumption
            DEF TypeOK, Present, Exists, PayloadInv, DraftOfPayload
  <2> QED BY <2>1, <2>2, <2>3
<1>3. /\ \A q \in Proposals : q # p => proposal'[q] = proposal[q]
      /\ proposal'[p] = [proposal[p] EXCEPT !.pc =
            IF a \in Autopilot /\ ~(proposal[p].seen = None /\ Exists(a)) THEN "routing" ELSE "done"]
  BY DEF TypeOK
<1>4. TypeOK'
  BY <1>2 DEF TypeOK
<1>5. CallsOfPresent'
  <2>1. \A q \in Proposals :
          /\ proposal'[q].pc # "idle" => proposal'[q].of \in Actions
          /\ proposal'[q].pc # "idle" /\ proposal'[q].seen # None => proposal'[q].of \in Present'
          /\ proposal'[q].pc = "routing" =>
               proposal'[q].of \in Present' /\ proposal'[q].of \in Autopilot
    BY <1>1, <1>2, <1>3 DEF CallsOfPresent, TypeOK
  <2>2. UNCHANGED review
    OBVIOUS
  <2> QED BY <1>2, <2>1, <2>2 DEF CallsOfPresent
<1>6. PayloadInv'
  BY <1>2 DEF PayloadInv, DraftOfPayload, CampaignOfOnePayload
<1> QED BY <1>4, <1>5, <1>6

LEMMA RouteInv ==
    ASSUME ActionInv, PayloadInv, NEW p \in Proposals, Route(p) \/ ProposalFails(p)
    PROVE  (ActionInv /\ PayloadInv)'
<1> USE DEF history, bounds, products, ActionInv
<1>1. /\ proposal[p].pc \in {"found", "routing"} /\ proposal' = [proposal EXCEPT ![p].pc = "done"]
      /\ UNCHANGED <<review, products, history, decisions>> /\ faults' \in 0 .. MaxFaults
  BY ActionQueueAssumption DEF Route, ProposalFails, Fault, TypeOK
<1>2. /\ row' \in [Actions -> Row \union {None}] /\ Present' = Present
      /\ (\A a \in Present : row[a].draft \in {None, row[a].payload})'
  <2>1. CASE UNCHANGED row
    BY <2>1 DEF TypeOK, Present, Exists, PayloadInv, DraftOfPayload
  <2>2. CASE Route(p) /\ SetStatus({proposal[p].of}, "executed")
    <3>1. {proposal[p].of} \in SUBSET Present
      BY <2>2 DEF Route, CallsOfPresent
    <3> QED BY <1>1, <2>2, <3>1, SetStatusTyped DEF Statuses
  <2> QED BY <2>1, <2>2 DEF Route, ProposalFails
<1>3. TypeOK'
  BY <1>1, <1>2 DEF TypeOK
<1>4. CallsOfPresent'
  BY <1>1, <1>2 DEF CallsOfPresent, TypeOK
<1>5. PayloadInv'
  BY <1>1, <1>2 DEF PayloadInv, DraftOfPayload, CampaignOfOnePayload
<1> QED BY <1>3, <1>4, <1>5

-----------------------------------------------------------------------------
(* Reviews.  Each step of one is: what it makes of its row, a row set typed *)
(* and with its draft, and what it makes of its own record.                 *)

ReviewRecord == [pc : {"idle", "creative", "drafting", "executing", "producing", "recording", "done"},
                 ids : SUBSET Actions, of : Actions \union {None},
                 payload : Proposals \union {None}, draft : Proposals \union {None}]

(* A record a review may have while Ps are present.                         *)
GoodRecord(v, Ps) ==
    /\ v \in ReviewRecord
    /\ v.pc \notin {"idle", "done"} => v.of \in Ps /\ v.ids \subseteq Ps
    /\ v.pc \in {"drafting", "producing", "recording"} => v.payload \in Proposals
    /\ v.pc \in {"producing", "recording"} => v.draft \in {None, v.payload}

LEMMA ReviewStep ==
    ASSUME ActionInv, PayloadInv, NEW r \in Reviews, NEW v,
           review' = [review EXCEPT ![r] = v], GoodRecord(v, Present), Present' = Present,
           row' \in [Actions -> Row \union {None}],
           \A a \in Present : row'[a].draft \in {None, row'[a].payload},
           campaigns' \subseteq Campaign, CampaignOfOnePayload', active' \subseteq Automations,
           approvals' \in [Actions -> Nat], excess' \in [Actions -> Nat],
           UNCHANGED <<proposal, decisions>>, faults' \in 0 .. MaxFaults
    PROVE  (ActionInv /\ PayloadInv)'
<1>1. /\ \A o \in Reviews : o # r => review'[o] = review[o]
      /\ review'[r] = v /\ review' \in [Reviews -> ReviewRecord]
  BY DEF ActionInv, TypeOK, GoodRecord, ReviewRecord
<1>2. TypeOK'
  BY <1>1 DEF ActionInv, TypeOK, ReviewRecord
<1>3. CallsOfPresent'
  <2>1. \A o \in Reviews : review'[o].pc \notin {"idle", "done"} =>
         /\ review'[o].of \in Present' /\ review'[o].ids \subseteq Present'
         /\ review'[o].pc \in {"drafting", "producing", "recording"} => review'[o].payload \in Proposals
    BY <1>1 DEF ActionInv, CallsOfPresent, GoodRecord
  <2> QED BY <2>1 DEF ActionInv, CallsOfPresent
<1>4. DraftOfPayload'
  <2>1. \A o \in Reviews : review'[o].pc \in {"producing", "recording"} =>
             review'[o].draft \in {None, review'[o].payload}
    BY <1>1 DEF PayloadInv, DraftOfPayload, GoodRecord
  <2> QED BY <2>1 DEF DraftOfPayload
<1> QED BY <1>2, <1>3, <1>4 DEF ActionInv, PayloadInv

LEMMA NextIdRecord ==
    ASSUME ActionInv, NEW r \in Reviews, review[r].pc \notin {"idle", "done"}, NextId(r)
    PROVE  \E v : review' = [review EXCEPT ![r] = v] /\ GoodRecord(v, Present)
<1> DEFINE ids == review[r].ids \ {Current(r)}
<1>1. ids \subseteq Present /\ Present \subseteq Actions
  BY DEF ActionInv, CallsOfPresent, Present
<1>2. CASE ids = {}
  <2>1. GoodRecord([NoReview EXCEPT !.pc = "done"], Present)
    BY DEF GoodRecord, NoReview, ReviewRecord
  <2>2. review' = [review EXCEPT ![r] = [NoReview EXCEPT !.pc = "done"]]
    BY <1>2 DEF NextId, Becomes
  <2> QED BY <2>1, <2>2
<1>3. CASE ids # {}
  <2>1. PICK a \in ids : Becomes(r, [NoReview EXCEPT !.pc = "creative", !.ids = ids, !.of = a])
    BY <1>3 DEF NextId
  <2>2. GoodRecord([NoReview EXCEPT !.pc = "creative", !.ids = ids, !.of = a], Present)
    BY <1>1, <2>1 DEF GoodRecord, NoReview, ReviewRecord
  <2> QED BY <2>1, <2>2 DEF Becomes
<1> QED BY <1>2, <1>3

LEMMA ApproveInv ==
    ASSUME ActionInv, PayloadInv, NEW r \in Reviews,
           \/ \E a \in Actions : approveAction(r, a)
           \/ \E as \in SUBSET Actions : bulkApprove(r, as)
    PROVE  (ActionInv /\ PayloadInv)'
<1>1. PICK as \in SUBSET Present, v \in ReviewRecord :
        /\ SetStatus(as, "approved") /\ Approved(as)
        /\ review' = [review EXCEPT ![r] = v] /\ GoodRecord(v, Present)
        /\ UNCHANGED <<proposal, products, excess, bounds>>
  <2>1. ASSUME NEW a \in Actions, approveAction(r, a)
        PROVE  \E as \in SUBSET Present, v \in ReviewRecord :
                 /\ SetStatus(as, "approved") /\ Approved(as)
                 /\ review' = [review EXCEPT ![r] = v] /\ GoodRecord(v, Present)
                 /\ UNCHANGED <<proposal, products, excess, bounds>>
    <3> DEFINE v == [NoReview EXCEPT !.pc = "creative", !.ids = {a}, !.of = a]
    <3>1. {a} \in SUBSET Present
      BY <2>1 DEF approveAction, Present
    <3>2. GoodRecord(v, Present)
      BY <3>1 DEF GoodRecord, NoReview, ReviewRecord, Present
    <3>3. review' = [review EXCEPT ![r] = v]
      BY <2>1 DEF approveAction, Becomes
    <3>4. v \in ReviewRecord
      BY <3>2 DEF GoodRecord
    <3> HIDE DEF v
    <3> QED BY <2>1, <3>1, <3>2, <3>3, <3>4 DEF approveAction
  <2>2. ASSUME NEW bs \in SUBSET Actions, bulkApprove(r, bs)
        PROVE  \E as \in SUBSET Present, v \in ReviewRecord :
                 /\ SetStatus(as, "approved") /\ Approved(as)
                 /\ review' = [review EXCEPT ![r] = v] /\ GoodRecord(v, Present)
                 /\ UNCHANGED <<proposal, products, excess, bounds>>
    <3>1. PICK a \in bs : Becomes(r, [NoReview EXCEPT !.pc = "creative", !.ids = bs, !.of = a])
      BY <2>2 DEF bulkApprove
    <3> DEFINE v == [NoReview EXCEPT !.pc = "creative", !.ids = bs, !.of = a]
    <3>2. bs \subseteq Present /\ Pending(bs) \in SUBSET Present
      BY <2>2 DEF bulkApprove, Present, Pending
    <3>3. GoodRecord(v, Present)
      BY <3>1, <3>2 DEF GoodRecord, NoReview, ReviewRecord, Present
    <3>4. review' = [review EXCEPT ![r] = v]
      BY <3>1 DEF Becomes
    <3>5. v \in ReviewRecord
      BY <3>3 DEF GoodRecord
    <3> HIDE DEF v
    <3> QED BY <2>2, <3>2, <3>3, <3>4, <3>5 DEF bulkApprove
  <2> QED BY <2>1, <2>2
<1>2. /\ row' \in [Actions -> Row \union {None}] /\ Present' = Present
      /\ (\A a \in Present : row[a].draft \in {None, row[a].payload})'
  BY <1>1, SetStatusTyped DEF Statuses, products
<1>3. approvals' \in [Actions -> Nat]
  <2>1. approvals' = [a \in Actions |-> IF a \in as THEN approvals[a] + 1 ELSE approvals[a]]
    BY <1>1 DEF Approved
  <2>2. \A a \in Actions : approvals[a] \in Nat
    BY DEF ActionInv, TypeOK
  <2>3. \A a \in Actions : approvals[a] + 1 \in Nat
    BY <2>2
  <2> QED BY <2>1, <2>2, <2>3, Zenon
<1>4. /\ campaigns' \subseteq Campaign /\ CampaignOfOnePayload' /\ active' \subseteq Automations
      /\ excess' \in [Actions -> Nat] /\ UNCHANGED <<proposal, decisions>> /\ faults' \in 0 .. MaxFaults
  BY <1>1 DEF ActionInv, TypeOK, PayloadInv, CampaignOfOnePayload, products, bounds
<1>5. \A a \in Present : row'[a].draft \in {None, row'[a].payload}
  BY <1>2
<1> QED BY <1>1, <1>2, <1>3, <1>4, <1>5, ReviewStep

(* Reading changes no row: what is read goes into the review's record.      *)
LEMMA ReadInv ==
    ASSUME ActionInv, PayloadInv, NEW r \in Reviews, ReadForCreative(r) \/ ReadApproved(r)
    PROVE  (ActionInv /\ PayloadInv)'
<1> DEFINE a == Current(r)
<1>1. /\ a \in Present /\ a \in Actions /\ review[r].ids \subseteq Present /\ review[r] \in ReviewRecord
      /\ review[r].of = a
  BY DEF ReadForCreative, ReadApproved, At, Current, ActionInv, CallsOfPresent, TypeOK, ReviewRecord,
         Present
<1>2. row[a] \in Row /\ row[a].draft \in {None, row[a].payload}
  BY <1>1 DEF ActionInv, TypeOK, PayloadInv, DraftOfPayload, Present, Exists
<1>3. PICK v : review' = [review EXCEPT ![r] = v] /\ GoodRecord(v, Present)
  <2>1. CASE ReadForCreative(r) /\ Goto(r, "executing")
    <3> DEFINE v == [review[r] EXCEPT !.pc = "executing"]
    <3>1. GoodRecord(v, Present)
      BY <1>1 DEF GoodRecord, ReviewRecord
    <3>2. review' = [review EXCEPT ![r] = v]
      BY <2>1 DEF Goto
    <3> HIDE DEF v
    <3> QED BY <3>1, <3>2
  <2>2. CASE /\ ReadForCreative(r)
             /\ review' = [review EXCEPT ![r].pc = "drafting", ![r].payload = row[a].payload]
    <3> DEFINE v == [review[r] EXCEPT !.pc = "drafting", !.payload = row[a].payload]
    <3>1. GoodRecord(v, Present)
      BY <1>1, <1>2 DEF GoodRecord, ReviewRecord, Row
    <3>2. review' = [review EXCEPT ![r] = v]
      BY <2>2 DEF ActionInv, TypeOK
    <3> HIDE DEF v
    <3> QED BY <3>1, <3>2
  <2>3. CASE ReadApproved(r) /\ MayExecute(a)
    <3> DEFINE v == [review[r] EXCEPT !.pc = "producing", !.payload = row[a].payload, !.draft = row[a].draft]
    <3>1. GoodRecord(v, Present)
      BY <1>1, <1>2 DEF GoodRecord, ReviewRecord, Row
    <3>2. review' = [review EXCEPT ![r] = v]
      BY <2>3 DEF ReadApproved, ActionInv, TypeOK
    <3> HIDE DEF v
    <3> QED BY <3>1, <3>2
  <2>4. CASE ReadApproved(r) /\ ~MayExecute(a)
    <3>1. NextId(r) /\ review[r].pc \notin {"idle", "done"}
      BY <2>4 DEF ReadApproved, At
    <3> QED BY <3>1, NextIdRecord
  <2> QED BY <2>1, <2>2, <2>3, <2>4 DEF ReadForCreative
<1>4. /\ excess' \in [Actions -> Nat]
      /\ UNCHANGED <<row, proposal, products, approvals, bounds>>
  <2>1. CASE excess' = [excess EXCEPT ![a] = IF BeingExecuted(r, a) THEN @ + 1 ELSE @]
    BY <1>1, <2>1 DEF ReadForCreative, ReadApproved, ActionInv, TypeOK, history
  <2>2. CASE UNCHANGED excess
    BY <2>2 DEF ReadForCreative, ReadApproved, ActionInv, TypeOK, history
  <2> QED BY <2>1, <2>2 DEF ReadForCreative, ReadApproved, history
<1>5. Present' = Present /\ \A b \in Present : row'[b].draft \in {None, row'[b].payload}
  BY <1>4 DEF Present, Exists, PayloadInv, DraftOfPayload
<1>6. /\ row' \in [Actions -> Row \union {None}] /\ campaigns' \subseteq Campaign
      /\ CampaignOfOnePayload' /\ active' \subseteq Automations /\ approvals' \in [Actions -> Nat]
      /\ UNCHANGED <<proposal, decisions>> /\ faults' \in 0 .. MaxFaults
  BY <1>4 DEF ActionInv, TypeOK, PayloadInv, CampaignOfOnePayload, products, bounds
<1> QED BY <1>3, <1>4, <1>5, <1>6, ReviewStep

(* One row is written, with a draft of its payload.                         *)
LEMMA WriteInv ==
    ASSUME ActionInv, PayloadInv, NEW r \in Reviews, WriteCreative(r) \/ Record(r)
    PROVE  (ActionInv /\ PayloadInv)'
<1> DEFINE a == Current(r)
<1>1. /\ a \in Present /\ a \in Actions /\ review[r].ids \subseteq Present /\ review[r] \in ReviewRecord
      /\ review[r].of = a /\ review[r].payload \in Proposals /\ row[a] \in Row
      /\ row[a].draft \in {None, row[a].payload}
  BY DEF WriteCreative, Record, At, Current, ActionInv, CallsOfPresent, TypeOK, ReviewRecord, Present,
         Exists, PayloadInv, DraftOfPayload
<1>2. PICK v : review' = [review EXCEPT ![r] = v] /\ GoodRecord(v, Present)
  <2>1. CASE WriteCreative(r)
    <3> DEFINE v == [review[r] EXCEPT !.pc = "executing"]
    <3>1. GoodRecord(v, Present)
      BY <1>1 DEF GoodRecord, ReviewRecord
    <3>2. review' = [review EXCEPT ![r] = v]
      BY <2>1 DEF WriteCreative, Goto
    <3> HIDE DEF v
    <3> QED BY <3>1, <3>2
  <2>2. CASE Record(r)
    <3>1. NextId(r) /\ review[r].pc \notin {"idle", "done"}
      BY <2>2 DEF Record, At
    <3> QED BY <3>1, NextIdRecord
  <2> QED BY <2>1, <2>2
<1>3. PICK w \in Row : row' = [row EXCEPT ![a] = w] /\ w.draft \in {None, w.payload}
  <2>1. CASE WriteCreative(r)
    <3> DEFINE w == [row[a] EXCEPT !.payload = review[r].payload, !.draft = review[r].payload]
    <3>1. w \in Row /\ w.draft \in {None, w.payload}
      BY <1>1 DEF Row
    <3>2. row' = [row EXCEPT ![a] = w]
      BY <2>1 DEF WriteCreative, ActionInv, TypeOK
    <3> HIDE DEF w
    <3> QED BY <3>1, <3>2
  <2>2. CASE Record(r)
    <3> DEFINE x == IF a \in Automations THEN a ELSE Draft(r)
    <3> DEFINE w == [row[a] EXCEPT !.status = "executed", !.artifact = x]
    <3>1. x \in Campaign \union Automations
      BY <1>1 DEF Draft, Campaign, Current, ReviewRecord
    <3>2. row' = [row EXCEPT ![a] = w]
      BY <2>2 DEF Record, ActionInv, TypeOK
    <3> HIDE DEF x
    <3>3. w \in Row /\ w.draft \in {None, w.payload}
      BY <1>1, <3>1 DEF Row, Statuses
    <3> HIDE DEF w
    <3> QED BY <3>2, <3>3
  <2> QED BY <2>1, <2>2
<1>4. row'[a] = w /\ \A b \in Actions : b # a => row'[b] = row[b]
  BY <1>1, <1>3 DEF ActionInv, TypeOK
<1>5. Present' = Present
  BY <1>1, <1>4, ActionQueueAssumption DEF Present, Exists
<1>6. \A b \in Present : row'[b].draft \in {None, row'[b].payload}
  BY <1>3, <1>4 DEF Present, PayloadInv, DraftOfPayload
<1>7. row' \in [Actions -> Row \union {None}]
  BY <1>3 DEF ActionInv, TypeOK
<1>8. UNCHANGED <<proposal, products, history, bounds>>
  BY DEF WriteCreative, Record
<1>9. /\ campaigns' \subseteq Campaign
      /\ CampaignOfOnePayload' /\ active' \subseteq Automations /\ approvals' \in [Actions -> Nat]
      /\ excess' \in [Actions -> Nat] /\ UNCHANGED <<proposal, decisions>> /\ faults' \in 0 .. MaxFaults
  BY <1>8 DEF ActionInv, TypeOK, PayloadInv, CampaignOfOnePayload, products, history, bounds
<1> QED BY <1>2, <1>5, <1>6, <1>7, <1>9, ReviewStep

LEMMA ProduceInv ==
    ASSUME ActionInv, PayloadInv, NEW r \in Reviews, Produce(r)
    PROVE  (ActionInv /\ PayloadInv)'
<1> DEFINE v == [review[r] EXCEPT !.pc = "recording"]
<1>1. /\ Current(r) \in Actions /\ review[r] \in ReviewRecord /\ review[r].payload \in Proposals
      /\ review[r].draft \in {None, review[r].payload}
      /\ review[r].of \in Present /\ review[r].ids \subseteq Present
  BY DEF Produce, At, Current, ActionInv, CallsOfPresent, TypeOK, ReviewRecord, Present,
         PayloadInv, DraftOfPayload
<1>2. GoodRecord(v, Present)
  BY <1>1 DEF GoodRecord, ReviewRecord
<1>3. review' = [review EXCEPT ![r] = v]
  BY DEF Produce, Goto
<1>4. /\ Draft(r) \in Campaign /\ Draft(r).draft \in {None, Draft(r).payload}
  BY <1>1 DEF Draft, Campaign, ReviewRecord
<1>5. /\ campaigns' \subseteq campaigns \union {Draft(r)}
      /\ active' \subseteq Automations
  BY DEF Produce, ActionInv, TypeOK
<1>6. campaigns' \subseteq Campaign /\ CampaignOfOnePayload'
  BY <1>4, <1>5 DEF ActionInv, TypeOK, PayloadInv, CampaignOfOnePayload
<1>7. UNCHANGED <<row, proposal, history, bounds>>
  BY DEF Produce
<1>8. /\ Present' = Present /\ row' \in [Actions -> Row \union {None}]
      /\ approvals' \in [Actions -> Nat] /\ excess' \in [Actions -> Nat]
      /\ UNCHANGED <<proposal, decisions>> /\ faults' \in 0 .. MaxFaults
      /\ \A b \in Present : row'[b].draft \in {None, row'[b].payload}
  BY <1>7 DEF ActionInv, TypeOK, PayloadInv, DraftOfPayload, Present, Exists, history, bounds
<1> HIDE DEF v
<1> QED BY <1>2, <1>3, <1>5, <1>6, <1>8, ReviewStep

LEMMA ReviewFailsInv ==
    ASSUME ActionInv, PayloadInv, NEW r \in Reviews, ReviewFails(r)
    PROVE  (ActionInv /\ PayloadInv)'
<1>1. PICK v : review' = [review EXCEPT ![r] = v] /\ GoodRecord(v, Present)
  <2>1. CASE NextId(r)
    BY <2>1, NextIdRecord DEF ReviewFails
  <2>2. CASE Becomes(r, [NoReview EXCEPT !.pc = "done"])
    <3>1. GoodRecord([NoReview EXCEPT !.pc = "done"], Present)
      BY DEF GoodRecord, NoReview, ReviewRecord
    <3> QED BY <2>2, <3>1 DEF Becomes
  <2> QED BY <2>1, <2>2 DEF ReviewFails
<1>2. UNCHANGED <<row, proposal, products, approvals, decisions>> /\ faults' \in 0 .. MaxFaults
  BY ActionQueueAssumption DEF ReviewFails, Fault, ActionInv, TypeOK
<1>3. excess' \in [Actions -> Nat]
  <2>1. excess' = [excess EXCEPT ![Current(r)] = IF At(r, "recording") THEN @ + 1 ELSE @]
    BY DEF ReviewFails
  <2>2. CASE At(r, "recording")
    <3>1. excess' = [excess EXCEPT ![Current(r)] = @ + 1]
      BY <2>1, <2>2
    <3>2. Current(r) \in Actions
      BY DEF ReviewFails, Current, ActionInv, CallsOfPresent, Present
    <3> QED BY <3>1, <3>2 DEF ActionInv, TypeOK
  <2>3. CASE ~At(r, "recording")
    BY <2>1, <2>3 DEF ActionInv, TypeOK
  <2> QED BY <2>2, <2>3
<1>4. /\ Present' = Present /\ row' \in [Actions -> Row \union {None}]
      /\ approvals' \in [Actions -> Nat]
      /\ campaigns' \subseteq Campaign /\ CampaignOfOnePayload' /\ active' \subseteq Automations
      /\ \A b \in Present : row'[b].draft \in {None, row'[b].payload}
  BY <1>2 DEF ActionInv, TypeOK, PayloadInv, DraftOfPayload, CampaignOfOnePayload, Present, Exists,
              products
<1> QED BY <1>1, <1>2, <1>3, <1>4, ReviewStep

LEMMA StepInv == ActionInv /\ PayloadInv /\ [Next]_vars => (ActionInv /\ PayloadInv)'
<1> SUFFICES ASSUME ActionInv, PayloadInv, [Next]_vars PROVE (ActionInv /\ PayloadInv)'
  OBVIOUS
<1>1. CASE UNCHANGED vars
  BY <1>1 DEF vars, products, history, bounds, ActionInv, PayloadInv, TypeOK, CallsOfPresent,
              DraftOfPayload, CampaignOfOnePayload, Present, Exists
<1>2. ASSUME NEW p \in Proposals, \E a \in Actions : Find(p, a) PROVE (ActionInv /\ PayloadInv)'
  BY <1>2, FindInv
<1>3. ASSUME NEW p \in Proposals, Propose(p) PROVE (ActionInv /\ PayloadInv)'
  BY <1>3, ProposeInv
<1>4. ASSUME NEW p \in Proposals, Route(p) \/ ProposalFails(p) PROVE (ActionInv /\ PayloadInv)'
  BY <1>4, RouteInv
<1>5. ASSUME \/ \E a \in Actions : rejectAction(a) \/ approveByAgent(a)
             \/ \E as \in SUBSET Actions : bulkReject(as) \/ expireStaleActions(as)
      PROVE  (ActionInv /\ PayloadInv)'
  BY <1>5, DecisionInv
<1>6. ASSUME NEW r \in Reviews,
             \/ \E a \in Actions : approveAction(r, a)
             \/ \E as \in SUBSET Actions : bulkApprove(r, as)
      PROVE  (ActionInv /\ PayloadInv)'
  BY <1>6, ApproveInv
<1>7. ASSUME NEW r \in Reviews, ReadForCreative(r) \/ ReadApproved(r) PROVE (ActionInv /\ PayloadInv)'
  BY <1>7, ReadInv
<1>8. ASSUME NEW r \in Reviews, WriteCreative(r) \/ Record(r) PROVE (ActionInv /\ PayloadInv)'
  BY <1>8, WriteInv
<1>9. ASSUME NEW r \in Reviews, Produce(r) PROVE (ActionInv /\ PayloadInv)'
  BY <1>9, ProduceInv
<1>10. ASSUME NEW r \in Reviews, ReviewFails(r) PROVE (ActionInv /\ PayloadInv)'
  BY <1>10, ReviewFailsInv
<1> QED BY <1>1, <1>2, <1>3, <1>4, <1>5, <1>6, <1>7, <1>8, <1>9, <1>10 DEF Next, Execute

-----------------------------------------------------------------------------
(* Every variable keeps its type: a call in progress works on a row that    *)
(* exists (TypeOK).                                                         *)
THEOREM TypeCorrect == Spec => []TypeOK
<1>1. ActionInv /\ PayloadInv => TypeOK
  BY DEF ActionInv
<1> QED BY <1>1, InitInv, StepInv, PTL DEF Spec

(* A campaign drafted from an approval uses a generated draft only with the *)
(* payload it was generated from (CampaignOfOnePayload).                    *)
THEOREM DraftMatchesPayload == Spec => []CampaignOfOnePayload
<1>1. ActionInv /\ PayloadInv => CampaignOfOnePayload
  BY DEF PayloadInv
<1> QED BY <1>1, InitInv, StepInv, PTL DEF Spec

(* Only a decision of one action, an execution that read it approved or its *)
(* autopilot changes the status of an action that is no longer pending      *)
(* (DecisionStands).                                                        *)
THEOREM DecisionsStand == Spec => DecisionStands
<1> DEFINE Lawful(a) ==
        Exists(a) /\ row[a].status # "pending" /\ row'[a].status # row[a].status =>
             \/ row'[a].status = "executed" /\ a \in Autopilot
             \/ row'[a].status = "executed"
                  /\ \E r \in Reviews : review[r].of = a /\ At(r, "recording")
             \/ row'[a].status \in {"approved", "rejected"} /\ decisions' # decisions
             \/ row'[a].status = "approved"
                  /\ \E r \in Reviews : At(r, "idle") /\ review'[r].ids = {a}
<1>1. ASSUME ActionInv, [Next]_vars, NEW a \in Actions, Exists(a), row[a].status # "pending",
             row'[a].status # row[a].status
      PROVE  Lawful(a)
  <2> USE DEF ActionInv
  <2>0. row[a] \in Row /\ DOMAIN row = Actions
    BY <1>1 DEF TypeOK, Exists
  <2>1. CASE UNCHANGED vars
    BY <1>1, <2>1 DEF vars
  <2>2. ASSUME NEW p \in Proposals, \E b \in Actions : Find(p, b) PROVE FALSE
    BY <1>1, <2>2 DEF Find
  <2>3. ASSUME NEW p \in Proposals, Propose(p) PROVE FALSE
    BY <1>1, <2>0, <2>3 DEF Propose, Refresh, Row, CallsOfPresent
  <2>4. ASSUME NEW p \in Proposals, Route(p) PROVE Lawful(a)
    <3>1. SetStatus({proposal[p].of}, "executed") /\ proposal[p].of \in Autopilot
      BY <1>1, <2>4 DEF Route, CallsOfPresent
    <3>2. row'[a] = IF a = proposal[p].of THEN [row[a] EXCEPT !.status = "executed"] ELSE row[a]
      BY <3>1 DEF SetStatus
    <3>3. a = proposal[p].of /\ row'[a].status = "executed"
      BY <1>1, <2>0, <3>2 DEF Row
    <3> QED BY <3>1, <3>3
  <2>5. ASSUME NEW p \in Proposals, ProposalFails(p) PROVE FALSE
    BY <1>1, <2>5 DEF ProposalFails
  <2>6. ASSUME NEW b \in Actions, rejectAction(b) PROVE Lawful(a)
    <3>1. row'[a] = IF a = b THEN [row[a] EXCEPT !.status = "rejected"] ELSE row[a]
      BY <2>6 DEF rejectAction, SetStatus
    <3>2. row'[a].status = "rejected"
      BY <1>1, <2>0, <3>1 DEF Row
    <3>3. decisions' # decisions
      BY <1>1, <2>6 DEF rejectAction, Decision, TypeOK
    <3> QED BY <3>2, <3>3
  <2>7. ASSUME NEW b \in Actions, approveByAgent(b) PROVE Lawful(a)
    <3>1. row'[a] = IF a = b THEN [row[a] EXCEPT !.status = "approved"] ELSE row[a]
      BY <2>7 DEF approveByAgent, SetStatus
    <3>2. row'[a].status = "approved"
      BY <1>1, <2>0, <3>1 DEF Row
    <3>3. decisions' # decisions
      BY <1>1, <2>7 DEF approveByAgent, Decision, TypeOK
    <3> QED BY <3>2, <3>3
  <2>8. ASSUME NEW as \in SUBSET Actions, bulkReject(as) \/ expireStaleActions(as) PROVE FALSE
    BY <1>1, <2>8 DEF bulkReject, expireStaleActions, SetStatus, Stale, Pending, HasStatus
  <2>9. ASSUME NEW r \in Reviews, NEW b \in Actions, approveAction(r, b) PROVE Lawful(a)
    <3>1. row'[a] = IF a = b THEN [row[a] EXCEPT !.status = "approved"] ELSE row[a]
      BY <2>9 DEF approveAction, SetStatus
    <3>2. a = b /\ row'[a].status = "approved"
      BY <1>1, <2>0, <3>1 DEF Row
    <3>3. At(r, "idle") /\ review'[r].ids = {b}
      BY <1>1, <2>9 DEF approveAction, Becomes, NoReview, TypeOK
    <3> QED BY <3>2, <3>3
  <2>10. ASSUME NEW r \in Reviews, NEW as \in SUBSET Actions, bulkApprove(r, as) PROVE FALSE
    BY <1>1, <2>10 DEF bulkApprove, SetStatus, Pending, HasStatus
  <2>11. ASSUME NEW r \in Reviews, ReadForCreative(r) \/ ReadApproved(r) \/ Produce(r) \/ ReviewFails(r)
         PROVE  FALSE
    BY <1>1, <2>11 DEF ReadForCreative, ReadApproved, Produce, ReviewFails
  <2>12. ASSUME NEW r \in Reviews, WriteCreative(r) PROVE FALSE
    BY <1>1, <2>0, <2>12 DEF WriteCreative, Row
  <2>13. ASSUME NEW r \in Reviews, Record(r) PROVE Lawful(a)
    <3>1. a = Current(r) /\ row'[a].status = "executed"
      BY <1>1, <2>0, <2>13 DEF Record, Row
    <3> QED BY <2>13, <3>1 DEF Record, Current
  <2> QED BY <1>1, <2>1, <2>2, <2>3, <2>4, <2>5, <2>6, <2>7, <2>8, <2>9, <2>10, <2>11, <2>12, <2>13
          DEF Next, Execute
<1>2. ActionInv /\ [Next]_vars => [\A a \in Actions : Lawful(a)]_vars
  BY <1>1
<1>3. ActionInv /\ PayloadInv => ActionInv
  OBVIOUS
<1> QED BY <1>2, <1>3, InitInv, StepInv, PTL DEF Spec, DecisionStands

-----------------------------------------------------------------------------
(* Counting.  An approval not yet used is a row still approved that no      *)
(* execution has read; every execution that reads it again is in excess.    *)

Opened(a) == {r \in Reviews : review[r].of = a /\ review[r].pc \in {"producing", "recording"}}
Making(a) == {r \in Reviews : review[r].of = a /\ review[r].pc = "producing"}
Due(a) == IF HasStatus(a, "approved") /\ Opened(a) = {} THEN 1 ELSE 0
Spent(a) == Cardinality(CampaignsOf(a)) + Cardinality(Making(a)) + Due(a)

Earned == IsFiniteSet(campaigns) /\ \A a \in Actions : Spent(a) <= approvals[a] + excess[a]

LEMMA CountsAreNumbers ==
    ASSUME IsFiniteSet(campaigns), NEW a \in Actions
    PROVE  /\ IsFiniteSet(CampaignsOf(a)) /\ Cardinality(CampaignsOf(a)) \in Nat
           /\ IsFiniteSet(Making(a)) /\ Cardinality(Making(a)) \in Nat
           /\ Due(a) \in {0, 1}
<1>1. CampaignsOf(a) \in SUBSET campaigns /\ Making(a) \in SUBSET Reviews
  BY DEF CampaignsOf, Making
<1>2. IsFiniteSet(CampaignsOf(a)) /\ IsFiniteSet(Making(a))
  BY <1>1, FS_Subset, ActionQueueAssumption
<1> QED BY <1>2, FS_CardinalityType DEF Due

(* A step that opens and ends no execution earns an approval for each row   *)
(* it makes approved.                                                       *)
LEMMA NothingSpent ==
    ASSUME ActionInv, Earned, NEW a \in Actions, UNCHANGED <<campaigns, excess>>,
           Opened(a)' = Opened(a), Making(a)' = Making(a),
           \/ approvals'[a] = approvals[a] + 1
           \/ approvals'[a] = approvals[a] /\ (HasStatus(a, "approved")' => HasStatus(a, "approved"))
    PROVE  Spent(a)' <= approvals'[a] + excess'[a]
<1>1. /\ Cardinality(CampaignsOf(a)) \in Nat /\ Cardinality(Making(a)) \in Nat
      /\ Due(a) \in {0, 1} /\ Due(a)' \in {0, 1}
      /\ approvals[a] \in Nat /\ excess[a] \in Nat
      /\ Spent(a) <= approvals[a] + excess[a]
  BY CountsAreNumbers DEF Earned, Due, ActionInv, TypeOK
<1>2. CampaignsOf(a)' = CampaignsOf(a)
  BY DEF CampaignsOf
<1>3. Spent(a)' = Cardinality(CampaignsOf(a)) + Cardinality(Making(a)) + Due(a)'
  BY <1>2 DEF Spent
<1>4. Due(a)' <= Due(a) \/ approvals'[a] = approvals[a] + 1
  BY <1>1 DEF Due
<1> QED BY <1>1, <1>3, <1>4 DEF Spent

LEMMA RecordsChange ==
    ASSUME ActionInv, NEW r \in Reviews, NEW v \in ReviewRecord,
           review' = [review EXCEPT ![r] = v], NEW a \in Actions
    PROVE  /\ v.of # a \/ v.pc \notin {"producing", "recording"} =>
                Making(a)' = Making(a) \ {r} /\ Opened(a)' = Opened(a) \ {r}
           /\ v.of = a /\ v.pc = "producing" =>
                Making(a)' = Making(a) \union {r} /\ Opened(a)' = Opened(a) \union {r}
           /\ v.of = a /\ v.pc = "recording" =>
                Making(a)' = Making(a) \ {r} /\ Opened(a)' = Opened(a) \union {r}
<1>1. \A o \in Reviews : review'[o] = IF o = r THEN v ELSE review[o]
  BY DEF ActionInv, TypeOK
<1> QED BY <1>1 DEF Making, Opened

(* The next id is not being executed yet. *)
LEMMA NextIdRests ==
    ASSUME ActionInv, NEW r \in Reviews, NextId(r), review[r].pc \notin {"idle", "done"}
    PROVE  \E v \in ReviewRecord : review' = [review EXCEPT ![r] = v] /\ v.pc \in {"creative", "done"}
<1> DEFINE ids == review[r].ids \ {Current(r)}
<1>1. CASE ids = {}
  <2> DEFINE v == [NoReview EXCEPT !.pc = "done"]
  <2>1. v \in ReviewRecord /\ v.pc = "done"
    BY DEF NoReview, ReviewRecord
  <2>2. review' = [review EXCEPT ![r] = v]
    BY <1>1 DEF NextId, Becomes
  <2> HIDE DEF v
  <2> QED BY <2>1, <2>2
<1>2. CASE ids # {}
  <2>1. PICK b \in ids : Becomes(r, [NoReview EXCEPT !.pc = "creative", !.ids = ids, !.of = b])
    BY <1>2 DEF NextId
  <2> DEFINE v == [NoReview EXCEPT !.pc = "creative", !.ids = ids, !.of = b]
  <2>2. ids \subseteq Actions
    BY DEF ActionInv, TypeOK
  <2>3. v \in ReviewRecord /\ v.pc = "creative"
    BY <2>1, <2>2 DEF NoReview, ReviewRecord
  <2>4. review' = [review EXCEPT ![r] = v]
    BY <2>1 DEF Becomes
  <2> HIDE DEF v
  <2> QED BY <2>3, <2>4
<1> QED BY <1>1, <1>2

LEMMA DecisionsEarn ==
    ASSUME ActionInv, Earned, NEW a \in Actions,
           \/ \E p \in Proposals :
                 (\E b \in Actions : Find(p, b)) \/ Propose(p) \/ Route(p) \/ ProposalFails(p)
           \/ \E b \in Actions : rejectAction(b) \/ approveByAgent(b)
           \/ \E as \in SUBSET Actions : bulkReject(as) \/ expireStaleActions(as)
    PROVE  Spent(a)' <= approvals'[a] + excess'[a]
<1>1. UNCHANGED <<review, campaigns, excess>>
  BY DEF Find, Propose, Route, ProposalFails, rejectAction, approveByAgent, bulkReject,
         expireStaleActions, history, products
<1>2. Opened(a)' = Opened(a) /\ Making(a)' = Making(a)
  BY <1>1 DEF Opened, Making
<1>3. row[a] # None => row[a] \in Row
  BY DEF ActionInv, TypeOK
<1>4. ASSUME NEW as \in SUBSET Present, NEW s \in Statuses \ {"approved"}, SetStatus(as, s)
      PROVE  HasStatus(a, "approved")' => HasStatus(a, "approved")
  BY <1>3, <1>4 DEF SetStatus, HasStatus, Exists, Present, Row
<1>5. ASSUME NEW p \in Proposals, (\E b \in Actions : Find(p, b)) \/ ProposalFails(p)
      PROVE  approvals' = approvals /\ row' = row
  BY <1>5 DEF Find, ProposalFails, history
<1>6. ASSUME NEW p \in Proposals, Propose(p)
      PROVE  approvals' = approvals /\ (HasStatus(a, "approved")' => HasStatus(a, "approved"))
  <2>1. proposal[p].of \in Actions /\ (proposal[p].seen # None => Exists(proposal[p].of))
    BY <1>6 DEF Propose, ActionInv, CallsOfPresent, Present
  <2> QED BY <1>3, <1>6, <2>1
          DEF Propose, Refresh, Created, NewRow, HasStatus, Exists, history, ActionInv, TypeOK, Row
<1>7. ASSUME NEW p \in Proposals, Route(p)
      PROVE  approvals' = approvals /\ (HasStatus(a, "approved")' => HasStatus(a, "approved"))
  <2>1. {proposal[p].of} \in SUBSET Present /\ "executed" \in Statuses \ {"approved"}
    BY <1>7 DEF Route, ActionInv, CallsOfPresent, Statuses
  <2>2. approvals' = approvals /\ (SetStatus({proposal[p].of}, "executed") \/ UNCHANGED row)
    BY <1>7 DEF Route, history
  <2> QED BY <1>4, <2>1, <2>2 DEF HasStatus, Exists
<1>8. ASSUME NEW b \in Actions, rejectAction(b)
      PROVE  approvals' = approvals /\ (HasStatus(a, "approved")' => HasStatus(a, "approved"))
  <2>1. {b} \in SUBSET Present /\ "rejected" \in Statuses \ {"approved"}
    BY <1>8 DEF rejectAction, Present, Statuses
  <2> QED BY <1>4, <1>8, <2>1 DEF rejectAction, history
<1>9. ASSUME NEW b \in Actions, approveByAgent(b)
      PROVE  \/ approvals'[a] = approvals[a] + 1
             \/ approvals'[a] = approvals[a] /\ (HasStatus(a, "approved")' => HasStatus(a, "approved"))
  BY <1>9 DEF approveByAgent, Approved, SetStatus, HasStatus, Exists
<1>10. ASSUME NEW as \in SUBSET Actions, bulkReject(as) \/ expireStaleActions(as)
       PROVE  approvals' = approvals /\ (HasStatus(a, "approved")' => HasStatus(a, "approved"))
  <2>1. Pending(as) \in SUBSET Present /\ {"rejected", "expired"} \subseteq Statuses \ {"approved"}
    BY DEF Pending, HasStatus, Present, Statuses
  <2>2. approvals' = approvals
        /\ (SetStatus(Pending(as), "rejected") \/ SetStatus(Pending(as), "expired"))
    BY <1>10 DEF bulkReject, expireStaleActions, Stale, history
  <2> QED BY <1>4, <2>1, <2>2
<1> QED BY <1>1, <1>2, <1>5, <1>6, <1>7, <1>8, <1>9, <1>10, NothingSpent DEF HasStatus, Exists

LEMMA ReviewsEarn ==
    ASSUME ActionInv, Earned, NEW a \in Actions, NEW r \in Reviews,
           \/ \E b \in Actions : approveAction(r, b)
           \/ \E as \in SUBSET Actions : bulkApprove(r, as)
           \/ ReadForCreative(r) \/ WriteCreative(r) \/ (ReadApproved(r) /\ ~MayExecute(Current(r)))
    PROVE  Spent(a)' <= approvals'[a] + excess'[a]
<1>1. UNCHANGED <<campaigns, excess>>
  BY DEF approveAction, bulkApprove, ReadForCreative, WriteCreative, ReadApproved, history, products
<1>2. PICK v \in ReviewRecord : /\ review' = [review EXCEPT ![r] = v]
                                /\ v.pc \in {"creative", "drafting", "executing", "done"}
  <2>1. review[r] \in ReviewRecord
    BY DEF ActionInv, TypeOK, ReviewRecord
  <2>2. ASSUME NEW as \in SUBSET Actions, NEW b \in as,
               Becomes(r, [NoReview EXCEPT !.pc = "creative", !.ids = as, !.of = b])
        PROVE  \E v \in ReviewRecord : review' = [review EXCEPT ![r] = v] /\ v.pc = "creative"
    <3> DEFINE v == [NoReview EXCEPT !.pc = "creative", !.ids = as, !.of = b]
    <3>1. v \in ReviewRecord /\ v.pc = "creative"
      BY DEF NoReview, ReviewRecord
    <3>2. review' = [review EXCEPT ![r] = v]
      BY <2>2 DEF Becomes
    <3> HIDE DEF v
    <3> QED BY <3>1, <3>2
  <2>3. ASSUME NEW b \in Actions, approveAction(r, b)
        PROVE  Becomes(r, [NoReview EXCEPT !.pc = "creative", !.ids = {b}, !.of = b])
    BY <2>3 DEF approveAction
  <2>4. CASE Goto(r, "executing")
    <3> DEFINE v == [review[r] EXCEPT !.pc = "executing"]
    <3>1. v \in ReviewRecord /\ v.pc = "executing"
      BY <2>1 DEF ReviewRecord
    <3>2. review' = [review EXCEPT ![r] = v]
      BY <2>4 DEF Goto
    <3> HIDE DEF v
    <3> QED BY <3>1, <3>2
  <2>5. ASSUME At(r, "creative"),
               review' = [review EXCEPT ![r].pc = "drafting", ![r].payload = row[Current(r)].payload]
        PROVE  \E v \in ReviewRecord : review' = [review EXCEPT ![r] = v] /\ v.pc = "drafting"
    <3> DEFINE v == [review[r] EXCEPT !.pc = "drafting", !.payload = row[Current(r)].payload]
    <3>1. row[Current(r)] \in Row
      BY <2>5 DEF At, Current, ActionInv, TypeOK, CallsOfPresent, Present, Exists
    <3>2. v \in ReviewRecord /\ v.pc = "drafting"
      BY <2>1, <3>1 DEF ReviewRecord, Row
    <3>3. review' = [review EXCEPT ![r] = v]
      BY <2>5
    <3> HIDE DEF v
    <3> QED BY <3>2, <3>3
  <2>6. CASE ReadApproved(r) /\ ~MayExecute(Current(r))
    BY <2>6, NextIdRests DEF ReadApproved, At
  <2>7. CASE \E as \in SUBSET Actions : bulkApprove(r, as)
    BY <2>2, <2>7 DEF bulkApprove
  <2>8. ASSUME NEW b \in Actions, approveAction(r, b)
        PROVE  \E v \in ReviewRecord : review' = [review EXCEPT ![r] = v] /\ v.pc = "creative"
    <3>1. {b} \in SUBSET Actions /\ b \in {b}
      OBVIOUS
    <3> QED BY <2>2, <2>3, <2>8, <3>1
  <2>9. CASE ReadForCreative(r) \/ WriteCreative(r)
    BY <2>4, <2>5, <2>9 DEF ReadForCreative, WriteCreative
  <2> QED BY <2>6, <2>7, <2>8, <2>9
<1>3. r \notin Opened(a) /\ r \notin Making(a)
  BY DEF approveAction, bulkApprove, ReadForCreative, WriteCreative, ReadApproved, At, Opened, Making
<1>4. Opened(a)' = Opened(a) /\ Making(a)' = Making(a)
  <2>1. Making(a)' = Making(a) \ {r} /\ Opened(a)' = Opened(a) \ {r}
    BY <1>2, RecordsChange
  <2> QED BY <1>3, <2>1
<1>5. \/ approvals'[a] = approvals[a] + 1
      \/ approvals'[a] = approvals[a] /\ (HasStatus(a, "approved")' => HasStatus(a, "approved"))
  <2>1. ASSUME NEW as \in SUBSET Actions, SetStatus(as, "approved"), Approved(as)
        PROVE  \/ approvals'[a] = approvals[a] + 1
               \/ approvals'[a] = approvals[a] /\ (HasStatus(a, "approved")' => HasStatus(a, "approved"))
    BY <2>1 DEF Approved, SetStatus, HasStatus, Exists
  <2>2. ASSUME NEW b \in Actions, approveAction(r, b)
        PROVE  {b} \in SUBSET Actions /\ SetStatus({b}, "approved") /\ Approved({b})
    BY <2>2 DEF approveAction
  <2>3. ASSUME NEW as \in SUBSET Actions, bulkApprove(r, as)
        PROVE  Pending(as) \in SUBSET Actions /\ SetStatus(Pending(as), "approved") /\ Approved(Pending(as))
    BY <2>3 DEF bulkApprove, Pending
  <2>4. CASE WriteCreative(r)
    <3>1. row[a] # None => row[a] \in Row
      BY DEF ActionInv, TypeOK
    <3>2. Current(r) \in Actions /\ row[Current(r)] \in Row
      BY <2>4 DEF WriteCreative, At, Current, ActionInv, TypeOK, CallsOfPresent, Present, Exists
    <3> QED BY <2>4, <3>1, <3>2, ActionQueueAssumption
            DEF WriteCreative, HasStatus, Exists, history, ActionInv, TypeOK, Row
  <2>5. CASE ReadForCreative(r) \/ ReadApproved(r)
    BY <2>5 DEF ReadForCreative, ReadApproved, HasStatus, Exists, history
  <2> QED BY <2>1, <2>2, <2>3, <2>4, <2>5
<1> QED BY <1>1, <1>4, <1>5, NothingSpent

LEMMA ReadEarned ==
    ASSUME ActionInv, Earned, NEW a \in Actions, NEW r \in Reviews,
           ReadApproved(r), MayExecute(Current(r))
    PROVE  Spent(a)' <= approvals'[a] + excess'[a]
<1> DEFINE v == [review[r] EXCEPT !.pc = "producing", !.payload = row[Current(r)].payload,
                                  !.draft = row[Current(r)].draft]
<1>1. review' = [review EXCEPT ![r] = v]
  BY DEF ReadApproved
<1>2. v \in ReviewRecord /\ v.pc = "producing" /\ v.of = Current(r)
  <2>1. review[r] \in ReviewRecord
    BY DEF ActionInv, TypeOK, ReviewRecord
  <2>2. row[Current(r)] \in Row
    BY DEF ReadApproved, At, Current, ActionInv, TypeOK, CallsOfPresent, Present, Exists
  <2> QED BY <2>1, <2>2 DEF Current, ReviewRecord, Row
<1> HIDE DEF v
<1>3. /\ UNCHANGED <<campaigns, approvals>>
      /\ row' = row
      /\ excess' = [excess EXCEPT ![Current(r)] = IF BeingExecuted(r, Current(r)) THEN @ + 1 ELSE @]
  BY DEF ReadApproved, products
<1>4. r \notin Opened(a) /\ r \notin Making(a)
  BY DEF ReadApproved, At, Opened, Making
<1>5. CASE a # Current(r)
  <2>1. Opened(a)' = Opened(a) /\ Making(a)' = Making(a)
    <3>1. Making(a)' = Making(a) \ {r} /\ Opened(a)' = Opened(a) \ {r}
      BY <1>1, <1>2, <1>5, RecordsChange
    <3> QED BY <1>4, <3>1
  <2>2. excess'[a] = excess[a]
    BY <1>3, <1>5 DEF ActionInv, TypeOK
  <2>3. Spent(a)' = Spent(a)
    BY <1>3, <2>1 DEF Spent, CampaignsOf, Due, HasStatus, Exists
  <2> QED BY <1>3, <2>2, <2>3 DEF Earned
<1>6. CASE a = Current(r)
  <2>1. Making(a)' = Making(a) \union {r} /\ Opened(a)' = Opened(a) \union {r}
    BY <1>1, <1>2, <1>6, RecordsChange
  <2>2. Cardinality(Making(a)') = Cardinality(Making(a)) + 1
    BY <1>4, <2>1, CountsAreNumbers, FS_AddElement DEF Earned
  <2>3. Due(a)' = 0
    BY <2>1 DEF Due
  <2>4. CampaignsOf(a)' = CampaignsOf(a)
    BY <1>3 DEF CampaignsOf
  <2>5. Spent(a)' = Cardinality(CampaignsOf(a)) + (Cardinality(Making(a)) + 1) + 0
    BY <2>2, <2>3, <2>4 DEF Spent
  <2>6. /\ Cardinality(CampaignsOf(a)) \in Nat /\ Cardinality(Making(a)) \in Nat
        /\ approvals[a] \in Nat /\ excess[a] \in Nat
        /\ Spent(a) <= approvals[a] + excess[a]
    BY CountsAreNumbers DEF Earned, ActionInv, TypeOK
  <2>7. CASE Opened(a) = {}
    <3>1. Due(a) = 1
      BY <1>6, <2>7 DEF MayExecute, Due
    <3>2. ~BeingExecuted(r, a)
      BY <2>7 DEF BeingExecuted, Opened
    <3>3. excess'[a] = excess[a]
      BY <1>3, <1>6, <3>2 DEF ActionInv, TypeOK
    <3> QED BY <1>3, <2>5, <2>6, <3>1, <3>3 DEF Spent
  <2>8. CASE Opened(a) # {}
    <3>1. BeingExecuted(r, a)
      BY <1>4, <2>8 DEF BeingExecuted, Opened
    <3>2. excess' = [excess EXCEPT ![a] = @ + 1]
      BY <1>3, <1>6, <3>1
    <3>3. excess'[a] = excess[a] + 1
      BY <3>2 DEF ActionInv, TypeOK
    <3>4. Due(a) = 0
      BY <2>8 DEF Due
    <3> QED BY <1>3, <2>5, <2>6, <3>3, <3>4 DEF Spent
  <2> QED BY <2>7, <2>8
<1> QED BY <1>5, <1>6

LEMMA ProduceEarned ==
    ASSUME ActionInv, Earned, NEW a \in Actions, NEW r \in Reviews, Produce(r)
    PROVE  IsFiniteSet(campaigns') /\ Spent(a)' <= approvals'[a] + excess'[a]
<1> DEFINE v == [review[r] EXCEPT !.pc = "recording"]
<1>1. review' = [review EXCEPT ![r] = v]
  BY DEF Produce, Goto
<1>2. v \in ReviewRecord /\ v.pc = "recording" /\ v.of = Current(r)
  <2>1. review[r] \in ReviewRecord
    BY DEF ActionInv, TypeOK, ReviewRecord
  <2> QED BY <2>1 DEF Current, ReviewRecord
<1> HIDE DEF v
<1>3. /\ UNCHANGED <<approvals, excess>> /\ row' = row
      /\ campaigns' = campaigns \/ campaigns' = campaigns \union {Draft(r)}
  BY DEF Produce, history
<1>4. IsFiniteSet(campaigns')
  BY <1>3, FS_AddElement DEF Earned
<1>5. CASE a # Current(r)
  <2>1. r \notin Opened(a) /\ r \notin Making(a)
    BY <1>5 DEF Opened, Making, Current
  <2>2. Opened(a)' = Opened(a) /\ Making(a)' = Making(a)
    <3>1. Making(a)' = Making(a) \ {r} /\ Opened(a)' = Opened(a) \ {r}
      BY <1>1, <1>2, <1>5, RecordsChange
    <3> QED BY <2>1, <3>1
  <2>3. CampaignsOf(a)' = CampaignsOf(a)
    BY <1>3, <1>5 DEF CampaignsOf, Draft
  <2>4. Spent(a)' = Spent(a)
    BY <1>3, <2>2, <2>3 DEF Spent, Due, HasStatus, Exists
  <2> QED BY <1>3, <1>4, <2>4 DEF Earned
<1>6. CASE a = Current(r)
  <2>1. r \in Opened(a) /\ r \in Making(a)
    BY <1>6 DEF Produce, At, Opened, Making, Current
  <2>2. Making(a)' = Making(a) \ {r} /\ Opened(a)' = Opened(a)
    <3>1. Making(a)' = Making(a) \ {r} /\ Opened(a)' = Opened(a) \union {r}
      BY <1>1, <1>2, <1>6, RecordsChange
    <3> QED BY <2>1, <3>1
  <2>3. Cardinality(Making(a)') = Cardinality(Making(a)) - 1
    BY <2>1, <2>2, CountsAreNumbers, FS_RemoveElement DEF Earned
  <2>4. CampaignsOf(a)' = CampaignsOf(a) \/ CampaignsOf(a)' = CampaignsOf(a) \union {Draft(r)}
    BY <1>3, <1>6 DEF CampaignsOf, Draft
  <2>5. /\ Cardinality(CampaignsOf(a)') \in Nat
        /\ Cardinality(CampaignsOf(a)') <= Cardinality(CampaignsOf(a)) + 1
    <3>1. IsFiniteSet(CampaignsOf(a)) /\ Cardinality(CampaignsOf(a)) \in Nat
      BY CountsAreNumbers DEF Earned
    <3>2. CASE CampaignsOf(a)' = CampaignsOf(a)
      BY <3>1, <3>2
    <3>3. CASE CampaignsOf(a)' = CampaignsOf(a) \union {Draft(r)}
      BY <3>1, <3>3, FS_AddElement
    <3> QED BY <2>4, <3>2, <3>3
  <2>6. Due(a)' = Due(a)
    BY <1>3, <2>2 DEF Due, HasStatus, Exists
  <2>7. /\ Cardinality(CampaignsOf(a)) \in Nat /\ Cardinality(Making(a)) \in Nat
        /\ Due(a) \in {0, 1} /\ approvals[a] \in Nat /\ excess[a] \in Nat
        /\ Spent(a) <= approvals[a] + excess[a]
    BY CountsAreNumbers DEF Earned, ActionInv, TypeOK
  <2>8. Spent(a)' = Cardinality(CampaignsOf(a)') + (Cardinality(Making(a)) - 1) + Due(a)
    BY <2>3, <2>6 DEF Spent
  <2> QED BY <1>3, <1>4, <2>5, <2>7, <2>8 DEF Spent
<1> QED BY <1>5, <1>6

LEMMA EndEarned ==
    ASSUME ActionInv, Earned, NEW a \in Actions, NEW r \in Reviews, Record(r) \/ ReviewFails(r)
    PROVE  Spent(a)' <= approvals'[a] + excess'[a]
<1>1. /\ UNCHANGED <<campaigns, approvals>>
      /\ Making(a)' = Making(a) \ {r} /\ Opened(a)' = Opened(a) \ {r}
  <2>1. UNCHANGED <<campaigns, approvals>>
    BY DEF Record, ReviewFails, products, history
  <2>2. CASE NextId(r)
    <3>1. review[r].pc \notin {"idle", "done"}
      BY DEF Record, ReviewFails, At
    <3> QED BY <2>1, <2>2, <3>1, NextIdRests, RecordsChange
  <2>3. CASE Becomes(r, [NoReview EXCEPT !.pc = "done"])
    <3> DEFINE v == [NoReview EXCEPT !.pc = "done"]
    <3>1. v \in ReviewRecord /\ v.pc = "done"
      BY DEF NoReview, ReviewRecord
    <3>2. review' = [review EXCEPT ![r] = v]
      BY <2>3 DEF Becomes
    <3> HIDE DEF v
    <3> QED BY <2>1, <3>1, <3>2, RecordsChange
  <2> QED BY <2>2, <2>3 DEF Record, ReviewFails
<1>2. CampaignsOf(a)' = CampaignsOf(a)
  BY <1>1 DEF CampaignsOf
<1>3. /\ Cardinality(CampaignsOf(a)) \in Nat /\ Cardinality(Making(a)) \in Nat
      /\ Due(a) \in {0, 1} /\ approvals[a] \in Nat /\ excess[a] \in Nat
      /\ Spent(a) <= approvals[a] + excess[a]
  BY CountsAreNumbers DEF Earned, ActionInv, TypeOK
<1>4. Due(a)' \in {0, 1}
  BY DEF Due
<1>5. /\ r \notin Making(a) => Cardinality(Making(a)') = Cardinality(Making(a))
      /\ r \in Making(a) => Cardinality(Making(a)') = Cardinality(Making(a)) - 1
  BY <1>1, CountsAreNumbers, FS_RemoveElement DEF Earned
<1>6. Spent(a)' = Cardinality(CampaignsOf(a)) + Cardinality(Making(a)') + Due(a)'
  BY <1>2 DEF Spent
<1>7. row[a] # None => row[a] \in Row
  BY DEF ActionInv, TypeOK
<1>8. r \notin Opened(a) => r \notin Making(a)
  BY DEF Opened, Making
<1>9. CASE Record(r)
  <2>1. excess' = excess /\ r \notin Making(a)
    BY <1>9 DEF Record, history, At, Making
  <2>2. Current(r) \in Actions /\ row[Current(r)] \in Row
    BY <1>9 DEF Record, At, Current, ActionInv, TypeOK, CallsOfPresent, Present, Exists
  <2>3. CASE a = Current(r)
    <3>1. row'[a].status = "executed"
      BY <1>9, <2>2, <2>3 DEF Record, ActionInv, TypeOK, Row
    <3>2. Due(a)' = 0
      BY <3>1 DEF Due, HasStatus
    <3> QED BY <1>1, <1>3, <1>5, <1>6, <2>1, <3>2 DEF Spent
  <2>4. CASE a # Current(r)
    <3>1. row'[a] = row[a] /\ r \notin Opened(a)
      BY <1>9, <2>4 DEF Record, ActionInv, TypeOK, Opened, Current
    <3>2. Due(a)' = Due(a)
      BY <1>1, <3>1 DEF Due, HasStatus, Exists
    <3> QED BY <1>1, <1>3, <1>5, <1>6, <2>1, <3>2 DEF Spent
  <2> QED BY <2>3, <2>4
<1>10. CASE ReviewFails(r)
  <2>1. /\ row' = row
        /\ excess' = [excess EXCEPT ![Current(r)] = IF At(r, "recording") THEN @ + 1 ELSE @]
        /\ Current(r) \in Actions
    BY <1>10 DEF ReviewFails, Current, ActionInv, CallsOfPresent, Present
  <2>2. CASE a = Current(r) /\ At(r, "recording")
    <3>1. excess' = [excess EXCEPT ![a] = @ + 1]
      BY <2>1, <2>2
    <3>2. excess'[a] = excess[a] + 1
      BY <3>1 DEF ActionInv, TypeOK
    <3>3. r \notin Making(a)
      BY <2>2 DEF At, Making
    <3> QED BY <1>1, <1>3, <1>4, <1>5, <1>6, <3>2, <3>3 DEF Spent
  <2>3. CASE ~(a = Current(r) /\ At(r, "recording"))
    <3>1. excess'[a] = excess[a]
      <4>1. CASE At(r, "recording")
        <5>1. excess' = [excess EXCEPT ![Current(r)] = @ + 1]
          BY <2>1, <4>1
        <5> QED BY <2>3, <4>1, <5>1 DEF ActionInv, TypeOK
      <4>2. CASE ~At(r, "recording")
        BY <2>1, <4>2 DEF ActionInv, TypeOK
      <4> QED BY <4>1, <4>2
    <3>2. r \in Opened(a) => r \in Making(a)
      BY <2>3 DEF Opened, Making, At, Current
    <3>3. CASE r \in Making(a)
      BY <1>1, <1>3, <1>4, <1>5, <1>6, <3>1, <3>3 DEF Spent
    <3>4. CASE r \notin Making(a)
      <4>1. Due(a)' = Due(a)
        BY <1>1, <2>1, <3>2, <3>4 DEF Due, HasStatus, Exists
      <4> QED BY <1>1, <1>3, <1>5, <1>6, <3>1, <3>4, <4>1 DEF Spent
    <3> QED BY <3>3, <3>4
  <2> QED BY <2>2, <2>3
<1> QED BY <1>9, <1>10

LEMMA EarnedStep == ASSUME ActionInv, Earned, [Next]_vars PROVE Earned'
<1>1. CASE UNCHANGED vars
  BY <1>1 DEF vars, products, history, bounds, Earned, Spent, CampaignsOf, Making, Due, Opened,
              HasStatus, Exists
<1>2. CASE Next
  <2>1. ASSUME NEW a \in Actions PROVE Spent(a)' <= approvals'[a] + excess'[a]
    <3>1. CASE \/ \E p \in Proposals :
                    (\E b \in Actions : Find(p, b)) \/ Propose(p) \/ Route(p) \/ ProposalFails(p)
               \/ \E b \in Actions : rejectAction(b) \/ approveByAgent(b)
               \/ \E as \in SUBSET Actions : bulkReject(as) \/ expireStaleActions(as)
      BY <3>1, DecisionsEarn
    <3>2. ASSUME NEW r \in Reviews,
                 \/ \E b \in Actions : approveAction(r, b)
                 \/ \E as \in SUBSET Actions : bulkApprove(r, as)
          PROVE  Spent(a)' <= approvals'[a] + excess'[a]
      BY <3>2, ReviewsEarn
    <3>3. ASSUME NEW r \in Reviews, ReadForCreative(r) \/ WriteCreative(r)
          PROVE  Spent(a)' <= approvals'[a] + excess'[a]
      BY <3>3, ReviewsEarn
    <3>4. ASSUME NEW r \in Reviews, ReadApproved(r) PROVE Spent(a)' <= approvals'[a] + excess'[a]
      BY <3>4, ReviewsEarn, ReadEarned
    <3>5. ASSUME NEW r \in Reviews, Produce(r) PROVE Spent(a)' <= approvals'[a] + excess'[a]
      BY <3>5, ProduceEarned
    <3>6. ASSUME NEW r \in Reviews, Record(r) \/ ReviewFails(r)
          PROVE  Spent(a)' <= approvals'[a] + excess'[a]
      BY <3>6, EndEarned
    <3> QED BY <1>2, <3>1, <3>2, <3>3, <3>4, <3>5, <3>6 DEF Next, Execute
  <2>2. IsFiniteSet(campaigns')
    <3>1. \/ UNCHANGED campaigns
          \/ \E r \in Reviews : campaigns' = campaigns \union {Draft(r)}
      BY <1>2 DEF Next, Find, Propose, Route, ProposalFails, rejectAction, approveByAgent, bulkReject,
              expireStaleActions, approveAction, bulkApprove, Execute, ReadForCreative, WriteCreative,
              ReadApproved, Produce, Record, ReviewFails, products
    <3> QED BY <3>1, FS_AddElement DEF Earned
  <2> QED BY <2>1, <2>2 DEF Earned
<1> QED BY <1>1, <1>2

(* One approval drafts one campaign, for any number of calls that overlap:  *)
(* a further one is an execution that read the action while another had, or *)
(* one given up unrecorded (OneCampaignPerApproval).                        *)
THEOREM OneEach == Spec => []OneCampaignPerApproval
<1>1. Init => Earned
  <2>1. ASSUME Init, NEW a \in Actions
        PROVE  /\ CampaignsOf(a) = {} /\ Making(a) = {} /\ Due(a) = 0
               /\ approvals[a] = 0 /\ excess[a] = 0 /\ campaigns = {}
    BY <2>1 DEF Init, CampaignsOf, Making, Due, HasStatus, Exists, NoReview
  <2>2. ASSUME Init PROVE campaigns = {}
    BY <2>2 DEF Init
  <2> QED BY <2>1, <2>2, FS_EmptySet DEF Earned, Spent
<1>2. ActionInv /\ PayloadInv /\ Earned /\ [Next]_vars => Earned'
  BY EarnedStep
<1>3. ActionInv /\ Earned => OneCampaignPerApproval
  <2> SUFFICES ASSUME ActionInv, Earned, NEW a \in Actions
               PROVE  Cardinality(CampaignsOf(a)) <= approvals[a] + excess[a]
    BY DEF OneCampaignPerApproval
  <2>1. /\ Cardinality(CampaignsOf(a)) \in Nat /\ Cardinality(Making(a)) \in Nat
        /\ Due(a) \in {0, 1} /\ approvals[a] \in Nat /\ excess[a] \in Nat
        /\ Spent(a) <= approvals[a] + excess[a]
    BY CountsAreNumbers DEF Earned, ActionInv, TypeOK
  <2> QED BY <2>1 DEF Spent
<1>4. ActionInv /\ PayloadInv => ActionInv
  OBVIOUS
<1> QED BY <1>1, <1>2, <1>3, <1>4, InitInv, StepInv, PTL DEF Spec
=============================================================================
