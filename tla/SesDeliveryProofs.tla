------------------------- MODULE SesDeliveryProofs -------------------------
(***************************************************************************)
(* Theorems about SesDelivery for any number of calls, faults and duplicate *)
(* executions.                                                              *)
(***************************************************************************)
EXTENDS SesDelivery, TLAPS

Unsubmitted == {"idle", "absent", "gating", "creating", "conflict", "reclaiming",
                "claimed", "leased"}
Submitting(c) == pc[c] \in {"claimed", "leased", "handed", "answered"}

(* A call past the claim owns the row, and the row cannot be claimed again. *)
OwnerHolds ==
    \A c \in Calls : Submitting(c) =>
        attempt.owner = c /\ attempt.state \in {"submitting", "accepted"}

(* The provider only has the owner's message, and once it has, the row can  *)
(* never be claimed.                                                        *)
AcceptedByOwner ==
    \A c \in accepts :
        /\ attempt.owner = c
        /\ attempt.state \notin {"none", "failed"}
        /\ pc[c] \notin Unsubmitted
        /\ pc[c] = "answered" => result[c].status \in {"sent", "unknown"}

(* Every message id in circulation is an accepted message's.                *)
IdsAreAccepted ==
    /\ attempt.externalId \in accepts \union {None}
    /\ log.externalId \in accepts \union {None}
    /\ attempt.state = "accepted" => attempt.externalId \in accepts
    /\ \A c \in Calls : result[c].status = "sent" => result[c].externalId \in accepts
    /\ \A e \in events \union receipts : e.message \in accepts

SubmissionInv == TypeOK /\ OwnerHolds /\ AcceptedByOwner
MessageInv    == IdsAreAccepted /\ SentNamesTheMessage

-----------------------------------------------------------------------------
(* Initial states *)

LEMMA InitInv == Init => SubmissionInv /\ MessageInv
<1> SUFFICES ASSUME Init PROVE SubmissionInv /\ MessageInv
  OBVIOUS
<1>1. NoResult \in Result
  BY DEF NoResult, Result
<1>2. TypeOK
  <2>1. /\ attempt \in [state : AttemptStates, owner : Calls \union {None},
                       externalId : Calls \union {None}]
        /\ log \in [status : LogStates, externalId : Calls \union {None}, eventAt : 0 .. 3]
    BY DEF Init, AttemptStates, LogStates
  <2>2. pc \in [Calls -> Points] /\ result \in [Calls -> Result]
    BY <1>1 DEF Init, Points
  <2> QED BY <2>1, <2>2 DEF Init, TypeOK
<1>3. OwnerHolds /\ AcceptedByOwner
  BY DEF Init, OwnerHolds, AcceptedByOwner, Submitting
<1>4. MessageInv
  BY DEF Init, MessageInv, IdsAreAccepted, SentNamesTheMessage, NoResult, Confirmed
<1> QED BY <1>2, <1>3, <1>4 DEF SubmissionInv

-----------------------------------------------------------------------------
(* Type correctness *)

LEMMA TypeStep == TypeOK /\ [Next]_vars => TypeOK'
<1> SUFFICES ASSUME TypeOK, [Next]_vars PROVE TypeOK'
  OBVIOUS
<1> USE DEF TypeOK, calls, provider, queue, Goto, Return, WriteLog, Claim
<1>1. ASSUME NEW c \in Calls, Begin(c) PROVE TypeOK'
  BY <1>1 DEF Begin, Points
<1>2. ASSUME NEW c \in Calls, Skip(c) PROVE TypeOK'
  BY <1>2 DEF Skip, Points
<1>3. ASSUME NEW c \in Calls, Defer(c) PROVE TypeOK'
  BY <1>3 DEF Defer, Points
<1>4. ASSUME NEW c \in Calls, Suppress(c) PROVE TypeOK'
  BY <1>4 DEF Suppress, LogStates, Points
<1>5. ASSUME NEW c \in Calls, QueueLog(c) PROVE TypeOK'
  BY <1>5 DEF QueueLog, LogStates, Points
<1>6. ASSUME NEW c \in Calls, LogExists(c) PROVE TypeOK'
  BY <1>6 DEF LogExists, Points
<1>7. ASSUME NEW c \in Calls, Create(c) PROVE TypeOK'
  BY <1>7 DEF Create, AttemptStates, Points
<1>8. ASSUME NEW c \in Calls, CreateConflicts(c) PROVE TypeOK'
  BY <1>8 DEF CreateConflicts, Points
<1>9. ASSUME NEW c \in Calls, ReadPrior(c) PROVE TypeOK'
  BY <1>9 DEF ReadPrior, Result, Points
<1>10. ASSUME NEW c \in Calls, Reclaim(c) PROVE TypeOK'
  BY <1>10 DEF Reclaim, AttemptStates, Points
<1>11. ASSUME NEW c \in Calls, ReclaimLost(c) PROVE TypeOK'
  BY <1>11 DEF ReclaimLost, Result, Points
<1>12. ASSUME NEW c \in Calls, AcquireLease(c) PROVE TypeOK'
  BY <1>12 DEF AcquireLease, Points
<1>13. ASSUME NEW c \in Calls, LeaseRefused(c) PROVE TypeOK'
  BY <1>13 DEF LeaseRefused, LogStates, Points
<1>14. ASSUME NEW c \in Calls, Refuse(c) PROVE TypeOK'
  BY <1>14 DEF Refuse, Result, Points
<1>15. ASSUME NEW c \in Calls, HandOver(c) PROVE TypeOK'
  BY <1>15 DEF HandOver, Points, Event, Kinds
<1>16. ASSUME NEW c \in Calls, Answer(c) PROVE TypeOK'
  BY <1>16 DEF Answer, Result, Points
<1>17. ASSUME NEW c \in Calls, RecordAttempt(c) PROVE TypeOK'
  BY <1>17 DEF RecordAttempt, AttemptStates, Points, Result
<1>18. ASSUME NEW c \in Calls, RecordLog(c) PROVE TypeOK'
  BY <1>18 DEF RecordLog, LogStates, Points, Result
<1>19. ASSUME NEW c \in Calls, Fail(c) PROVE TypeOK'
  BY <1>19 DEF Fail, Points
<1>20. ASSUME NEW c \in Calls, Outcome(c) PROVE TypeOK'
  BY <1>20 DEF Outcome, Event, Kinds
<1>21. ASSUME NEW e \in Event, Persist(e) PROVE TypeOK'
  <2>1. e.message \in Calls
    BY DEF Event
  <2>2. AttemptAfter(e) \in [state : AttemptStates, owner : Calls \union {None},
                            externalId : Calls \union {None}]
    BY <2>1 DEF AttemptAfter, AttemptStates
  <2>3. SentUnlessNewer(e) \in [status : LogStates, externalId : Calls \union {None}, eventAt : 0 .. 3]
    BY <2>1 DEF SentUnlessNewer, LogStates, OccurredAt
  <2>4. ProgressUnlessNewer(e) \in [status : LogStates, externalId : Calls \union {None}, eventAt : 0 .. 3]
    <3>1. OccurredAt(e.kind) \in 0 .. 3 /\ NextStatus(e.kind) \in LogStates
      BY DEF OccurredAt, NextStatus, LogStates
    <3>2. CASE ProgressUnlessNewer(e) = log
      BY <3>2
    <3>3. CASE ProgressUnlessNewer(e) =
                 [log EXCEPT !.status = NextStatus(e.kind), !.eventAt = OccurredAt(e.kind)]
      BY <3>1, <3>3
    <3> QED BY <3>2, <3>3 DEF ProgressUnlessNewer
  <2>5. attempt' \in [state : AttemptStates, owner : Calls \union {None},
                       externalId : Calls \union {None}]
    BY <1>21, <2>2 DEF Persist
  <2>6. log' \in [status : LogStates, externalId : Calls \union {None}, eventAt : 0 .. 3]
    BY <1>21, <2>3, <2>4 DEF Persist
  <2>7. receipts' \subseteq Event /\ UNCHANGED <<calls, provider, suppressed, queue>>
    BY <1>21 DEF Persist
  <2> QED BY <2>5, <2>6, <2>7
<1>22. ASSUME NEW e \in Event, Acknowledge(e) PROVE TypeOK'
  BY <1>22 DEF Acknowledge
<1>23. CASE Redeliver
  BY <1>23 DEF Redeliver
<1>24. CASE flagStaleAmbiguousSesDeliveries
  BY <1>24 DEF flagStaleAmbiguousSesDeliveries, AttemptStates
<1>25. CASE UNCHANGED vars
  BY <1>25 DEF vars
<1> QED BY <1>1, <1>2, <1>3, <1>4, <1>5, <1>6, <1>7, <1>8, <1>9, <1>10, <1>11, <1>12, <1>13, <1>14, <1>15, <1>16, <1>17, <1>18, <1>19, <1>20, <1>21, <1>22, <1>23, <1>24, <1>25 DEF Next, Proceed

(* Every reachable state is well typed.                                     *)
THEOREM TypeCorrect == Spec => []TypeOK
<1>1. Init => TypeOK
  BY InitInv DEF SubmissionInv
<1> QED BY <1>1, TypeStep, PTL DEF Spec

-----------------------------------------------------------------------------
(* At most one acceptance *)

(* A claim needs a row nobody has submitted under.                          *)
LEMMA ClaimKeeps ==
    ASSUME SubmissionInv, NEW c \in Calls, Claim(c),
           pc[c] \in {"creating", "reclaiming"}, attempt.state \in {"none", "failed"}
    PROVE  SubmissionInv'
<1> USE DEF SubmissionInv, Claim, Goto, calls, provider, queue
<1>1. accepts = {}
  BY DEF AcceptedByOwner
<1>2. \A d \in Calls : ~Submitting(d)
  BY DEF OwnerHolds
<1>3. TypeOK'
  BY DEF TypeOK, AttemptStates, Points
<1>4. attempt' = [attempt EXCEPT !.state = "submitting", !.owner = c]
  OBVIOUS
<1>5. attempt'.owner = c /\ attempt'.state = "submitting"
  BY <1>4 DEF TypeOK
<1>6. \A d \in Calls : Submitting(d)' => d = c
  BY <1>2 DEF Submitting, TypeOK
<1>7. OwnerHolds'
  BY <1>5, <1>6 DEF OwnerHolds
<1>8. AcceptedByOwner'
  BY <1>1 DEF AcceptedByOwner
<1> QED BY <1>3, <1>7, <1>8

(* A step that leaves the row and the provider alone only has to keep the   *)
(* calls at points they may be at.                                          *)
LEMMA GotoKeeps ==
    ASSUME SubmissionInv, NEW c \in Calls, NEW p \in Points, Goto(c, p),
           UNCHANGED <<attempt, result, accepts>>, TypeOK',
           Submitting(c) \/ p \notin {"claimed", "leased", "handed", "answered"},
           c \notin accepts \/ p \notin Unsubmitted, p # "answered"
    PROVE  SubmissionInv'
<1> USE DEF SubmissionInv, Goto
<1>1. \A d \in Calls : pc'[d] = IF d = c THEN p ELSE pc[d]
  BY DEF TypeOK
<1>2. OwnerHolds'
  BY <1>1 DEF OwnerHolds, Submitting
<1>3. AcceptedByOwner'
  BY <1>1 DEF AcceptedByOwner, TypeOK
<1> QED BY <1>2, <1>3

LEMMA SubmissionStep == SubmissionInv /\ [Next]_vars => SubmissionInv'
<1> SUFFICES ASSUME SubmissionInv, [Next]_vars PROVE SubmissionInv'
  OBVIOUS
<1>0. TypeOK /\ TypeOK'
  BY TypeStep DEF SubmissionInv
<1> USE DEF calls, provider, queue, Return, WriteLog
<1>1. ASSUME NEW c \in Calls, Begin(c) PROVE SubmissionInv'
  <2>1. PICK p \in {"absent", "gating", "ended"} : Goto(c, p)
    BY <1>1 DEF Begin
  <2>2. c \notin accepts
    BY <1>1 DEF Begin, SubmissionInv, AcceptedByOwner, Unsubmitted
  <2> QED BY <1>0, <1>1, <2>1, <2>2, GotoKeeps DEF Begin, Points
<1>2. ASSUME NEW c \in Calls, Skip(c) PROVE SubmissionInv'
  <2>1. Goto(c, "ended") /\ UNCHANGED <<attempt, result, accepts>>
    BY <1>2 DEF Skip
  <2>2. "ended" \notin Unsubmitted
    BY DEF Unsubmitted
  <2> QED BY <1>0, <1>2, <2>1, <2>2, GotoKeeps DEF Skip, Points, Submitting
<1>3. ASSUME NEW c \in Calls, Defer(c) PROVE SubmissionInv'
  <2>1. Goto(c, "ended") /\ UNCHANGED <<attempt, result, accepts>>
    BY <1>3 DEF Defer
  <2>2. "ended" \notin Unsubmitted
    BY DEF Unsubmitted
  <2> QED BY <1>0, <1>3, <2>1, <2>2, GotoKeeps DEF Defer, Points, Submitting
<1>4. ASSUME NEW c \in Calls, Suppress(c) PROVE SubmissionInv'
  <2>1. Goto(c, "ended") /\ UNCHANGED <<attempt, result, accepts>>
    BY <1>4 DEF Suppress
  <2>2. "ended" \notin Unsubmitted
    BY DEF Unsubmitted
  <2> QED BY <1>0, <1>4, <2>1, <2>2, GotoKeeps DEF Suppress, Points, Submitting
<1>5. ASSUME NEW c \in Calls, QueueLog(c) PROVE SubmissionInv'
  <2>1. Goto(c, "creating") /\ UNCHANGED <<attempt, result, accepts>>
    BY <1>5 DEF QueueLog
  <2>2. c \notin accepts
    BY <1>5 DEF QueueLog, Gating, SubmissionInv, AcceptedByOwner, Unsubmitted
  <2> QED BY <1>0, <1>5, <2>1, <2>2, GotoKeeps DEF QueueLog, Points, Submitting
<1>6. ASSUME NEW c \in Calls, LogExists(c) PROVE SubmissionInv'
  <2>1. Goto(c, "ended") /\ UNCHANGED <<attempt, result, accepts>>
    BY <1>6 DEF LogExists
  <2>2. "ended" \notin Unsubmitted
    BY DEF Unsubmitted
  <2> QED BY <1>0, <1>6, <2>1, <2>2, GotoKeeps DEF LogExists, Points, Submitting
<1>7. ASSUME NEW c \in Calls, Create(c) PROVE SubmissionInv'
  BY <1>7, ClaimKeeps DEF Create
<1>8. ASSUME NEW c \in Calls, CreateConflicts(c) PROVE SubmissionInv'
  <2>1. Goto(c, "conflict") /\ UNCHANGED <<attempt, result, accepts>>
    BY <1>8 DEF CreateConflicts
  <2>2. c \notin accepts
    BY <1>8 DEF CreateConflicts, Gating, SubmissionInv, AcceptedByOwner, Unsubmitted
  <2> QED BY <1>0, <1>8, <2>1, <2>2, GotoKeeps DEF CreateConflicts, Points, Submitting
<1>9. ASSUME NEW c \in Calls, ReadPrior(c) PROVE SubmissionInv'
  <2>1. c \notin accepts /\ ~Submitting(c)
    BY <1>9 DEF ReadPrior, SubmissionInv, AcceptedByOwner, Unsubmitted, Submitting
  <2>2. PICK p \in {"reclaiming", "logging"} : Goto(c, p)
    BY <1>9 DEF ReadPrior
  <2>3. \A d \in Calls \ {c} : pc'[d] = pc[d] /\ result'[d] = result[d]
    BY <1>0, <1>9 DEF ReadPrior, Goto, TypeOK
  <2>4. pc'[c] \in {"reclaiming", "logging"} /\ UNCHANGED <<attempt, accepts>>
    BY <1>0, <1>9, <2>2 DEF ReadPrior, Goto, TypeOK
  <2>5. OwnerHolds'
    BY <2>3, <2>4 DEF OwnerHolds, Submitting, SubmissionInv
  <2>6. AcceptedByOwner'
    BY <1>0, <2>1, <2>3, <2>4 DEF AcceptedByOwner, SubmissionInv, TypeOK
  <2> QED BY <1>0, <2>5, <2>6 DEF SubmissionInv
<1>10. ASSUME NEW c \in Calls, Reclaim(c) PROVE SubmissionInv'
  BY <1>10, ClaimKeeps DEF Reclaim
<1>11. ASSUME NEW c \in Calls, ReclaimLost(c) PROVE SubmissionInv'
  <2>1. c \notin accepts /\ ~Submitting(c)
    BY <1>11 DEF ReclaimLost, SubmissionInv, AcceptedByOwner, Unsubmitted, Submitting
  <2>2. PICK p \in {"reclaiming", "logging"} : Goto(c, p)
    BY <1>11 DEF ReclaimLost
  <2>3. \A d \in Calls \ {c} : pc'[d] = pc[d] /\ result'[d] = result[d]
    BY <1>0, <1>11 DEF ReclaimLost, Goto, TypeOK
  <2>4. pc'[c] \in {"reclaiming", "logging"} /\ UNCHANGED <<attempt, accepts>>
    BY <1>0, <1>11, <2>2 DEF ReclaimLost, Goto, TypeOK
  <2>5. OwnerHolds'
    BY <2>3, <2>4 DEF OwnerHolds, Submitting, SubmissionInv
  <2>6. AcceptedByOwner'
    BY <1>0, <2>1, <2>3, <2>4 DEF AcceptedByOwner, SubmissionInv, TypeOK
  <2> QED BY <1>0, <2>5, <2>6 DEF SubmissionInv
<1>12. ASSUME NEW c \in Calls, AcquireLease(c) PROVE SubmissionInv'
  <2>1. Goto(c, "leased") /\ UNCHANGED <<attempt, result, accepts>>
    BY <1>12 DEF AcquireLease
  <2>2. c \notin accepts
    BY <1>12 DEF AcquireLease, Gating, SubmissionInv, AcceptedByOwner, Unsubmitted
  <2> QED BY <1>0, <1>12, <2>1, <2>2, GotoKeeps DEF AcquireLease, Points, Submitting
<1>13. ASSUME NEW c \in Calls, LeaseRefused(c) PROVE SubmissionInv'
  <2>1. Goto(c, "ended") /\ UNCHANGED <<attempt, result, accepts>>
    BY <1>13 DEF LeaseRefused
  <2>2. "ended" \notin Unsubmitted
    BY DEF Unsubmitted
  <2> QED BY <1>0, <1>13, <2>1, <2>2, GotoKeeps DEF LeaseRefused, Points, Submitting
<1>14. ASSUME NEW c \in Calls, Refuse(c) PROVE SubmissionInv'
  <2>1. c \notin accepts /\ Submitting(c)
    BY <1>14 DEF Refuse, SubmissionInv, AcceptedByOwner, Unsubmitted, Submitting
  <2>2. \A d \in Calls \ {c} : pc'[d] = pc[d] /\ result'[d] = result[d]
    BY <1>0, <1>14 DEF Refuse, Goto, TypeOK
  <2>3. UNCHANGED <<attempt, accepts>>
    BY <1>14 DEF Refuse
  <2>4. OwnerHolds'
    BY <2>1, <2>2, <2>3 DEF OwnerHolds, Submitting, SubmissionInv
  <2>5. AcceptedByOwner'
    BY <1>0, <2>1, <2>2, <2>3 DEF AcceptedByOwner, SubmissionInv, TypeOK
  <2> QED BY <1>0, <2>4, <2>5 DEF SubmissionInv
<1>15. ASSUME NEW c \in Calls, HandOver(c) PROVE SubmissionInv'
  <2>1. attempt.owner = c /\ attempt.state \in {"submitting", "accepted"}
    BY <1>15 DEF HandOver, SubmissionInv, OwnerHolds, Submitting
  <2>2. \A d \in Calls \ {c} : pc'[d] = pc[d]
    BY <1>0, <1>15 DEF HandOver, Goto, TypeOK
  <2>3. pc'[c] = "handed" /\ accepts' \subseteq accepts \union {c} /\ UNCHANGED <<attempt, result>>
    BY <1>0, <1>15 DEF HandOver, Goto, TypeOK
  <2>4. OwnerHolds'
    BY <2>1, <2>2, <2>3 DEF OwnerHolds, Submitting, SubmissionInv
  <2>5. AcceptedByOwner'
    <3> SUFFICES ASSUME NEW d \in accepts'
                 PROVE  /\ attempt'.owner = d
                        /\ attempt'.state \notin {"none", "failed"}
                        /\ pc'[d] \notin Unsubmitted
                        /\ pc'[d] = "answered" => result'[d].status \in {"sent", "unknown"}
      BY DEF AcceptedByOwner
    <3>1. CASE d = c
      BY <2>1, <2>3, <3>1 DEF Unsubmitted
    <3>2. CASE d # c
      BY <1>0, <2>2, <2>3, <3>2 DEF AcceptedByOwner, SubmissionInv, TypeOK
    <3> QED BY <3>1, <3>2
  <2> QED BY <1>0, <2>4, <2>5 DEF SubmissionInv
<1>16. ASSUME NEW c \in Calls, Answer(c) PROVE SubmissionInv'
  <2>1. attempt.owner = c /\ attempt.state \in {"submitting", "accepted"}
    BY <1>16 DEF Answer, SubmissionInv, OwnerHolds, Submitting
  <2>2. \A d \in Calls \ {c} : pc'[d] = pc[d] /\ result'[d] = result[d]
    BY <1>0, <1>16 DEF Answer, Goto, TypeOK
  <2>3. /\ pc'[c] = "answered" /\ result'[c].status \in {"sent", "unknown"}
        /\ UNCHANGED <<attempt, accepts>>
    BY <1>0, <1>16 DEF Answer, Goto, TypeOK
  <2>4. OwnerHolds'
    BY <2>1, <2>2, <2>3 DEF OwnerHolds, Submitting, SubmissionInv
  <2>5. AcceptedByOwner'
    BY <1>0, <2>2, <2>3 DEF AcceptedByOwner, SubmissionInv, TypeOK, Unsubmitted
  <2> QED BY <1>0, <2>4, <2>5 DEF SubmissionInv
<1>17. ASSUME NEW c \in Calls, RecordAttempt(c) PROVE SubmissionInv'
  <2>1. attempt.owner = c /\ (\A d \in Calls : Submitting(d) => d = c)
    BY <1>17 DEF RecordAttempt, SubmissionInv, OwnerHolds, Submitting
  <2>2. \A d \in Calls \ {c} : pc'[d] = pc[d]
    BY <1>0, <1>17 DEF RecordAttempt, Goto, TypeOK
  <2>3. pc'[c] = "logging" /\ UNCHANGED <<accepts, result>>
    BY <1>0, <1>17 DEF RecordAttempt, Goto, TypeOK
  <2>4. OwnerHolds'
    BY <2>1, <2>2, <2>3 DEF OwnerHolds, Submitting
  <2>5. attempt'.owner = c
    BY <1>0, <1>17, <2>1 DEF RecordAttempt, TypeOK
  <2>6. ASSUME NEW d \in accepts
        PROVE  d = c /\ attempt'.state \notin {"none", "failed"}
    <3>1. d = c
      BY <2>1 DEF AcceptedByOwner, SubmissionInv
    <3>2. result[c].status \in {"sent", "unknown"}
      BY <1>17, <3>1 DEF RecordAttempt, AcceptedByOwner, SubmissionInv
    <3>3. attempt'.state \in {"accepted", "ambiguous"}
      BY <1>0, <1>17, <2>1, <3>2 DEF RecordAttempt, TypeOK
    <3> QED BY <3>1, <3>3
  <2>7. AcceptedByOwner'
    BY <2>3, <2>5, <2>6 DEF AcceptedByOwner, Unsubmitted
  <2> QED BY <1>0, <2>4, <2>7 DEF SubmissionInv
<1>18. ASSUME NEW c \in Calls, RecordLog(c) PROVE SubmissionInv'
  <2>1. Goto(c, "ended") /\ UNCHANGED <<attempt, result, accepts>>
    BY <1>18 DEF RecordLog
  <2>2. "ended" \notin Unsubmitted
    BY DEF Unsubmitted
  <2> QED BY <1>0, <1>18, <2>1, <2>2, GotoKeeps DEF RecordLog, Points, Submitting
<1>19. ASSUME NEW c \in Calls, Fail(c) PROVE SubmissionInv'
  <2>1. Goto(c, "ended") /\ UNCHANGED <<attempt, result, accepts>>
    BY <1>19 DEF Fail
  <2>2. "ended" \notin Unsubmitted
    BY DEF Unsubmitted
  <2> QED BY <1>0, <1>19, <2>1, <2>2, GotoKeeps DEF Fail, Points, Submitting
<1>20. ASSUME NEW c \in Calls, Outcome(c) PROVE SubmissionInv'
  BY <1>0, <1>20 DEF Outcome, SubmissionInv, OwnerHolds, AcceptedByOwner, Submitting
<1>21. ASSUME NEW e \in Event, Persist(e) PROVE SubmissionInv'
  <2>1. UNCHANGED <<pc, result, accepts>> /\ attempt' = AttemptAfter(e)
    BY <1>21 DEF Persist
  <2>2. attempt'.owner = attempt.owner
    BY <1>0, <2>1 DEF AttemptAfter, TypeOK
  <2>3. attempt'.state = attempt.state \/ attempt'.state = "accepted"
    BY <1>0, <2>1 DEF AttemptAfter, TypeOK
  <2>4. OwnerHolds'
    BY <2>1, <2>2, <2>3 DEF OwnerHolds, Submitting, SubmissionInv
  <2>5. AcceptedByOwner'
    BY <2>1, <2>2, <2>3 DEF AcceptedByOwner, SubmissionInv
  <2> QED BY <1>0, <2>4, <2>5 DEF SubmissionInv
<1>22. ASSUME NEW e \in Event, Acknowledge(e) PROVE SubmissionInv'
  BY <1>0, <1>22 DEF Acknowledge, SubmissionInv, OwnerHolds, AcceptedByOwner, Submitting
<1>23. CASE Redeliver
  BY <1>0, <1>23 DEF Redeliver, SubmissionInv, OwnerHolds, AcceptedByOwner, Submitting
<1>24. CASE flagStaleAmbiguousSesDeliveries
  <2>1. attempt' = [attempt EXCEPT !.state = "manual_review"] /\ UNCHANGED <<pc, result, accepts>>
    BY <1>24 DEF flagStaleAmbiguousSesDeliveries
  <2>2. attempt'.owner = attempt.owner /\ attempt'.state = "manual_review"
    BY <1>0, <2>1 DEF TypeOK
  <2>3. \A c \in Calls : ~Submitting(c)
    BY <1>24 DEF flagStaleAmbiguousSesDeliveries, SubmissionInv, OwnerHolds
  <2>4. OwnerHolds'
    BY <2>1, <2>3 DEF OwnerHolds, Submitting
  <2>5. AcceptedByOwner'
    BY <2>1, <2>2 DEF AcceptedByOwner, SubmissionInv
  <2> QED BY <1>0, <2>4, <2>5 DEF SubmissionInv
<1>25. CASE UNCHANGED vars
  BY <1>0, <1>25 DEF vars, SubmissionInv, OwnerHolds, AcceptedByOwner, Submitting
<1> QED BY <1>1, <1>2, <1>3, <1>4, <1>5, <1>6, <1>7, <1>8, <1>9, <1>10, <1>11, <1>12, <1>13, <1>14, <1>15, <1>16, <1>17, <1>18, <1>19, <1>20, <1>21, <1>22, <1>23, <1>24, <1>25 DEF Next, Proceed

(* The provider accepts a delivery at most once, however many calls run,    *)
(* die or are run again: the calls that submit own the row in turn, and an  *)
(* accepted message ends the turns.                                         *)
THEOREM SubmittedOnce == Spec => [](AtMostOnce /\ OneSubmitter)
<1>1. Init => SubmissionInv
  BY InitInv
<1>2. SubmissionInv => AtMostOnce /\ OneSubmitter
  BY DEF SubmissionInv, AcceptedByOwner, OwnerHolds, AtMostOnce, OneSubmitter, Submitting
<1> QED BY <1>1, <1>2, SubmissionStep, PTL DEF Spec

-----------------------------------------------------------------------------
(* Message ids *)

LEMMA MessageStep ==
    SubmissionInv /\ MessageInv /\ [Next]_vars => MessageInv'
<1> SUFFICES ASSUME SubmissionInv, MessageInv, [Next]_vars PROVE MessageInv'
  OBVIOUS
<1>0. TypeOK /\ TypeOK' /\ None \notin Calls
  BY TypeStep, CallAssumption DEF SubmissionInv
<1> USE DEF calls, provider, queue, Goto, Return, WriteLog, Claim
<1>1. ASSUME NEW c \in Calls, Begin(c) PROVE MessageInv'
  BY <1>0, <1>1 DEF Begin, MessageInv, IdsAreAccepted, SentNamesTheMessage, Confirmed, TypeOK
<1>2. ASSUME NEW c \in Calls, Skip(c) PROVE MessageInv'
  BY <1>0, <1>2 DEF Skip, MessageInv, IdsAreAccepted, SentNamesTheMessage, Confirmed, TypeOK
<1>3. ASSUME NEW c \in Calls, Defer(c) PROVE MessageInv'
  BY <1>0, <1>3 DEF Defer, MessageInv, IdsAreAccepted, SentNamesTheMessage, Confirmed, TypeOK
<1>4. ASSUME NEW c \in Calls, Suppress(c) PROVE MessageInv'
  BY <1>0, <1>4 DEF Suppress, MessageInv, IdsAreAccepted, SentNamesTheMessage, Confirmed, TypeOK
<1>5. ASSUME NEW c \in Calls, QueueLog(c) PROVE MessageInv'
  BY <1>0, <1>5 DEF QueueLog, MessageInv, IdsAreAccepted, SentNamesTheMessage, Confirmed, TypeOK
<1>6. ASSUME NEW c \in Calls, LogExists(c) PROVE MessageInv'
  BY <1>0, <1>6 DEF LogExists, MessageInv, IdsAreAccepted, SentNamesTheMessage, Confirmed, TypeOK
<1>7. ASSUME NEW c \in Calls, Create(c) PROVE MessageInv'
  BY <1>0, <1>7 DEF Create, MessageInv, IdsAreAccepted, SentNamesTheMessage, Confirmed, TypeOK
<1>8. ASSUME NEW c \in Calls, CreateConflicts(c) PROVE MessageInv'
  BY <1>0, <1>8 DEF CreateConflicts, MessageInv, IdsAreAccepted, SentNamesTheMessage, Confirmed, TypeOK
<1>9. ASSUME NEW c \in Calls, ReadPrior(c) PROVE MessageInv'
  BY <1>0, <1>9 DEF ReadPrior, MessageInv, IdsAreAccepted, SentNamesTheMessage, Confirmed, TypeOK
<1>10. ASSUME NEW c \in Calls, Reclaim(c) PROVE MessageInv'
  BY <1>0, <1>10 DEF Reclaim, MessageInv, IdsAreAccepted, SentNamesTheMessage, Confirmed, TypeOK
<1>11. ASSUME NEW c \in Calls, ReclaimLost(c) PROVE MessageInv'
  BY <1>0, <1>11 DEF ReclaimLost, MessageInv, IdsAreAccepted, SentNamesTheMessage, Confirmed, TypeOK
<1>12. ASSUME NEW c \in Calls, AcquireLease(c) PROVE MessageInv'
  BY <1>0, <1>12 DEF AcquireLease, MessageInv, IdsAreAccepted, SentNamesTheMessage, Confirmed, TypeOK
<1>13. ASSUME NEW c \in Calls, LeaseRefused(c) PROVE MessageInv'
  BY <1>0, <1>13 DEF LeaseRefused, MessageInv, IdsAreAccepted, SentNamesTheMessage, Confirmed, TypeOK
<1>14. ASSUME NEW c \in Calls, Refuse(c) PROVE MessageInv'
  BY <1>0, <1>14 DEF Refuse, MessageInv, IdsAreAccepted, SentNamesTheMessage, Confirmed, TypeOK
<1>15. ASSUME NEW c \in Calls, HandOver(c) PROVE MessageInv'
  BY <1>0, <1>15 DEF HandOver, MessageInv, IdsAreAccepted, SentNamesTheMessage, Confirmed, TypeOK
<1>16. ASSUME NEW c \in Calls, Answer(c) PROVE MessageInv'
  BY <1>0, <1>16 DEF Answer, MessageInv, IdsAreAccepted, SentNamesTheMessage, Confirmed, TypeOK
<1>17. ASSUME NEW c \in Calls, RecordAttempt(c) PROVE MessageInv'
  BY <1>0, <1>17 DEF RecordAttempt, MessageInv, IdsAreAccepted, SentNamesTheMessage, Confirmed, TypeOK
<1>18. ASSUME NEW c \in Calls, RecordLog(c) PROVE MessageInv'
  BY <1>0, <1>18 DEF RecordLog, MessageInv, IdsAreAccepted, SentNamesTheMessage, Confirmed, TypeOK
<1>19. ASSUME NEW c \in Calls, Fail(c) PROVE MessageInv'
  BY <1>0, <1>19 DEF Fail, MessageInv, IdsAreAccepted, SentNamesTheMessage, Confirmed, TypeOK
<1>20. ASSUME NEW c \in Calls, Outcome(c) PROVE MessageInv'
  BY <1>0, <1>20 DEF Outcome, MessageInv, IdsAreAccepted, SentNamesTheMessage, Confirmed, TypeOK
<1>21. ASSUME NEW e \in Event, Persist(e) PROVE MessageInv'
  <2>1. e.message \in accepts /\ UNCHANGED <<result, accepts, events>> /\ receipts' = receipts \union {e}
    BY <1>21 DEF Persist, MessageInv, IdsAreAccepted
  <2>2. /\ attempt'.externalId \in accepts \union {None}
        /\ attempt'.state = "accepted" => attempt'.externalId \in accepts
    BY <1>0, <1>21, <2>1 DEF Persist, AttemptAfter, MessageInv, IdsAreAccepted, SentNamesTheMessage, Confirmed, TypeOK
  <2>3. /\ log'.externalId \in accepts \union {None}
        /\ log'.status \in Confirmed => log'.externalId \in accepts
    <3>1. CASE log' = log
      BY <3>1 DEF MessageInv, IdsAreAccepted, SentNamesTheMessage, Confirmed, TypeOK
    <3>2. CASE log' = [status |-> "sent", externalId |-> e.message, eventAt |-> OccurredAt("send")]
      BY <2>1, <3>2
    <3>3. CASE /\ log.externalId = e.message
               /\ log' = [log EXCEPT !.status = NextStatus(e.kind), !.eventAt = OccurredAt(e.kind)]
      BY <1>0, <2>1, <3>3 DEF TypeOK
    <3> QED BY <1>21, <3>1, <3>2, <3>3 DEF Persist, SentUnlessNewer, ProgressUnlessNewer
  <2> QED BY <2>1, <2>2, <2>3 DEF MessageInv, IdsAreAccepted, SentNamesTheMessage
<1>22. ASSUME NEW e \in Event, Acknowledge(e) PROVE MessageInv'
  BY <1>22 DEF Acknowledge, MessageInv, IdsAreAccepted, SentNamesTheMessage, Confirmed, TypeOK
<1>23. CASE Redeliver
  BY <1>23 DEF Redeliver, MessageInv, IdsAreAccepted, SentNamesTheMessage, Confirmed, TypeOK
<1>24. CASE flagStaleAmbiguousSesDeliveries
  BY <1>0, <1>24 DEF flagStaleAmbiguousSesDeliveries, MessageInv, IdsAreAccepted, SentNamesTheMessage, Confirmed, TypeOK
<1>25. CASE UNCHANGED vars
  BY <1>25 DEF vars, MessageInv, IdsAreAccepted, SentNamesTheMessage, Confirmed, TypeOK
<1> QED BY <1>1, <1>2, <1>3, <1>4, <1>5, <1>6, <1>7, <1>8, <1>9, <1>10, <1>11, <1>12, <1>13, <1>14, <1>15, <1>16, <1>17, <1>18, <1>19, <1>20, <1>21, <1>22, <1>23, <1>24, <1>25 DEF Next, Proceed

(* A log that says the message left names a message SES accepted.  Message  *)
(* ids only enter through an acceptance, and every writer passes one on.    *)
THEOREM SentIsAccepted == Spec => []SentNamesTheMessage
<1>1. Init => SubmissionInv /\ MessageInv
  BY InitInv
<1>2. SubmissionInv /\ MessageInv /\ [Next]_vars => SubmissionInv' /\ MessageInv'
  BY SubmissionStep, MessageStep
<1>3. MessageInv => SentNamesTheMessage
  BY DEF MessageInv
<1> QED BY <1>1, <1>2, <1>3, PTL DEF Spec

-----------------------------------------------------------------------------
(* Events in order *)

(* Only a send event gives the log the time of a send event.                *)
SendTimeFromReceipt ==
    log.eventAt = OccurredAt("send") => \E e \in receipts : e.kind = "send"

LEMMA EventTime ==
    ASSUME NEW e \in Event
    PROVE  /\ OccurredAt(e.kind) \in 1 .. 3
           /\ e.kind # "send" => OccurredAt(e.kind) \in 2 .. 3
           /\ OccurredAt("send") = 1
BY DEF Event, Kinds, OccurredAt

LEMMA SendTimeStep ==
    TypeOK /\ SendTimeFromReceipt /\ [Next]_vars => SendTimeFromReceipt'
<1> SUFFICES ASSUME TypeOK, SendTimeFromReceipt, [Next]_vars PROVE SendTimeFromReceipt'
  OBVIOUS
<1> USE DEF calls, provider, queue, Goto, Return, WriteLog, Claim
<1>1. ASSUME NEW c \in Calls, Proceed(c) \/ Begin(c) \/ Fail(c) \/ Outcome(c)
      PROVE  log'.eventAt = log.eventAt /\ receipts' = receipts
  <2>1. CASE Begin(c)
    BY <2>1 DEF Begin
  <2>2. CASE Fail(c) \/ Outcome(c)
    BY <2>2 DEF Fail, Outcome
  <2>3. CASE Suppress(c) \/ QueueLog(c) \/ LeaseRefused(c) \/ RecordLog(c)
    BY <2>3 DEF Suppress, QueueLog, LeaseRefused, RecordLog, TypeOK
  <2>4. CASE \/ Skip(c) \/ Defer(c) \/ LogExists(c) \/ Create(c) \/ CreateConflicts(c)
             \/ ReadPrior(c) \/ Reclaim(c) \/ ReclaimLost(c)
    BY <2>4 DEF Skip, Defer, LogExists, Create, CreateConflicts, ReadPrior, Reclaim, ReclaimLost
  <2>5. CASE \/ AcquireLease(c) \/ Refuse(c) \/ HandOver(c) \/ Answer(c) \/ RecordAttempt(c)
    BY <2>5 DEF AcquireLease, Refuse, HandOver, Answer, RecordAttempt
  <2> QED BY <1>1, <2>1, <2>2, <2>3, <2>4, <2>5 DEF Proceed
<1>2. ASSUME NEW e \in Event, Persist(e) PROVE SendTimeFromReceipt'
  <2>1. CASE e.kind = "send"
    BY <1>2, <2>1 DEF Persist, SendTimeFromReceipt
  <2>2. CASE e.kind # "send"
    <3>1. log'.eventAt = log.eventAt \/ log'.eventAt = OccurredAt(e.kind)
      BY <1>2, <2>2 DEF Persist, ProgressUnlessNewer, TypeOK
    <3> QED BY <1>2, <2>2, <3>1, EventTime DEF Persist, SendTimeFromReceipt
  <2> QED BY <2>1, <2>2
<1>3. CASE (\E e \in Event : Acknowledge(e)) \/ Redeliver \/ flagStaleAmbiguousSesDeliveries
  BY <1>3 DEF Acknowledge, Redeliver, flagStaleAmbiguousSesDeliveries, SendTimeFromReceipt
<1>4. CASE UNCHANGED vars
  BY <1>4 DEF vars, SendTimeFromReceipt
<1> QED BY <1>1, <1>2, <1>3, <1>4 DEF Next, SendTimeFromReceipt

(* The consumer never takes a log that holds an event to an earlier stage.  *)
(* For a send event this needs that the provider accepted one message only: *)
(* a log at the time of a send event has had the only one there is.         *)
THEOREM EventsInOrder == Spec => EventsApplyInOrder
<1> DEFINE Inv == SubmissionInv /\ MessageInv /\ SendTimeFromReceipt
           Stage == (\E e \in Event : Persist(e)) /\ log.eventAt > 0
                        => Rank(log'.status) >= Rank(log.status)
<1>1. Init => Inv
  BY InitInv DEF Init, SendTimeFromReceipt, OccurredAt
<1>2. Inv /\ [Next]_vars => Inv'
  BY SubmissionStep, MessageStep, SendTimeStep DEF SubmissionInv
<1>3. Inv /\ [Next]_vars => [Stage]_vars
  <2> SUFFICES ASSUME Inv, NEW e \in Event, Persist(e), log.eventAt > 0
               PROVE  Rank(log'.status) >= Rank(log.status)
    OBVIOUS
  <2>0. TypeOK /\ Rank(log.status) \in Nat
    BY DEF SubmissionInv, Rank
  <2>1. CASE e.kind = "send"
    <3>1. CASE log' = log
      BY <2>0, <3>1
    <3>2. CASE log' # log
      <4>1. log.eventAt = OccurredAt("send")
        BY <2>0, <2>1, <3>2, EventTime DEF Persist, SentUnlessNewer, TypeOK
      <4>2. PICK f \in receipts : f.kind = "send"
        BY <4>1 DEF SendTimeFromReceipt
      <4>3. e.message = f.message
        <5>1. e \in events
          BY DEF Persist
        <5>2. e.message \in accepts /\ f.message \in accepts
          BY <5>1 DEF MessageInv, IdsAreAccepted
        <5> QED BY <5>2 DEF SubmissionInv, AcceptedByOwner
      <4>4. e = f
        BY <2>0, <2>1, <4>2, <4>3 DEF Event, TypeOK
      <4> QED BY <4>4 DEF Persist
    <3> QED BY <3>1, <3>2
  <2>2. CASE e.kind # "send"
    <3>1. CASE log' = log
      BY <2>0, <3>1
    <3>2. CASE log' # log
      <4>1. Rank(NextStatus(e.kind)) >= Rank(log.status)
        BY <2>2, <3>2 DEF Persist, ProgressUnlessNewer
      <4>2. log'.status = NextStatus(e.kind)
        BY <2>0, <2>2, <3>2 DEF Persist, ProgressUnlessNewer, TypeOK
      <4> QED BY <4>1, <4>2
    <3> QED BY <3>1, <3>2
  <2> QED BY <2>1, <2>2
<1> QED BY <1>1, <1>2, <1>3, PTL DEF Spec, EventsApplyInOrder
=============================================================================
