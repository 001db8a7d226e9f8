------------------------- MODULE AudienceRunProofs -------------------------
(***************************************************************************)
(* Theorems about AudienceRun for any number of callers, customers, strata *)
(* and parameters, and any chunk size.                                     *)
(***************************************************************************)
EXTENDS AudienceRun, FiniteSetTheorems, TLAPS

-----------------------------------------------------------------------------
(* Helpers *)

LEMMA AnyParamsType == AnyParams \in Params
BY RunAssumption DEF AnyParams

LEMMA IdleType == Idle \in LocalState
BY AnyParamsType, RunAssumption DEF Idle, LocalState, Call, Points, Censuses, EmptyCensus

LEMMA NoRunType == NoRun \in Run
BY AnyParamsType, RunAssumption DEF NoRun, Run, Statuses

(* What a step may do to the local state of its call.                      *)
LEMMA LocalUpdates ==
    ASSUME NEW c \in LocalState, NEW p \in Points
    PROVE  /\ [c EXCEPT !.pc = p] \in LocalState
           /\ \A q \in Params : [c EXCEPT !.pc = p, !.seed = q] \in LocalState
           /\ \A q \in Params : [c EXCEPT !.pc = p, !.seen = q] \in LocalState
           /\ \A q, r \in Params : [c EXCEPT !.pc = p, !.params = q, !.seen = r] \in LocalState
           /\ [c EXCEPT !.ended = TRUE, !.pc = p] \in LocalState
           /\ \A n \in Nat : [c EXCEPT !.pc = p, !.candidates = n] \in LocalState
           /\ \A f \in Censuses : [c EXCEPT !.pc = p, !.census = f] \in LocalState
           /\ \A S \in SUBSET Strata : [c EXCEPT !.pc = p, !.pending = S] \in LocalState
           /\ \A S \in SUBSET Strata, T \in SUBSET Customers :
                [c EXCEPT !.pending = S, !.todo = T, !.gone = FALSE] \in LocalState
           /\ \A T \in SUBSET Customers : [c EXCEPT !.todo = T] \in LocalState
           /\ \A g \in BOOLEAN : [c EXCEPT !.gone = g] \in LocalState
           /\ \A m, n \in Nat :
                [c EXCEPT !.control = m, !.treatment = n, !.pc = p] \in LocalState
<1> USE DEF LocalState, Call
<1>1. [c EXCEPT !.pc = p] \in LocalState
  OBVIOUS
<1>2. \A q \in Params : [c EXCEPT !.pc = p, !.seed = q] \in LocalState
  OBVIOUS
<1>3. \A q \in Params : [c EXCEPT !.pc = p, !.seen = q] \in LocalState
  OBVIOUS
<1>4. \A q, r \in Params : [c EXCEPT !.pc = p, !.params = q, !.seen = r] \in LocalState
  OBVIOUS
<1>5. [c EXCEPT !.ended = TRUE, !.pc = p] \in LocalState
  OBVIOUS
<1>6. \A n \in Nat : [c EXCEPT !.pc = p, !.candidates = n] \in LocalState
  OBVIOUS
<1>7. \A f \in Censuses : [c EXCEPT !.pc = p, !.census = f] \in LocalState
  OBVIOUS
<1>8. \A S \in SUBSET Strata : [c EXCEPT !.pc = p, !.pending = S] \in LocalState
  OBVIOUS
<1>9. \A S \in SUBSET Strata, T \in SUBSET Customers :
        [c EXCEPT !.pending = S, !.todo = T, !.gone = FALSE] \in LocalState
  OBVIOUS
<1>10. \A T \in SUBSET Customers : [c EXCEPT !.todo = T] \in LocalState
  OBVIOUS
<1>11. \A g \in BOOLEAN : [c EXCEPT !.gone = g] \in LocalState
  OBVIOUS
<1>12. \A m, n \in Nat :
         [c EXCEPT !.control = m, !.treatment = n, !.pc = p] \in LocalState
  OBVIOUS
<1> HIDE DEF LocalState, Call
<1> QED
  BY <1>1, <1>2, <1>3, <1>4, <1>5, <1>6, <1>7, <1>8, <1>9, <1>10, <1>11, <1>12

(* The buffer starts empty at the resume cursor.                           *)
LEMMA ResumedType ==
    ASSUME NEW c \in LocalState, NEW q \in Params, NEW n \in 0 .. LastCustomer
    PROVE  [c EXCEPT !.pc = "stream", !.seed = q, !.pos = n, !.flushed = n,
                     !.buffer = << >>] \in LocalState
<1> DEFINE d == [c EXCEPT !.pc = "stream", !.seed = q, !.pos = n, !.flushed = n,
                          !.buffer = << >>]
<1>1. << >> \in Seq(Verdicts) /\ Len(<< >>) = 0
  OBVIOUS
<1>2. d \in Call
  BY <1>1 DEF LocalState, Call, Points
<1>3. d.pos = n /\ d.flushed = n /\ d.buffer = << >>
  BY DEF LocalState, Call
<1>4. d.pos = d.flushed + Len(d.buffer)
  BY <1>1, <1>3
<1> QED BY <1>2, <1>4 DEF LocalState

(* A renewed lease acknowledges the buffer.                                *)
LEMMA AcknowledgedType ==
    ASSUME NEW c \in LocalState, NEW p \in Points
    PROVE  [c EXCEPT !.flushed = c.pos, !.buffer = << >>, !.pc = p] \in LocalState
<1> DEFINE d == [c EXCEPT !.flushed = c.pos, !.buffer = << >>, !.pc = p]
<1>1. << >> \in Seq(Verdicts) /\ Len(<< >>) = 0
  OBVIOUS
<1>2. d \in Call
  BY <1>1 DEF LocalState, Call
<1>3. d.pos = c.pos /\ d.flushed = c.pos /\ d.buffer = << >> /\ c.pos \in Nat
  BY DEF LocalState, Call
<1>4. d.pos = d.flushed + Len(d.buffer)
  BY <1>1, <1>3
<1> QED BY <1>2, <1>4 DEF LocalState

(* Evaluating one more customer buffers one more verdict.                  *)
LEMMA BufferedType ==
    ASSUME NEW c \in LocalState, NEW p \in Points, NEW v \in Verdicts,
           c.pos + 1 \in 0 .. LastCustomer
    PROVE  [c EXCEPT !.pos = c.pos + 1, !.buffer = Append(@, v), !.pc = p] \in LocalState
<1> DEFINE d == [c EXCEPT !.pos = c.pos + 1, !.buffer = Append(@, v), !.pc = p]
<1>1. /\ c \in Call /\ c.buffer \in Seq(Verdicts) /\ c.flushed \in Nat
      /\ c.pos = c.flushed + Len(c.buffer)
  BY DEF LocalState, Call
<1>2. /\ Append(c.buffer, v) \in Seq(Verdicts)
      /\ Len(Append(c.buffer, v)) = Len(c.buffer) + 1
  BY <1>1
<1>3. d \in Call
  BY <1>1, <1>2 DEF Call
<1>4. d.pos = c.pos + 1 /\ d.flushed = c.flushed /\ d.buffer = Append(c.buffer, v)
  BY <1>1 DEF Call
<1>5. d.pos = d.flushed + Len(d.buffer)
  BY <1>1, <1>2, <1>4
<1> QED BY <1>3, <1>5 DEF LocalState

(* A set of customers has a natural number of elements.                    *)
LEMMA CustomersCount ==
    ASSUME NEW S \in SUBSET Customers
    PROVE  Cardinality(S) \in Nat
<1>1. IsFiniteSet(Customers)
  BY FS_Interval, RunAssumption DEF Customers
<1> QED BY <1>1, FS_Subset, FS_CardinalityType

(* skipDuplicates keeps what is there and adds the rest.                   *)
LEMMA InsertMissingType ==
    ASSUME NEW rows, NEW new,
           DOMAIN rows \subseteq Customers, rows \in [DOMAIN rows -> Row],
           DOMAIN new \subseteq Customers, new \in [DOMAIN new -> Row]
    PROVE  /\ DOMAIN InsertMissing(rows, new) = DOMAIN rows \union DOMAIN new
           /\ InsertMissing(rows, new) \in [DOMAIN rows \union DOMAIN new -> Row]
BY DEF InsertMissing

(* The rows of a flush are rows of customers, those buffered.              *)
LEMMA StagedType ==
    ASSUME NEW local \in LocalState
    PROVE  /\ DOMAIN Staged(local) = local.flushed + 1 .. local.pos
           /\ DOMAIN Staged(local) \subseteq Customers
           /\ Staged(local) \in [DOMAIN Staged(local) -> Row]
<1>1. DOMAIN Staged(local) = local.flushed + 1 .. local.pos
  BY DEF Staged, LocalState
<1>2. DOMAIN Staged(local) \subseteq Customers
  BY <1>1, RunAssumption DEF LocalState, Call, Customers
<1>3. ASSUME NEW c \in local.flushed + 1 .. local.pos
      PROVE  NewRow(local.buffer[c - local.flushed], local.seed) \in Row
  <2>1. c - local.flushed \in 1 .. Len(local.buffer)
    BY DEF LocalState, Call
  <2>2. local.buffer[c - local.flushed] \in Verdicts
    BY <2>1 DEF LocalState, Call
  <2>3. local.seed \in Params
    BY DEF LocalState, Call
  <2> QED BY <2>2, <2>3 DEF NewRow, Row, AssignmentStrata, Verdicts
<1> QED BY <1>1, <1>2, <1>3 DEF Staged

-----------------------------------------------------------------------------
(* Type correctness *)

(* A step that changes one call only, to another well-formed state.        *)
LEMMA OneCallType ==
    ASSUME TypeOK, NEW w \in Workers, NEW c \in LocalState,
           call' = [call EXCEPT ![w] = c],
           UNCHANGED <<run, members, audience, spent>>
    PROVE  TypeOK'
BY DEF TypeOK

(* Every step keeps the type invariant, one case per action.               *)
LEMMA TypeStep == TypeOK /\ [Next]_vars => TypeOK'
<1> SUFFICES ASSUME TypeOK, [Next]_vars PROVE TypeOK'
  OBVIOUS
<1> USE RunAssumption
<1>1. ASSUME NEW w \in Workers, NEW p \in Params, Start(w, p) PROVE TypeOK'
  <2> DEFINE point == IF run.status = "none" THEN "create" ELSE "claim"
  <2>1. [Idle EXCEPT !.pc = point, !.params = p, !.seen = run.params] \in LocalState
    <3>1. point \in Points /\ run.params \in Params
      BY DEF TypeOK, Run, Points
    <3> HIDE DEF point
    <3> QED BY <3>1, IdleType, LocalUpdates
  <2> QED BY <1>1, <2>1, OneCallType DEF Start, Becomes
<1>2. ASSUME NEW w \in Workers, Reuse(w) PROVE TypeOK'
  BY <1>2, IdleType, OneCallType DEF Reuse, Return, Becomes
<1>3. ASSUME NEW w \in Workers, Create(w) PROVE TypeOK'
  <2>1. call[w] \in LocalState /\ call[w].params \in Params
    BY DEF TypeOK, LocalState, Call
  <2>2. run' \in Run
    BY <1>3, <2>1, NoRunType DEF Create, Run, Statuses
  <2> DEFINE c == [call[w] EXCEPT !.pc = "stream", !.seed = run'.params,
                                  !.pos = run'.cursor, !.flushed = run'.cursor,
                                  !.buffer = << >>]
  <2>3. c \in LocalState
    BY <2>1, <2>2, ResumedType DEF Run
  <2>4. call' = [call EXCEPT ![w] = c]
    BY <1>3 DEF Create, Attempt, Becomes
  <2> HIDE DEF c
  <2> QED BY <1>3, <2>2, <2>3, <2>4 DEF Create, TypeOK
<1>4. ASSUME NEW w \in Workers, LoseCreation(w) PROVE TypeOK'
  <2>1. [call[w] EXCEPT !.pc = "join"] \in LocalState
    BY LocalUpdates DEF TypeOK, Points
  <2> QED BY <1>4, <2>1, OneCallType DEF LoseCreation, Goto, Becomes
<1>5. ASSUME NEW w \in Workers, Join(w) PROVE TypeOK'
  <2>1. "claim" \in Points /\ call[w] \in LocalState /\ run.params \in Params
    BY DEF TypeOK, Run, Points
  <2>2. [call[w] EXCEPT !.pc = "claim", !.seen = run.params] \in LocalState
    BY <2>1, LocalUpdates
  <2> QED BY <1>5, <2>2, OneCallType DEF Join, Becomes
<1>6. ASSUME NEW w \in Workers, Claim(w) PROVE TypeOK'
  <2> DEFINE point == IF Resumable(w) THEN "reread" ELSE "discard"
  <2>1. call[w] \in LocalState /\ call[w].params \in Params /\ point \in Points
    BY DEF TypeOK, LocalState, Call, Points
  <2>2. run' \in Run
    <3> DEFINE q == IF Resumable(w) THEN run.params ELSE call[w].params
               n == IF Resumable(w) THEN run.cursor ELSE 0
    <3>1. q \in Params /\ n \in 0 .. LastCustomer
      BY <2>1 DEF TypeOK, Run
    <3>2. run' = [run EXCEPT !.status = "resolving", !.owner = w, !.live = TRUE,
                             !.params = q, !.cursor = n]
      BY <1>6 DEF Claim
    <3> HIDE DEF q, n
    <3> QED BY <3>1, <3>2 DEF TypeOK, Run, Statuses
  <2>3. call' = [call EXCEPT ![w] = [call[w] EXCEPT !.pc = point]]
    BY <1>6 DEF Claim, Goto, Becomes
  <2> HIDE DEF point
  <2>4. [call[w] EXCEPT !.pc = point] \in LocalState
    BY <2>1, LocalUpdates
  <2> QED BY <1>6, <2>2, <2>3, <2>4 DEF Claim, TypeOK
<1>7. ASSUME NEW w \in Workers, Busy(w) PROVE TypeOK'
  BY <1>7, IdleType, OneCallType DEF Busy, Return, Becomes
<1>8. ASSUME NEW w \in Workers, Discard(w) PROVE TypeOK'
  <2>1. \A v \in Workers : call'[v] \in LocalState
    <3> SUFFICES ASSUME NEW v \in Workers PROVE call'[v] \in LocalState
      OBVIOUS
    <3>1. [call[v] EXCEPT !.pc = "reread"] \in LocalState
      BY LocalUpdates DEF TypeOK, Points
    <3>2. [call[v] EXCEPT !.gone = (call[v].todo # {})] \in LocalState
      BY LocalUpdates DEF TypeOK, Points
    <3> QED BY <1>8, <3>1, <3>2 DEF Discard
  <2>2. call' \in [Workers -> LocalState]
    BY <1>8, <2>1 DEF Discard
  <2>3. DOMAIN members' \subseteq Customers /\ members' \in [DOMAIN members' -> Row]
    BY <1>8 DEF Discard, NoRows
  <2> QED BY <1>8, <2>2, <2>3 DEF Discard, TypeOK
<1>9. ASSUME NEW w \in Workers, Reread(w) PROVE TypeOK'
  <2>1. call[w] \in LocalState /\ run.params \in Params /\ run.cursor \in 0 .. LastCustomer
    BY DEF TypeOK, Run
  <2> QED BY <1>9, <2>1, ResumedType, OneCallType DEF Reread, Attempt, Becomes
<1>10. ASSUME NEW w \in Workers, Evaluate(w) PROVE TypeOK'
  <2> DEFINE next == call[w].pos + 1
             point == IF Len(call[w].buffer) + 1 >= WriteChunk THEN "insert" ELSE "stream"
             c == [call[w] EXCEPT !.pos = next, !.buffer = Append(@, audience[next]),
                                  !.pc = point]
  <2>1. call[w] \in LocalState /\ point \in Points
    BY DEF TypeOK, Points
  <2>2. next \in 0 .. LastCustomer /\ audience[next] \in Verdicts
    BY <1>10 DEF Evaluate, Present, Customers, TypeOK
  <2>3. call' = [call EXCEPT ![w] = c]
    BY <1>10 DEF Evaluate, Becomes
  <2>4. c \in LocalState
    <3> HIDE DEF point
    <3> QED BY <2>1, <2>2, BufferedType
  <2> HIDE DEF c
  <2> QED BY <1>10, <2>3, <2>4, OneCallType DEF Evaluate
<1>11. ASSUME NEW w \in Workers, EndOfAudience(w) PROVE TypeOK'
  <2> DEFINE point == IF call[w].buffer = << >> THEN "count" ELSE "insert"
             c == [call[w] EXCEPT !.ended = TRUE, !.pc = point]
  <2>1. call[w] \in LocalState /\ point \in Points
    BY DEF TypeOK, Points
  <2>2. call' = [call EXCEPT ![w] = c]
    BY <1>11 DEF EndOfAudience, Becomes
  <2>3. c \in LocalState
    <3> HIDE DEF point
    <3> QED BY <2>1, LocalUpdates
  <2> HIDE DEF c
  <2> QED BY <1>11, <2>2, <2>3, OneCallType DEF EndOfAudience
<1>12. ASSUME NEW w \in Workers, InsertMembers(w) PROVE TypeOK'
  <2>1. /\ DOMAIN members' \subseteq Customers
        /\ members' \in [DOMAIN members' -> Row]
    <3> DEFINE new == Staged(call[w])
    <3>1. DOMAIN new \subseteq Customers /\ new \in [DOMAIN new -> Row]
      BY StagedType DEF TypeOK
    <3>2. members' = InsertMissing(members, new)
      BY <1>12 DEF InsertMembers
    <3> HIDE DEF new
    <3>3. DOMAIN members \subseteq Customers /\ members \in [DOMAIN members -> Row]
      BY DEF TypeOK
    <3>4. /\ DOMAIN members' = DOMAIN members \union DOMAIN new
          /\ members' \in [DOMAIN members \union DOMAIN new -> Row]
      BY <3>1, <3>2, <3>3, InsertMissingType
    <3> QED BY <3>1, <3>3, <3>4
  <2>2. [call[w] EXCEPT !.pc = "renew"] \in LocalState
    BY LocalUpdates DEF TypeOK, Points
  <2> QED BY <1>12, <2>1, <2>2 DEF InsertMembers, Goto, Becomes, TypeOK
<1>13. ASSUME NEW w \in Workers, RenewLease(w) PROVE TypeOK'
  <2> DEFINE point == IF call[w].ended THEN "count" ELSE "stream"
             c == [call[w] EXCEPT !.flushed = call[w].pos, !.buffer = << >>, !.pc = point]
  <2>1. call[w] \in LocalState /\ point \in Points /\ call[w].pos \in 0 .. LastCustomer
    BY DEF TypeOK, LocalState, Call, Points
  <2>2. run' \in Run
    BY <1>13, <2>1 DEF RenewLease, TypeOK, Run
  <2>3. call' = [call EXCEPT ![w] = c]
    BY <1>13 DEF RenewLease, Becomes
  <2>4. c \in LocalState
    <3> HIDE DEF point
    <3> QED BY <2>1, AcknowledgedType
  <2> HIDE DEF c
  <2> QED BY <1>13, <2>2, <2>3, <2>4 DEF RenewLease, TypeOK
<1>14. ASSUME NEW w \in Workers, LoseLease(w) PROVE TypeOK'
  <2>1. [call[w] EXCEPT !.pc = "failing"] \in LocalState
    BY LocalUpdates DEF TypeOK, Points
  <2> QED BY <1>14, <2>1, OneCallType DEF LoseLease, Goto, Becomes
<1>15. ASSUME NEW w \in Workers, CountDecisions(w) PROVE TypeOK'
  <2>1. Cardinality(Candidates(members)) \in Nat
    BY CustomersCount DEF Candidates, TypeOK
  <2>2. [call[w] EXCEPT !.pc = "census",
                        !.candidates = Cardinality(Candidates(members))] \in LocalState
    BY <2>1, LocalUpdates DEF TypeOK, Points
  <2> QED BY <1>15, <2>2, OneCallType DEF CountDecisions, Becomes
<1>16. ASSUME NEW w \in Workers, TakeCensus(w) PROVE TypeOK'
  <2>1. StratumCensus(members) \in Censuses
    BY CustomersCount DEF StratumCensus, Censuses, TypeOK
  <2>2. [call[w] EXCEPT !.pc = "mark", !.census = StratumCensus(members)] \in LocalState
    BY <2>1, LocalUpdates DEF TypeOK, Points
  <2> QED BY <1>16, <2>2, OneCallType DEF TakeCensus, Becomes
<1>17. ASSUME NEW w \in Workers, MarkAssigning(w) PROVE TypeOK'
  <2>1. PooledStrata(call[w].census) \in SUBSET Strata
    BY DEF PooledStrata, CountedStrata
  <2>2. call[w] \in LocalState /\ call[w].candidates \in Nat /\ "fixup" \in Points
    BY DEF TypeOK, LocalState, Call, Points
  <2>3. [call[w] EXCEPT !.pc = "fixup",
                        !.pending = PooledStrata(call[w].census)] \in LocalState
    BY <2>1, <2>2, LocalUpdates
  <2>4. run' \in Run
    BY <1>17, <2>2 DEF MarkAssigning, TypeOK, Run, Statuses
  <2> QED BY <1>17, <2>3, <2>4 DEF MarkAssigning, Becomes, TypeOK
<1>18. ASSUME NEW w \in Workers, NEW s \in Strata, ListPooledRows(w, s) PROVE TypeOK'
  <2> DEFINE rows == {d \in DOMAIN members : members[d].verdict = s}
             rest == call[w].pending \ {s}
  <2>1. /\ call[w] \in LocalState /\ "fixup" \in Points
        /\ rest \in SUBSET Strata /\ rows \in SUBSET Customers
    BY DEF TypeOK, LocalState, Call, Points
  <2>2. [call[w] EXCEPT !.pending = rest, !.todo = rows, !.gone = FALSE] \in LocalState
    <3> HIDE DEF rows, rest
    <3> QED BY <2>1, LocalUpdates
  <2> QED BY <1>18, <2>2, OneCallType DEF ListPooledRows, Becomes
<1>19. ASSUME NEW w \in Workers, NEW c \in Customers, RewritePooledRow(w, c) PROVE TypeOK'
  <2>1. /\ call[w] \in LocalState /\ call[w].seed \in Params /\ "fixup" \in Points
        /\ call[w].todo \ {c} \in SUBSET Customers
    BY DEF TypeOK, LocalState, Call, Points
  <2>2. [call[w] EXCEPT !.todo = call[w].todo \ {c}] \in LocalState
    BY <2>1, LocalUpdates
  <2>3. DOMAIN members' = DOMAIN members /\ members' \in [DOMAIN members -> Row]
    <3> DEFINE rewritten(r) == [r EXCEPT !.assigned = Pooled, !.seed = call[w].seed]
    <3>1. \A r \in Row : rewritten(r) \in Row
      BY <2>1 DEF Row, AssignmentStrata
    <3>2. /\ DOMAIN members' = DOMAIN members
          /\ members' = [members EXCEPT ![c] = rewritten(members[c])]
      BY <1>19 DEF RewritePooledRow
    <3>3. members \in [DOMAIN members -> Row]
      BY DEF TypeOK
    <3> HIDE DEF rewritten
    <3> QED BY <3>1, <3>2, <3>3
  <2> QED BY <1>19, <2>2, <2>3 DEF RewritePooledRow, Becomes, TypeOK
<1>20. ASSUME NEW w \in Workers, PooledRowGone(w) PROVE TypeOK'
  <2>1. [call[w] EXCEPT !.pc = "failing"] \in LocalState
    BY LocalUpdates DEF TypeOK, Points
  <2> QED BY <1>20, <2>1, OneCallType DEF PooledRowGone, Goto, Becomes
<1>21. ASSUME NEW w \in Workers, FixupDone(w) PROVE TypeOK'
  <2>1. [call[w] EXCEPT !.pc = "draw"] \in LocalState
    BY LocalUpdates DEF TypeOK, Points
  <2> QED BY <1>21, <2>1, OneCallType DEF FixupDone, Goto, Becomes
<1>22. ASSUME NEW w \in Workers, DrawArms(w) PROVE TypeOK'
  <2> DEFINE arms == DrawnArms(members, call[w].census, Rates[call[w].params])
  <2>1. \A c \in DOMAIN members : arms[c] \in {None, "CONTROL", "TREATMENT"}
    BY DEF DrawnArms, TypeOK, Row
  <2>2. members' = [c \in DOMAIN members |-> [members[c] EXCEPT !.arm = arms[c]]]
    BY <1>22 DEF DrawArms
  <2> HIDE DEF arms
  <2>3. DOMAIN members' = DOMAIN members /\ members' \in [DOMAIN members -> Row]
    BY <2>1, <2>2 DEF TypeOK, Row
  <2>4. [call[w] EXCEPT !.pc = "arms"] \in LocalState
    BY LocalUpdates DEF TypeOK, Points
  <2> QED BY <1>22, <2>3, <2>4 DEF DrawArms, Goto, Becomes, TypeOK
<1>23. ASSUME NEW w \in Workers, CheckArms(w) PROVE TypeOK'
  <2> DEFINE control == Cardinality(InArm(members, "CONTROL"))
             treatment == Cardinality(InArm(members, "TREATMENT"))
  <2>1. control \in Nat /\ treatment \in Nat
    BY CustomersCount DEF InArm, Candidates, TypeOK
  <2>2. PICK p \in {"complete", "failing"} :
          call' = [call EXCEPT ![w] = [call[w] EXCEPT !.control = control,
                                                      !.treatment = treatment, !.pc = p]]
    BY <1>23 DEF CheckArms, Becomes
  <2>3. call[w] \in LocalState /\ p \in Points
    BY <2>2 DEF TypeOK, Points
  <2> HIDE DEF control, treatment
  <2>4. [call[w] EXCEPT !.control = control, !.treatment = treatment, !.pc = p] \in LocalState
    BY <2>1, <2>3, LocalUpdates
  <2> QED BY <1>23, <2>2, <2>4, OneCallType DEF CheckArms
<1>24. ASSUME NEW w \in Workers, Complete(w) PROVE TypeOK'
  <2>1. call[w].control \in Nat /\ call[w].treatment \in Nat
    BY DEF TypeOK, LocalState, Call
  <2>2. run' \in Run
    BY <1>24, <2>1 DEF Complete, TypeOK, Run, Statuses
  <2> QED BY <1>24, <2>2, IdleType DEF Complete, Return, Becomes, TypeOK
<1>25. ASSUME NEW w \in Workers, MarkFailed(w) PROVE TypeOK'
  <2>1. run' \in Run
    BY <1>25 DEF MarkFailed, TypeOK, Run, Statuses
  <2> QED BY <1>25, <2>1, IdleType DEF MarkFailed, Return, Becomes, TypeOK
<1>26. ASSUME NEW w \in Workers, StepFails(w) PROVE TypeOK'
  <2>1. [call[w] EXCEPT !.pc = "failing"] \in LocalState
    BY LocalUpdates DEF TypeOK, Points
  <2> QED BY <1>26, <2>1 DEF StepFails, Spend, Goto, Becomes, TypeOK
<1>27. ASSUME NEW w \in Workers, Crash(w) PROVE TypeOK'
  <2>1. call' \in [Workers -> LocalState]
    BY <1>27, IdleType DEF Crash, Return, Becomes, TypeOK
  <2>2. spent' \in [{"faults", "discards", "expiries", "drift"} -> Nat]
    <3>1. CASE call[w].pc = "discard"
      <4>1. Spend("discards", MaxLostDiscards)
        BY <1>27, <3>1, Zenon DEF Crash
      <4> QED BY <4>1 DEF Spend, TypeOK
    <3>2. CASE call[w].pc # "discard"
      <4>1. Spend("faults", MaxFaults)
        BY <1>27, <3>2, Zenon DEF Crash
      <4> QED BY <4>1 DEF Spend, TypeOK
    <3> QED BY <3>1, <3>2
  <2> QED BY <1>27, <2>1, <2>2 DEF Crash, TypeOK
<1>28. ASSUME LeaseExpires PROVE TypeOK'
  <2>1. run' \in Run
    BY <1>28 DEF LeaseExpires, TypeOK, Run
  <2>2. spent' \in [{"faults", "discards", "expiries", "drift"} -> Nat]
    <3>1. CASE HolderRuns
      BY <1>28, <3>1 DEF LeaseExpires, Spend, TypeOK
    <3>2. CASE ~HolderRuns
      BY <1>28, <3>2 DEF LeaseExpires, TypeOK
    <3> QED BY <3>1, <3>2
  <2> QED BY <1>28, <2>1, <2>2 DEF LeaseExpires, TypeOK
<1>29. ASSUME CustomersDrift PROVE TypeOK'
  BY <1>29 DEF CustomersDrift, Spend, TypeOK
<1>30. CASE UNCHANGED vars
  BY <1>30 DEF vars, TypeOK
<1> QED
  BY <1>1, <1>2, <1>3, <1>4, <1>5, <1>6, <1>7, <1>8, <1>9, <1>10, <1>11, <1>12, <1>13,
     <1>14, <1>15, <1>16, <1>17, <1>18, <1>19, <1>20, <1>21, <1>22, <1>23, <1>24, <1>25,
     <1>26, <1>27, <1>28, <1>29, <1>30 DEF Next, Step

(* Every reachable state is well typed, whatever the constants.            *)
THEOREM TypeCorrect == Spec => []TypeOK
<1>1. Init => TypeOK
  BY IdleType, NoRunType DEF Init, TypeOK, NoRows
<1>2. TypeOK /\ [Next]_vars => TypeOK'
  BY TypeStep
<1> QED BY <1>1, <1>2, PTL DEF Spec

-----------------------------------------------------------------------------
(* What a step does to the cursor, the rows and the calls' positions *)

(* A step of w that leaves the cursor, the set of rows and its own flushed *)
(* position alone, and takes the lease from nobody but its holder.         *)
Quiet(w) ==
    /\ run'.cursor = run.cursor
    /\ run'.owner \in {run.owner, None}
    /\ run'.status = "none" => run.status = "none"
    /\ DOMAIN members' = DOMAIN members
    /\ \A v \in Workers \ {w} : call'[v] = call[v]
    /\ call'[w].pc \notin {"renew", "discard"}
    /\ call'[w].pc \in Attempting =>
         call[w].pc \in Attempting /\ call'[w].flushed = call[w].flushed

Still ==
    /\ run'.cursor = run.cursor
    /\ run'.owner = run.owner
    /\ run'.status = run.status
    /\ members' = members
    /\ call' = call

(* All but six actions are quiet or change none of this.                   *)
LEMMA StepShape ==
    TypeOK /\ [Next]_vars =>
        \/ \E w \in Workers :
             \/ Create(w) \/ Claim(w) \/ Discard(w) \/ Reread(w)
             \/ InsertMembers(w) \/ RenewLease(w) \/ Quiet(w)
        \/ Still
<1> SUFFICES ASSUME TypeOK, [Next]_vars
             PROVE  \/ \E w \in Workers :
                         \/ Create(w) \/ Claim(w) \/ Discard(w) \/ Reread(w)
                         \/ InsertMembers(w) \/ RenewLease(w) \/ Quiet(w)
                    \/ Still
  OBVIOUS
<1>1. ASSUME NEW w \in Workers
      PROVE  call[w] \in Call /\ call[w] \in LocalState /\ run \in Run
  BY DEF TypeOK, LocalState
<1>2. Idle.pc = "idle"
  BY DEF Idle
<1>3. ASSUME NEW w \in Workers, NEW p \in Params, Start(w, p) PROVE Quiet(w)
  BY <1>3, <1>1, IdleType DEF Start, Becomes, Quiet, Attempting, TypeOK, LocalState, Call
<1>4. ASSUME NEW w \in Workers, Reuse(w) \/ Busy(w) PROVE Quiet(w)
  BY <1>4, <1>2 DEF Reuse, Busy, Return, Becomes, Quiet, Attempting, TypeOK
<1>5. ASSUME NEW w \in Workers, LoseCreation(w) \/ Join(w) PROVE Quiet(w)
  <2>1. CASE LoseCreation(w)
    BY <2>1, <1>1 DEF LoseCreation, Goto, Becomes, Quiet, Attempting, TypeOK, Call
  <2>2. CASE Join(w)
    BY <2>2, <1>1 DEF Join, Becomes, Quiet, Attempting, TypeOK, Call
  <2> QED BY <1>5, <2>1, <2>2
<1>6. ASSUME NEW w \in Workers, Evaluate(w) \/ EndOfAudience(w) PROVE Quiet(w)
  <2>1. CASE Evaluate(w)
    BY <2>1, <1>1 DEF Evaluate, Becomes, Quiet, Attempting, TypeOK, Call
  <2>2. CASE EndOfAudience(w)
    BY <2>2, <1>1 DEF EndOfAudience, Becomes, Quiet, Attempting, TypeOK, Call
  <2> QED BY <1>6, <2>1, <2>2
<1>7. ASSUME NEW w \in Workers, LoseLease(w) \/ PooledRowGone(w) \/ FixupDone(w)
      PROVE  Quiet(w)
  BY <1>7, <1>1 DEF LoseLease, PooledRowGone, FixupDone, Goto, Becomes, Quiet, Attempting,
                    TypeOK, Call
<1>8. ASSUME NEW w \in Workers, CountDecisions(w) \/ TakeCensus(w) PROVE Quiet(w)
  <2>1. CASE CountDecisions(w)
    BY <2>1, <1>1 DEF CountDecisions, Becomes, Quiet, Attempting, TypeOK, Call
  <2>2. CASE TakeCensus(w)
    BY <2>2, <1>1 DEF TakeCensus, Becomes, Quiet, Attempting, TypeOK, Call
  <2> QED BY <1>8, <2>1, <2>2
<1>9. ASSUME NEW w \in Workers, MarkAssigning(w) PROVE Quiet(w)
  BY <1>9, <1>1 DEF MarkAssigning, Becomes, Quiet, Attempting, TypeOK, Call, Run
<1>10. ASSUME NEW w \in Workers, NEW s \in Strata, ListPooledRows(w, s) PROVE Quiet(w)
  BY <1>10, <1>1 DEF ListPooledRows, Becomes, Quiet, Attempting, TypeOK, Call
<1>11. ASSUME NEW w \in Workers, NEW c \in Customers, RewritePooledRow(w, c) PROVE Quiet(w)
  BY <1>11, <1>1 DEF RewritePooledRow, Becomes, Quiet, Attempting, TypeOK, Call
<1>12. ASSUME NEW w \in Workers, DrawArms(w) PROVE Quiet(w)
  BY <1>12, <1>1 DEF DrawArms, Goto, Becomes, Quiet, Attempting, TypeOK, Call
<1>13. ASSUME NEW w \in Workers, CheckArms(w) PROVE Quiet(w)
  BY <1>13, <1>1 DEF CheckArms, Becomes, Quiet, Attempting, TypeOK, Call
<1>14. ASSUME NEW w \in Workers, Complete(w) \/ MarkFailed(w) PROVE Quiet(w)
  BY <1>14, <1>1, <1>2 DEF Complete, MarkFailed, Return, Becomes, Quiet, Attempting, TypeOK, Run
<1>15. ASSUME NEW w \in Workers, StepFails(w) PROVE Quiet(w)
  BY <1>15, <1>1 DEF StepFails, Goto, Becomes, Quiet, Attempting, TypeOK, Call
<1>16. ASSUME NEW w \in Workers, Crash(w) PROVE Quiet(w)
  BY <1>16, <1>2 DEF Crash, Return, Becomes, Quiet, Attempting, TypeOK
<1>17. ASSUME LeaseExpires \/ CustomersDrift \/ UNCHANGED vars PROVE Still
  BY <1>17 DEF LeaseExpires, CustomersDrift, vars, Still, TypeOK, Run
<1> QED
  BY <1>3, <1>4, <1>5, <1>6, <1>7, <1>8, <1>9, <1>10, <1>11, <1>12, <1>13, <1>14, <1>15,
     <1>16, <1>17 DEF Next, Step

-----------------------------------------------------------------------------
(* The cursor never retreats *)

(* Why: the holder of the lease has flushed at least as far as the cursor, *)
(* and nobody else may move it; before the run exists nobody holds it.     *)
HolderAhead ==
    /\ run.status = "none" => run.cursor = 0 /\ run.owner = None
    /\ \A w \in Workers :
         run.owner = w /\ call[w].pc \in Attempting => run.cursor <= call[w].flushed

LEMMA HolderAheadStep == TypeOK /\ HolderAhead /\ [Next]_vars => HolderAhead'
<1> SUFFICES ASSUME TypeOK, HolderAhead, [Next]_vars PROVE HolderAhead'
  OBVIOUS
<1> USE RunAssumption
<1>1. ASSUME NEW w \in Workers PROVE call[w] \in Call /\ run \in Run
  BY DEF TypeOK, LocalState
<1>2. ASSUME NEW w \in Workers, Create(w) PROVE HolderAhead'
  BY <1>2, <1>1 DEF Create, Attempt, NoRun, Becomes, HolderAhead, TypeOK, Call
<1>3. ASSUME NEW w \in Workers, Claim(w) PROVE HolderAhead'
  BY <1>3, <1>1 DEF Claim, Goto, Becomes, HolderAhead, Attempting, TypeOK, Call, Run
<1>4. ASSUME NEW w \in Workers, Discard(w) PROVE HolderAhead'
  BY <1>4, <1>1 DEF Discard, HolderAhead, Attempting, TypeOK, Call
<1>5. ASSUME NEW w \in Workers, Reread(w) PROVE HolderAhead'
  <2>1. /\ \A v \in Workers \ {w} : call'[v] = call[v]
        /\ call'[w].flushed = run.cursor
    BY <1>5, <1>1 DEF Reread, Attempt, Becomes, TypeOK, Call
  <2>2. run' = run /\ run.cursor <= run.cursor
    BY <1>5, <1>1 DEF Reread, Run
  <2> QED BY <2>1, <2>2 DEF HolderAhead
<1>6. ASSUME NEW w \in Workers, InsertMembers(w) PROVE HolderAhead'
  BY <1>6, <1>1 DEF InsertMembers, Goto, Becomes, HolderAhead, Attempting, TypeOK, Call
<1>7. ASSUME NEW w \in Workers, RenewLease(w) PROVE HolderAhead'
  <2>1. /\ \A v \in Workers \ {w} : call'[v] = call[v]
        /\ call'[w].flushed = call[w].pos
    BY <1>7, <1>1 DEF RenewLease, Becomes, TypeOK, Call
  <2>2. /\ run'.owner = w /\ run'.cursor = call[w].pos /\ run'.status = run.status
        /\ call[w].pos <= call[w].pos
        /\ run.status # "none"
    BY <1>7, <1>1, RunAssumption DEF RenewLease, Run, Call, HolderAhead
  <2> QED BY <2>1, <2>2 DEF HolderAhead
<1>8. ASSUME NEW w \in Workers, Quiet(w) PROVE HolderAhead'
  BY <1>8 DEF Quiet, HolderAhead
<1>9. CASE Still
  BY <1>9 DEF Still, HolderAhead
<1> QED BY <1>2, <1>3, <1>4, <1>5, <1>6, <1>7, <1>8, <1>9, StepShape

(* Under any interleaving of callers, crashes, expired leases and changed  *)
(* parameters, durable progress is given up only by a takeover that starts *)
(* over for other parameters.                                              *)
THEOREM CursorMonotone == Spec => CursorNeverRetreats
<1>1. Init => HolderAhead
  BY DEF Init, HolderAhead, Idle, Attempting, NoRun
<1>2. TypeOK /\ HolderAhead /\ [Next]_vars =>
        [run'.cursor < run.cursor =>
           /\ run'.cursor = 0
           /\ \E w \in Workers : run'.owner = w /\ ~Resumable(w)]_vars
  <2> SUFFICES ASSUME TypeOK, HolderAhead, [Next]_vars, run'.cursor < run.cursor
               PROVE  /\ run'.cursor = 0
                      /\ \E w \in Workers : run'.owner = w /\ ~Resumable(w)
    OBVIOUS
  <2>1. run \in Run /\ run.cursor \in Int /\ ~(run.cursor < run.cursor)
    BY RunAssumption DEF TypeOK, Run
  <2>2. ASSUME NEW w \in Workers, Claim(w)
        PROVE  run'.cursor = 0 /\ run'.owner = w /\ ~Resumable(w)
    BY <2>1, <2>2 DEF Claim, Run
  <2>3. ASSUME NEW w \in Workers, Create(w) PROVE FALSE
    BY <2>1, <2>3 DEF Create, NoRun, Run, HolderAhead
  <2>4. ASSUME NEW w \in Workers, RenewLease(w) PROVE FALSE
    BY <2>1, <2>4 DEF RenewLease, HolderAhead, Attempting, TypeOK, LocalState, Call, Run
  <2>5. ASSUME NEW w \in Workers, Discard(w) \/ Reread(w) \/ InsertMembers(w) PROVE FALSE
    BY <2>1, <2>5 DEF Discard, Reread, InsertMembers
  <2>6. ASSUME NEW w \in Workers, Quiet(w) PROVE FALSE
    BY <2>1, <2>6 DEF Quiet
  <2>7. ~Still
    BY <2>1 DEF Still
  <2> QED BY <2>2, <2>3, <2>4, <2>5, <2>6, <2>7, StepShape
<1> QED BY <1>1, <1>2, HolderAheadStep, TypeCorrect, PTL DEF Spec, CursorNeverRetreats

-----------------------------------------------------------------------------
(* What a step does to the rows and to the call that takes it *)

(* A step that ends a call's part in the run, or comes before it: rows stay,  *)
(* and of the run only the lease its holder gives back may change.         *)
Aside(w) ==
    /\ members' = members
    /\ audience' = audience
    /\ \A v \in Workers \ {w} : call'[v] = call[v]
    /\ call'[w].pc \in {"idle", "create", "join", "claim", "failing"}
    /\ \/ run' = run
       \/ /\ run.owner = w /\ run.status # "complete" /\ call'[w].pc = "idle"
          /\ run' = [run EXCEPT !.status = "failed", !.owner = None, !.live = FALSE]
    /\ call'[w].pc \in {"join", "claim"} => run.status # "none" \/ call[w].pc = "join"
    /\ call'[w].pc = "failing" =>
         call[w].pc \in Attempting /\ run' = run /\ call'[w].seed = call[w].seed
    /\ call[w].pc = "discard" => MaxLostDiscards # 0
    /\ \/ call'[w].flushed = call'[w].pos /\ ~call'[w].ended
       \/ /\ call'[w].pc \in {"join", "claim", "failing"}
          /\ call'[w].pos = call[w].pos /\ call'[w].flushed = call[w].flushed
          /\ call'[w].buffer = call[w].buffer /\ call'[w].ended = call[w].ended
          /\ call'[w].pc # "failing" => call[w].pc \in {"create", "join"}

(* A step of no call: time passes, or the customers change.                *)
Apart ==
    /\ members' = members
    /\ call' = call
    /\ \/ run' = run
       \/ run' = [run EXCEPT !.live = FALSE] /\ (HolderRuns => MaxExpiries # 0)

LEMMA AsideShape ==
    ASSUME TypeOK, NEW w \in Workers,
           \/ \E p \in Params : Start(w, p)
           \/ Reuse(w) \/ Busy(w) \/ LoseCreation(w) \/ Join(w) \/ LoseLease(w)
           \/ PooledRowGone(w) \/ MarkFailed(w) \/ StepFails(w) \/ Crash(w)
    PROVE  Aside(w)
<1>1. call[w] \in Call /\ run \in Run /\ call \in [Workers -> LocalState]
  BY DEF TypeOK, LocalState
<1>2. Idle.pc = "idle" /\ Idle.flushed = Idle.pos /\ ~Idle.ended
  BY DEF Idle
<1>3. ASSUME NEW p \in Params, Start(w, p) PROVE Aside(w)
  <2>1. /\ UNCHANGED <<run, members, audience>> /\ call[w].pc = "idle"
        /\ \A v \in Workers \ {w} : call'[v] = call[v]
    BY <1>1, <1>3 DEF Start, Becomes
  <2>2. /\ call'[w].pc = IF run.status = "none" THEN "create" ELSE "claim"
        /\ call'[w].flushed = call'[w].pos /\ ~call'[w].ended
    BY <1>1, <1>3 DEF Start, Becomes, Idle
  <2> QED BY <2>1, <2>2 DEF Aside
<1>4. CASE Reuse(w) \/ Busy(w)
  <2>1. /\ UNCHANGED <<run, members, audience>> /\ call[w].pc # "discard"
        /\ \A v \in Workers \ {w} : call'[v] = call[v]
        /\ call'[w] = Idle
    BY <1>1, <1>4 DEF Reuse, Busy, Return, Becomes
  <2> QED BY <2>1, <1>2 DEF Aside
<1>5. CASE LoseCreation(w)
  BY <1>1, <1>5 DEF LoseCreation, Goto, Becomes, Aside, Call
<1>6. CASE Join(w)
  BY <1>1, <1>6 DEF Join, Becomes, Aside, Call
<1>7. CASE LoseLease(w) \/ PooledRowGone(w)
  BY <1>1, <1>7 DEF LoseLease, PooledRowGone, Goto, Becomes, Aside, Call, Attempting
<1>8. CASE StepFails(w)
  BY <1>1, <1>8 DEF StepFails, Goto, Becomes, Aside, Call, Attempting
<1>9. CASE MarkFailed(w)
  <2>1. /\ UNCHANGED <<members, audience>> /\ call[w].pc = "failing"
        /\ \A v \in Workers \ {w} : call'[v] = call[v]
        /\ call'[w] = Idle
    BY <1>1, <1>9 DEF MarkFailed, Return, Becomes
  <2>2. \/ run' = run
        \/ /\ run.owner = w /\ run.status # "complete"
           /\ run' = [run EXCEPT !.status = "failed", !.owner = None, !.live = FALSE]
    BY <1>9 DEF MarkFailed
  <2> QED BY <2>1, <2>2, <1>2 DEF Aside
<1>10. CASE Crash(w)
  <2>1. /\ UNCHANGED <<run, members, audience>>
        /\ \A v \in Workers \ {w} : call'[v] = call[v]
        /\ call'[w] = Idle
    BY <1>1, <1>10 DEF Crash, Return, Becomes
  <2>2. call[w].pc = "discard" => MaxLostDiscards # 0
    <3> SUFFICES ASSUME call[w].pc = "discard" PROVE MaxLostDiscards # 0
      OBVIOUS
    <3>1. Spend("discards", MaxLostDiscards)
      BY <1>10, Zenon DEF Crash
    <3>2. spent["discards"] \in Nat
      BY DEF TypeOK
    <3> QED BY <3>1, <3>2 DEF Spend
  <2> QED BY <2>1, <2>2, <1>2 DEF Aside
<1> QED BY <1>3, <1>4, <1>5, <1>6, <1>7, <1>8, <1>9, <1>10

LEMMA ApartShape ==
    ASSUME TypeOK, LeaseExpires \/ CustomersDrift \/ UNCHANGED vars
    PROVE  Apart
<1>1. CASE LeaseExpires
  <2>1. HolderRuns => MaxExpiries # 0
    <3> SUFFICES ASSUME HolderRuns PROVE MaxExpiries # 0
      OBVIOUS
    <3>1. Spend("expiries", MaxExpiries)
      BY <1>1 DEF LeaseExpires
    <3>2. spent["expiries"] \in Nat
      BY DEF TypeOK
    <3> QED BY <3>1, <3>2 DEF Spend
  <2> QED BY <1>1, <2>1 DEF LeaseExpires, Apart
<1>2. CASE CustomersDrift
  BY <1>2 DEF CustomersDrift, Apart
<1>3. CASE UNCHANGED vars
  BY <1>3 DEF vars, Apart
<1> QED BY <1>1, <1>2, <1>3

(* With no drift the audience is what it was.                              *)
LEMMA NoDrift == TypeOK /\ [Next]_vars /\ MaxDrift = 0 => audience' = audience
<1> SUFFICES ASSUME TypeOK, [Next]_vars, MaxDrift = 0 PROVE audience' = audience
  OBVIOUS
<1>1. CASE CustomersDrift
  <2>1. Spend("drift", MaxDrift) /\ spent["drift"] \in Nat
    BY <1>1 DEF CustomersDrift, TypeOK
  <2> QED BY <2>1 DEF Spend
<1>2. ASSUME NEW w \in Workers, Step(w) PROVE audience' = audience
  BY <1>2 DEF Step, Create, LoseCreation, Join, Reuse, Claim, Busy, Discard, Reread, Evaluate,
     EndOfAudience, InsertMembers, RenewLease, LoseLease, CountDecisions, TakeCensus,
     MarkAssigning, ListPooledRows, RewritePooledRow, PooledRowGone, FixupDone, DrawArms,
     CheckArms, Complete, MarkFailed
<1> QED BY <1>1, <1>2 DEF Next, Start, StepFails, Crash, LeaseExpires, vars

(* What a call does within its attempt without touching run or rows.       *)
Within(w) ==
    \/ Evaluate(w) \/ EndOfAudience(w) \/ CountDecisions(w) \/ TakeCensus(w)
    \/ \E s \in Strata : ListPooledRows(w, s)
    \/ FixupDone(w) \/ CheckArms(w)

LEMMA WithinShape ==
    ASSUME TypeOK, NEW w \in Workers, Within(w)
    PROVE  /\ run' = run /\ members' = members /\ audience' = audience
           /\ \A v \in Workers \ {w} : call'[v] = call[v]
           /\ call[w].pc \in Attempting /\ call'[w].pc \in Attempting
           /\ call'[w].seed = call[w].seed
<1> DEFINE G == /\ run' = run /\ members' = members /\ audience' = audience
                /\ \A v \in Workers \ {w} : call'[v] = call[v]
                /\ call[w].pc \in Attempting /\ call'[w].pc \in Attempting
                /\ call'[w].seed = call[w].seed
<1>1. call[w] \in Call /\ call \in [Workers -> LocalState]
  BY DEF TypeOK, LocalState
<1>2. CASE Evaluate(w)
  BY <1>1, <1>2 DEF Evaluate, Becomes, Call, Attempting
<1>3. CASE EndOfAudience(w)
  BY <1>1, <1>3 DEF EndOfAudience, Becomes, Call, Attempting
<1>4. CASE CountDecisions(w)
  BY <1>1, <1>4 DEF CountDecisions, Becomes, Call, Attempting
<1>5. CASE TakeCensus(w)
  BY <1>1, <1>5 DEF TakeCensus, Becomes, Call, Attempting
<1>6. ASSUME NEW s \in Strata, ListPooledRows(w, s) PROVE G
  BY <1>1, <1>6 DEF ListPooledRows, Becomes, Call, Attempting
<1>7. CASE FixupDone(w)
  BY <1>1, <1>7 DEF FixupDone, Goto, Becomes, Call, Attempting
<1>8. CASE CheckArms(w)
  BY <1>1, <1>8 DEF CheckArms, Becomes, Call, Attempting
<1> QED BY <1>2, <1>3, <1>4, <1>5, <1>6, <1>7, <1>8 DEF Within

LEMMA StepKinds ==
    TypeOK /\ [Next]_vars =>
        \/ \E w \in Workers :
             \/ Create(w) \/ Claim(w) \/ Discard(w) \/ Reread(w)
             \/ InsertMembers(w) \/ RenewLease(w) \/ MarkAssigning(w)
             \/ \E c \in Customers : RewritePooledRow(w, c)
             \/ DrawArms(w) \/ Complete(w) \/ Within(w) \/ Aside(w)
        \/ Apart
BY AsideShape, ApartShape DEF Next, Step, Within
-----------------------------------------------------------------------------
(* One holder at a time *)

(* Without expiries under a running call, whoever is past the              *)
(* compare-and-set holds the live lease of an open run.                    *)
Sole ==
    \A w \in Workers : call[w].pc \in Claimed =>
        run.owner = w /\ run.live /\ run.status \in {"resolving", "assigning"}

LEMMA SoleStep ==
    ASSUME MaxExpiries = 0
    PROVE  TypeOK /\ Sole /\ [Next]_vars => Sole'
<1> SUFFICES ASSUME TypeOK, Sole, [Next]_vars PROVE Sole'
  OBVIOUS
<1> USE RunAssumption
<1>1. ASSUME NEW w \in Workers
      PROVE  call[w] \in Call /\ run \in Run /\ call \in [Workers -> LocalState] /\ w # None
  BY DEF TypeOK, LocalState
<1>2. ASSUME NEW w \in Workers, Create(w) PROVE Sole'
  <2>1. \A v \in Workers : call[v].pc \notin Claimed
    BY <1>2, <1>1 DEF Create, Sole
  <2>2. \A v \in Workers \ {w} : call'[v] = call[v]
    BY <1>2, <1>1 DEF Create, Attempt, Becomes
  <2>3. run'.owner = w /\ run'.live /\ run'.status = "resolving"
    BY <1>2, NoRunType DEF Create, Run
  <2> QED BY <2>1, <2>2, <2>3 DEF Sole
<1>3. ASSUME NEW w \in Workers, Claim(w) PROVE Sole'
  <2>1. \A v \in Workers : call[v].pc \notin Claimed
    BY <1>3, <1>1 DEF Claim, LeaseFree, Sole
  <2>2. \A v \in Workers \ {w} : call'[v] = call[v]
    BY <1>3, <1>1 DEF Claim, Goto, Becomes
  <2>3. run'.owner = w /\ run'.live /\ run'.status = "resolving"
    BY <1>3, <1>1 DEF Claim, Run
  <2> QED BY <2>1, <2>2, <2>3 DEF Sole
<1>4. ASSUME NEW w \in Workers, Discard(w) PROVE Sole'
  BY <1>4, <1>1 DEF Discard, Sole, Claimed, Attempting, Call, LocalState
<1>5. ASSUME NEW w \in Workers, Reread(w) PROVE Sole'
  <2>1. \A v \in Workers \ {w} : call'[v] = call[v]
    BY <1>5, <1>1 DEF Reread, Attempt, Becomes
  <2> QED BY <1>5, <2>1 DEF Reread, Sole, Claimed
<1>6. ASSUME NEW w \in Workers,
             InsertMembers(w) \/ DrawArms(w) \/ \E c \in Customers : RewritePooledRow(w, c)
      PROVE  Sole'
  <2>1. /\ \A v \in Workers \ {w} : call'[v] = call[v]
        /\ call[w].pc \in Claimed /\ run' = run
    BY <1>6, <1>1 DEF InsertMembers, DrawArms, RewritePooledRow, Goto, Becomes, Claimed, Attempting
  <2> QED BY <2>1 DEF Sole
<1>7. ASSUME NEW w \in Workers, RenewLease(w) \/ MarkAssigning(w) PROVE Sole'
  <2>1. /\ \A v \in Workers \ {w} : call'[v] = call[v]
        /\ call[w].pc \in Claimed
    BY <1>7, <1>1 DEF RenewLease, MarkAssigning, Becomes, Claimed, Attempting
  <2>2. run'.owner = w /\ run'.live /\ run'.status \in {"resolving", "assigning"}
    BY <1>7, <1>1, <2>1 DEF RenewLease, MarkAssigning, Run, Sole
  <2>3. run.owner = w
    BY <2>1 DEF Sole
  <2> QED BY <2>1, <2>2, <2>3 DEF Sole
<1>8. ASSUME NEW w \in Workers, Complete(w) PROVE Sole'
  <2>1. /\ \A v \in Workers \ {w} : call'[v] = call[v]
        /\ call[w].pc \in Claimed /\ call'[w].pc = "idle"
    BY <1>8, <1>1 DEF Complete, Return, Becomes, Claimed, Attempting, Idle
  <2> QED BY <2>1 DEF Sole, Claimed, Attempting
<1>9. ASSUME NEW w \in Workers, Within(w) PROVE Sole'
  BY <1>9, WithinShape DEF Sole, Claimed
<1>10. ASSUME NEW w \in Workers, Aside(w) PROVE Sole'
  <2>1. ASSUME NEW v \in Workers, call'[v].pc \in Claimed
        PROVE  call[v].pc \in Claimed /\ (v = w => run' = run)
    BY <1>10, <2>1 DEF Aside, Claimed, Attempting
  <2>2. ASSUME NEW v \in Workers, call'[v].pc \in Claimed PROVE run' = run
    BY <1>10, <2>1, <2>2 DEF Aside, Sole
  <2> QED BY <2>1, <2>2 DEF Sole
<1>11. CASE Apart
  <2>1. CASE run' = run
    BY <1>11, <2>1 DEF Apart, Sole
  <2>2. CASE run' # run
    <3>1. ~HolderRuns
      BY <1>11, <2>2 DEF Apart
    <3>2. \A w \in Workers : call[w].pc \notin Claimed
      BY <3>1, <1>1 DEF HolderRuns, Sole
    <3> QED BY <1>11, <3>2 DEF Apart, Sole
  <2> QED BY <2>1, <2>2
<1> QED
  BY <1>2, <1>3, <1>4, <1>5, <1>6, <1>7, <1>8, <1>9, <1>10, <1>11, StepKinds

-----------------------------------------------------------------------------
(* Every row is ranked for the parameters the run names *)

OneParams == \A p, q \in Params : p = q
NobodyDiscards == \A w \in Workers : call[w].pc # "discard"

(* Why an attempt can rely on the run row it was handed: either no call    *)
(* asks for other parameters, or nobody but the lease holder is past the   *)
(* compare-and-set and no takeover dies before its discard.                *)
Orderly ==
    \/ OneParams /\ NobodyDiscards
    \/ MaxExpiries = 0 /\ MaxLostDiscards = 0 /\ Sole

Coordinated ==
    /\ run.status = "none" =>
         /\ run.cursor = 0 /\ DOMAIN members = {}
         /\ \A w \in Workers : call[w].pc \in {"idle", "create"}
    /\ \A w \in Workers : call[w].pc \in Attempting => call[w].seed = run.params
    /\ \A w \in Workers : call[w].pc = "discard" =>
         run.cursor = 0 /\ \A v \in Workers : call[v].pc \notin Attempting
    /\ NobodyDiscards => \A c \in DOMAIN members : members[c].seed = run.params

(* Under either regime, a call that starts over finds nobody else at work. *)
LEMMA StartingOver ==
    ASSUME TypeOK, Orderly, NEW w \in Workers, Claim(w), ~Resumable(w)
    PROVE  \A v \in Workers : call[v].pc \notin Claimed
<1>1. call[w] \in Call /\ ~OneParams
  BY DEF TypeOK, LocalState, Call, Resumable, OneParams
<1>2. Sole
  BY <1>1 DEF Orderly
<1> QED BY <1>2, RunAssumption DEF Claim, LeaseFree, Sole

LEMMA CoordinatedStep == TypeOK /\ Orderly /\ Coordinated /\ [Next]_vars => Coordinated'
<1> SUFFICES ASSUME TypeOK, Orderly, Coordinated, [Next]_vars PROVE Coordinated'
  OBVIOUS
<1> USE RunAssumption
<1>1. ASSUME NEW w \in Workers
      PROVE  /\ call[w] \in Call /\ call[w] \in LocalState /\ run \in Run
             /\ call \in [Workers -> LocalState]
  BY DEF TypeOK, LocalState
<1>2. ASSUME NEW w \in Workers, Create(w) PROVE Coordinated'
  <2>1. run.status = "none" /\ members' = members /\ DOMAIN members = {}
    BY <1>2 DEF Create, Coordinated
  <2>2. \A v \in Workers : call[v].pc \notin Attempting /\ call[v].pc # "discard"
    BY <2>1 DEF Coordinated, Attempting
  <2>3. /\ \A v \in Workers \ {w} : call'[v] = call[v]
        /\ call'[w].seed = run'.params /\ call'[w].pc = "stream"
    BY <1>2, <1>1 DEF Create, Attempt, Becomes, Call
  <2>4. run'.status = "resolving"
    BY <1>2, NoRunType DEF Create, Run
  <2> QED BY <2>1, <2>2, <2>3, <2>4 DEF Coordinated
<1>3. ASSUME NEW w \in Workers, Claim(w) PROVE Coordinated'
  <2>1. /\ \A v \in Workers \ {w} : call'[v] = call[v]
        /\ call'[w].pc = IF Resumable(w) THEN "reread" ELSE "discard"
        /\ call[w].pc = "claim" /\ members' = members
    BY <1>3, <1>1 DEF Claim, Goto, Becomes, Call
  <2>2. run'.status = "resolving"
    BY <1>3, <1>1 DEF Claim, Run
  <2>3. CASE Resumable(w)
    <3>1. run'.params = run.params /\ run'.cursor = run.cursor
      BY <1>3, <1>1, <2>3 DEF Claim, Run
    <3> QED BY <2>1, <2>2, <2>3, <3>1 DEF Coordinated, NobodyDiscards, Attempting
  <2>4. CASE ~Resumable(w)
    <3>1. run'.cursor = 0
      BY <1>3, <1>1, <2>4 DEF Claim, Run
    <3>2. \A v \in Workers : call'[v].pc \notin Attempting
      BY <1>3, <2>1, <2>4, StartingOver DEF Attempting, Claimed
    <3> QED BY <2>1, <2>2, <2>4, <3>1, <3>2 DEF Coordinated, NobodyDiscards
  <2> QED BY <2>3, <2>4
<1>4. ASSUME NEW w \in Workers, Discard(w) PROVE Coordinated'
  <2>1. /\ run' = run /\ DOMAIN members' = {} /\ call[w].pc = "discard"
        /\ call'[w].pc = "reread"
        /\ \A v \in Workers \ {w} : call'[v].pc = call[v].pc /\ call'[v].seed = call[v].seed
    BY <1>4, <1>1 DEF Discard, NoRows, LocalState, Call
  <2>2. run.status # "none"
    BY <2>1 DEF Coordinated
  <2> QED BY <2>1, <2>2 DEF Coordinated, Attempting
<1>5. ASSUME NEW w \in Workers, Reread(w) PROVE Coordinated'
  <2>1. /\ \A v \in Workers \ {w} : call'[v] = call[v]
        /\ call'[w].seed = run.params /\ call'[w].pc = "stream" /\ call[w].pc = "reread"
        /\ run' = run /\ members' = members
    BY <1>5, <1>1 DEF Reread, Attempt, Becomes, Call
  <2>2. run.status # "none"
    BY <2>1 DEF Coordinated
  <2>3. NobodyDiscards
    BY <1>1, <2>1 DEF Orderly, Sole, NobodyDiscards, Claimed, Attempting
  <2> QED BY <2>1, <2>2, <2>3 DEF Coordinated, NobodyDiscards
<1>6. ASSUME NEW w \in Workers, call[w].pc \in Attempting
      PROVE  /\ NobodyDiscards /\ run.status # "none" /\ call[w].seed = run.params
             /\ \A c \in DOMAIN members : members[c].seed = run.params
  BY <1>6 DEF Coordinated, NobodyDiscards, Attempting
<1>7. ASSUME NEW w \in Workers, NEW rows,
             call[w].pc \in Attempting, members' = rows,
             \A c \in DOMAIN rows : rows[c].seed = run.params,
             run'.params = run.params, run'.status # "none",
             \A v \in Workers \ {w} : call'[v] = call[v],
             call'[w].pc # "discard",
             call'[w].pc \in Attempting => call'[w].seed = call[w].seed
      PROVE  Coordinated'
  BY <1>6, <1>7 DEF Coordinated, NobodyDiscards, Attempting
<1>8. ASSUME NEW w \in Workers, InsertMembers(w) PROVE Coordinated'
  <2>1. /\ call[w].pc \in Attempting /\ run' = run
        /\ \A v \in Workers \ {w} : call'[v] = call[v]
        /\ call'[w].pc = "renew" /\ call'[w].seed = call[w].seed
    BY <1>8, <1>1 DEF InsertMembers, Goto, Becomes, Call, Attempting
  <2>2. \A c \in DOMAIN Staged(call[w]) : Staged(call[w])[c].seed = call[w].seed
    BY DEF Staged, NewRow
  <2>3. \A c \in DOMAIN members' : members'[c].seed = run.params
    BY <1>8, <1>6, <2>1, <2>2 DEF InsertMembers, InsertMissing
  <2> QED BY <1>6, <1>7, <2>1, <2>3
<1>9. ASSUME NEW w \in Workers, NEW d \in Customers, RewritePooledRow(w, d) PROVE Coordinated'
  <2>1. /\ call[w].pc \in Attempting /\ run' = run
        /\ \A v \in Workers \ {w} : call'[v] = call[v]
        /\ call'[w].pc = "fixup" /\ call'[w].seed = call[w].seed
    BY <1>9, <1>1 DEF RewritePooledRow, Becomes, Call, Attempting
  <2>2. ASSUME NEW c \in DOMAIN members' PROVE members'[c].seed = run.params
    <3>1. members \in [DOMAIN members -> Row] /\ c \in DOMAIN members
      BY <1>9 DEF RewritePooledRow, TypeOK
    <3>2. members'[c] = IF c = d
                        THEN [members[c] EXCEPT !.assigned = Pooled, !.seed = call[w].seed]
                        ELSE members[c]
      BY <1>9, <3>1 DEF RewritePooledRow
    <3> QED BY <3>1, <3>2, <1>6, <2>1 DEF Row
  <2> QED BY <1>6, <1>7, <2>1, <2>2
<1>10. ASSUME NEW w \in Workers, DrawArms(w) PROVE Coordinated'
  <2>1. /\ call[w].pc \in Attempting /\ run' = run
        /\ \A v \in Workers \ {w} : call'[v] = call[v]
        /\ call'[w].pc = "arms" /\ call'[w].seed = call[w].seed
    BY <1>10, <1>1 DEF DrawArms, Goto, Becomes, Call, Attempting
  <2>2. \A c \in DOMAIN members' : members'[c].seed = run.params
    BY <1>10, <1>6, <2>1 DEF DrawArms, TypeOK, Row
  <2> QED BY <1>6, <1>7, <2>1, <2>2
<1>11. ASSUME NEW w \in Workers, RenewLease(w) \/ MarkAssigning(w) \/ Complete(w) \/ Within(w)
       PROVE  Coordinated'
  <2>1. CASE RenewLease(w)
    <3>1. /\ call[w].pc \in Attempting /\ run'.params = run.params /\ run'.status = run.status
          /\ \A v \in Workers \ {w} : call'[v] = call[v] /\ members' = members
          /\ call'[w].pc # "discard" /\ call'[w].seed = call[w].seed
      BY <2>1, <1>1 DEF RenewLease, Becomes, Call, Attempting, Run
    <3> QED BY <1>6, <1>7, <3>1, <2>1 DEF RenewLease
  <2>2. CASE MarkAssigning(w)
    <3>1. /\ call[w].pc \in Attempting /\ run'.params = run.params /\ run'.status = "assigning"
          /\ \A v \in Workers \ {w} : call'[v] = call[v] /\ members' = members
          /\ call'[w].pc # "discard" /\ call'[w].seed = call[w].seed
      BY <2>2, <1>1 DEF MarkAssigning, Becomes, Call, Attempting, Run
    <3> QED BY <1>6, <1>7, <3>1, <2>2 DEF MarkAssigning
  <2>3. CASE Complete(w)
    <3>1. /\ call[w].pc \in Attempting /\ run'.params = run.params /\ run'.status = "complete"
          /\ \A v \in Workers \ {w} : call'[v] = call[v] /\ members' = members
          /\ call'[w].pc = "idle"
      BY <2>3, <1>1 DEF Complete, Return, Becomes, Idle, Attempting, Run
    <3> QED BY <1>6, <1>7, <3>1, <2>3 DEF Complete, Attempting
  <2>4. CASE Within(w)
    <3>1. /\ call[w].pc \in Attempting /\ run' = run /\ members' = members
          /\ \A v \in Workers \ {w} : call'[v] = call[v]
          /\ call'[w].pc # "discard" /\ call'[w].seed = call[w].seed
      BY <2>4, WithinShape DEF Attempting
    <3> QED BY <1>6, <1>7, <3>1
  <2> QED BY <1>11, <2>1, <2>2, <2>3, <2>4
<1>12. ASSUME NEW w \in Workers, Aside(w) PROVE Coordinated'
  <2>1. /\ run'.params = run.params /\ run'.cursor = run.cursor /\ members' = members
        /\ run'.status \in {run.status, "failed"}
        /\ \A v \in Workers \ {w} : call'[v] = call[v]
    BY <1>12, <1>1 DEF Aside, Run
  <2>2. \A v \in Workers : call'[v].pc \in Attempting =>
           call[v].pc \in Attempting /\ call'[v].seed = call[v].seed
    BY <1>12, <2>1 DEF Aside, Attempting
  <2>3. call[w].pc # "discard"
    BY <1>12 DEF Aside, Orderly, NobodyDiscards
  <2>4. \A v \in Workers : call'[v].pc = "discard" <=> call[v].pc = "discard"
    BY <1>12, <2>1, <2>3 DEF Aside
  <2>5. run.status = "none" /\ run'.status = "none" =>
           \A v \in Workers : call'[v].pc \in {"idle", "create"}
    BY <1>12, <2>1 DEF Aside, Coordinated, Attempting
  <2>6. run'.status = "none" => run.status = "none"
    BY <2>1
  <2> QED BY <2>1, <2>2, <2>4, <2>5, <2>6 DEF Coordinated, NobodyDiscards
<1>13. CASE Apart
  <2>1. /\ run'.params = run.params /\ run'.cursor = run.cursor /\ run'.status = run.status
        /\ members' = members /\ call' = call
    BY <1>13 DEF Apart, TypeOK, Run
  <2> QED BY <2>1 DEF Coordinated, NobodyDiscards
<1> QED
  BY <1>2, <1>3, <1>4, <1>5, <1>8, <1>9, <1>10, <1>11, <1>12, <1>13, StepKinds

(* What makes the calls of one run agree: they all ask for the same        *)
(* parameters, or no lease expires under a call still running and no takeover *)
(* dies between its compare-and-set and its discard.                       *)
Cooperation == OneParams \/ (MaxExpiries = 0 /\ MaxLostDiscards = 0)

-----------------------------------------------------------------------------
(* The cursor never passes a customer without a row *)

(* How far the rows of a call's own attempt are certainly durable: between *)
(* the two statements of a flush this is already its position.             *)
Durable(local) == IF local.pc = "renew" THEN local.pos ELSE local.flushed

(* Why: whatever the cursor or an attempt counts as flushed has its rows,  *)
(* and a takeover that discards them has reset the cursor, with nobody else *)
(* at work.                                                                *)
Covered ==
    /\ CursorCovered
    /\ \A w \in Workers :
         call[w].pc \in Attempting =>
             \A c \in Customers : c <= Durable(call[w]) => c \in DOMAIN members

LEMMA CoveredStep ==
    TypeOK /\ Orderly /\ Coordinated /\ Covered /\ [Next]_vars => Covered'
<1> SUFFICES ASSUME TypeOK, Orderly, Coordinated, Covered, [Next]_vars PROVE Covered'
  OBVIOUS
<1> USE RunAssumption
<1>1. ASSUME NEW w \in Workers
      PROVE  /\ call[w] \in Call /\ call[w] \in LocalState /\ run \in Run
             /\ call \in [Workers -> LocalState]
  BY DEF TypeOK, LocalState
<1>2. ASSUME NEW w \in Workers, Create(w) \/ Reread(w) PROVE Covered'
  <2>1. members' = members /\ run'.cursor \in {0, run.cursor} /\ Attempt(w, run')
    <3>1. CASE Create(w)
      BY <3>1 DEF Create, NoRun
    <3>2. CASE Reread(w)
      BY <3>2 DEF Reread
    <3> QED BY <1>2, <3>1, <3>2
  <2>2. /\ \A v \in Workers \ {w} : call'[v] = call[v]
        /\ call'[w].pc = "stream" /\ call'[w].flushed = run'.cursor
    BY <2>1, <1>1 DEF Attempt, Becomes, TypeOK, Call
  <2>3. CursorCovered'
    BY <2>1 DEF Covered, CursorCovered, Customers
  <2> QED BY <2>1, <2>2, <2>3 DEF Covered, CursorCovered, Durable
<1>3. ASSUME NEW w \in Workers, Claim(w) PROVE Covered'
  <2>1. members' = members /\ run'.cursor \in {run.cursor, 0}
    BY <1>3, <1>1 DEF Claim, Run
  <2>2. /\ \A v \in Workers \ {w} : call'[v] = call[v]
        /\ call'[w].pc \in {"reread", "discard"}
    BY <1>3, <1>1 DEF Claim, Goto, Becomes, Call
  <2>3. CursorCovered'
    BY <2>1 DEF Covered, CursorCovered, Customers
  <2> QED BY <2>1, <2>2, <2>3 DEF Covered, Attempting
<1>4. ASSUME NEW w \in Workers, Discard(w) PROVE Covered'
  <2>1. /\ run'.cursor = 0
        /\ \A v \in Workers : call[v].pc \notin Attempting
    BY <1>4 DEF Discard, Coordinated
  <2>2. \A v \in Workers : call'[v].pc \notin Attempting
    BY <1>4, <1>1, <2>1 DEF Discard, Attempting, LocalState, Call
  <2> QED BY <2>1, <2>2 DEF Covered, CursorCovered, Customers
<1>5. ASSUME NEW w \in Workers, InsertMembers(w) PROVE Covered'
  <2>1. /\ run' = run
        /\ \A v \in Workers \ {w} : call'[v] = call[v]
        /\ call'[w].pc = "renew" /\ call'[w].pos = call[w].pos
        /\ call[w].pc = "insert"
    BY <1>5, <1>1 DEF InsertMembers, Goto, Becomes, TypeOK, Call
  <2>2. DOMAIN Staged(call[w]) = call[w].flushed + 1 .. call[w].pos
    BY <1>1, StagedType
  <2>3. DOMAIN members' = DOMAIN members \union (call[w].flushed + 1 .. call[w].pos)
    BY <1>5, <2>2 DEF InsertMembers, InsertMissing
  <2>4. \A c \in Customers : c <= call[w].pos => c \in DOMAIN members'
    <3>1. \A c \in Customers : c <= call[w].flushed => c \in DOMAIN members
      BY <2>1 DEF Covered, Attempting, Durable
    <3>2. call[w].flushed \in Int /\ call[w].pos \in Int
      BY <1>1 DEF Call
    <3> QED BY <2>3, <3>1, <3>2 DEF Customers
  <2> QED BY <2>1, <2>3, <2>4 DEF Covered, CursorCovered, Durable
<1>6. ASSUME NEW w \in Workers, RenewLease(w) PROVE Covered'
  <2>1. /\ members' = members /\ run'.cursor = call[w].pos
        /\ call[w].pc = "renew"
    BY <1>6, <1>1 DEF RenewLease, Run
  <2>2. /\ \A v \in Workers \ {w} : call'[v] = call[v]
        /\ call'[w].pc \in {"count", "stream"} /\ call'[w].flushed = call[w].pos
    BY <1>6, <1>1 DEF RenewLease, Becomes, TypeOK, Call
  <2>3. \A c \in Customers : c <= call[w].pos => c \in DOMAIN members
    BY <2>1 DEF Covered, Attempting, Durable
  <2> QED BY <2>1, <2>2, <2>3 DEF Covered, CursorCovered, Durable
<1>7. ASSUME NEW w \in Workers, Quiet(w) PROVE Covered'
  <2>1. ASSUME call'[w].pc \in Attempting, NEW c \in Customers, c <= Durable(call'[w])
        PROVE  c \in DOMAIN members
    <3>1. call[w].pc \in Attempting /\ c <= call[w].flushed
      BY <1>7, <2>1 DEF Quiet, Durable
    <3>2. c <= Durable(call[w])
      <4>1. /\ call[w].pos = call[w].flushed + Len(call[w].buffer)
            /\ Len(call[w].buffer) \in Nat /\ call[w].flushed \in Int
        BY <1>1 DEF LocalState, Call
      <4> QED BY <3>1, <4>1 DEF Durable, Customers
    <3> QED BY <3>1, <3>2 DEF Covered
  <2> QED BY <1>7, <2>1 DEF Quiet, Covered, CursorCovered
<1>8. CASE Still
  BY <1>8 DEF Still, Covered, CursorCovered
<1> QED BY <1>2, <1>3, <1>4, <1>5, <1>6, <1>7, <1>8, StepShape

LEMMA OrderlyStep == TypeOK /\ Orderly /\ [Next]_vars => Orderly'
<1> SUFFICES ASSUME TypeOK, Orderly, [Next]_vars PROVE Orderly'
  OBVIOUS
<1>1. CASE MaxExpiries = 0 /\ MaxLostDiscards = 0 /\ Sole
  BY <1>1, SoleStep DEF Orderly
<1>2. CASE OneParams /\ NobodyDiscards
  <2>1. \A w \in Workers : call[w] \in Call /\ call[w] \in LocalState /\ Resumable(w)
    BY <1>2 DEF TypeOK, LocalState, Call, Resumable, OneParams
  <2>2. call \in [Workers -> LocalState] /\ Idle.pc = "idle"
    BY DEF TypeOK, Idle
  <2>3. ASSUME NEW w \in Workers,
               \/ Create(w) \/ Claim(w) \/ Reread(w)
               \/ InsertMembers(w) \/ RenewLease(w) \/ MarkAssigning(w)
               \/ \E c \in Customers : RewritePooledRow(w, c)
               \/ DrawArms(w) \/ Complete(w)
        PROVE  NobodyDiscards'
    <3>1. \A v \in Workers \ {w} : call'[v] = call[v]
      BY <2>2, <2>3 DEF Create, Claim, Reread, InsertMembers, RenewLease, MarkAssigning,
         RewritePooledRow, DrawArms, Complete, Attempt, Goto, Return, Becomes
    <3>2. CASE Create(w) \/ Reread(w)
      <4>1. call'[w].pc = "stream"
        BY <2>1, <2>2, <3>2 DEF Create, Reread, Attempt, Becomes, Call
      <4> QED BY <1>2, <3>1, <4>1 DEF NobodyDiscards
    <3>3. CASE Claim(w) \/ InsertMembers(w) \/ DrawArms(w)
      <4>1. call'[w].pc \in {"reread", "renew", "arms"}
        BY <2>1, <2>2, <3>3 DEF Claim, InsertMembers, DrawArms, Goto, Becomes, Call
      <4> QED BY <1>2, <3>1, <4>1 DEF NobodyDiscards
    <3>4. CASE RenewLease(w)
      <4>1. call'[w].pc \in {"count", "stream"}
        BY <2>1, <2>2, <3>4 DEF RenewLease, Becomes, Call
      <4> QED BY <1>2, <3>1, <4>1 DEF NobodyDiscards
    <3>5. CASE MarkAssigning(w) \/ Complete(w)
      <4>1. MarkAssigning(w) => call'[w].pc = "fixup"
        BY <2>1, <2>2 DEF MarkAssigning, Becomes, Call
      <4>2. Complete(w) => call'[w].pc = "idle"
        BY <2>2 DEF Complete, Return, Becomes
      <4> QED BY <1>2, <3>1, <3>5, <4>1, <4>2 DEF NobodyDiscards
    <3>6. ASSUME NEW c \in Customers, RewritePooledRow(w, c) PROVE NobodyDiscards'
      <4>1. call'[w].pc = "fixup"
        BY <2>1, <2>2, <3>6 DEF RewritePooledRow, Becomes, Call
      <4> QED BY <1>2, <3>1, <4>1 DEF NobodyDiscards
    <3> QED BY <2>3, <3>2, <3>3, <3>4, <3>5, <3>6
  <2>4. ASSUME NEW w \in Workers, Within(w) \/ Aside(w) PROVE NobodyDiscards'
    BY <1>2, <2>4, WithinShape DEF Aside, NobodyDiscards, Attempting
  <2>5. ASSUME NEW w \in Workers, Discard(w) PROVE FALSE
    BY <1>2, <2>5 DEF Discard, NobodyDiscards
  <2>6. ASSUME Apart PROVE NobodyDiscards'
    BY <1>2, <2>6 DEF Apart, NobodyDiscards
  <2>7. NobodyDiscards'
    BY <2>3, <2>4, <2>5, <2>6, StepKinds
  <2> QED BY <1>2, <2>7 DEF Orderly, OneParams
<1> QED BY <1>1, <1>2 DEF Orderly

(* The rows and the cursor as the calls of one run agree on them.          *)
LEMMA OrderlyInvariant ==
    ASSUME Cooperation
    PROVE  Spec => [](TypeOK /\ Orderly /\ Coordinated /\ Covered)
<1>1. Init => Orderly /\ Coordinated /\ Covered
  <2> SUFFICES ASSUME Init PROVE Orderly /\ Coordinated /\ Covered
    OBVIOUS
  <2>1. /\ run.status = "none" /\ run.cursor = 0 /\ DOMAIN members = {}
        /\ \A w \in Workers : call[w].pc = "idle"
    BY DEF Init, NoRun, NoRows, Idle
  <2> QED
    BY <2>1 DEF Cooperation, Orderly, Sole, NobodyDiscards, Coordinated, Covered, CursorCovered,
       Customers, Attempting, Claimed
<1>2. TypeOK /\ Orderly /\ Coordinated /\ Covered /\ [Next]_vars
        => Orderly' /\ Coordinated' /\ Covered'
  BY OrderlyStep, CoordinatedStep, CoveredStep
<1> QED BY <1>1, <1>2, TypeCorrect, PTL DEF Spec

(* While all callers ask for the same parameters, or no lease expires under *)
(* a running call and no takeover dies before its discard, the resume      *)
(* cursor never passes a customer whose evaluation is not durable, whatever *)
(* else crashes, changes or interleaves: a takeover skips only finished    *)
(* work.                                                                   *)
THEOREM CursorCoverage ==
    ASSUME Cooperation
    PROVE  Spec => []CursorCovered
<1>1. Covered => CursorCovered
  BY DEF Covered
<1> QED BY <1>1, OrderlyInvariant, PTL

(* Under the same conditions the rows of a complete run were all ranked for *)
(* the parameters its row names, however often callers with other          *)
(* parameters took it over, and however the audience changed meanwhile.    *)
THEOREM OneRankingCorrect ==
    ASSUME Cooperation
    PROVE  Spec => []OneRanking
<1>1. Orderly /\ Coordinated => OneRanking
  <2> SUFFICES ASSUME Orderly, Coordinated, run.status = "complete" 
               PROVE  \A c \in Candidates(members) : members[c].seed = run.params
    BY DEF OneRanking
  <2>1. NobodyDiscards
    BY DEF Orderly, Sole, NobodyDiscards, Claimed
  <2> QED BY <2>1 DEF Coordinated, Candidates
<1> QED BY <1>1, OrderlyInvariant, PTL
=============================================================================
