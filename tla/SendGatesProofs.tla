--------------------------- MODULE SendGatesProofs ---------------------------
(***************************************************************************)
(* Theorems about SendGates for any number of messages, customers, limits   *)
(* and faults.                                                              *)
(***************************************************************************)
EXTENDS SendGates, FiniteSetTheorems, TLAPS

LeasesBounded == Cardinality(leases) + orphans <= Concurrency

(* What the day's counter has been taken for: what was handed over on       *)
(* capacity of today, and what is about to be.                              *)
OnToday == seen.today \union {m \in Messages : At(m, "sending") /\ m \notin seen.carried}

CounterCovers == Cardinality(OnToday) <= daily

(* An execution past the permission check of a customer who opted out began *)
(* before the opt-out.                                                      *)
PermissionKept == \A m \in Messages : Running(m) /\ To[m] \in optedOut => m \in seen.graced

TypeInv == TypeOK /\ LeasesBounded
GateInv == CounterCovers /\ PermissionKept

-----------------------------------------------------------------------------
Seen == [handed : SUBSET Messages, today : SUBSET Messages, carried : SUBSET Messages,
         graced : SUBSET Messages, forgotten : SUBSET Messages,
         peak : [Customers -> 0 .. Cardinality(Messages)]]

LEMMA FiniteMessages ==
    /\ IsFiniteSet(Messages) /\ Cardinality(Messages) \in Nat
    /\ \A S \in SUBSET Messages :
         /\ IsFiniteSet(S) /\ Cardinality(S) \in Nat /\ Cardinality(S) <= Cardinality(Messages)
         /\ \A T \in SUBSET S : Cardinality(T) <= Cardinality(S)
         /\ \A m \in Messages :
              /\ Cardinality(S \union {m}) <= Cardinality(S) + 1
              /\ m \in S => Cardinality(S \ {m}) = Cardinality(S) - 1
<1>1. IsFiniteSet(Messages) /\ Cardinality(Messages) \in Nat
  BY SendGatesAssumption, FS_CardinalityType
<1>2. ASSUME NEW S \in SUBSET Messages
      PROVE  /\ IsFiniteSet(S) /\ Cardinality(S) \in Nat /\ Cardinality(S) <= Cardinality(Messages)
             /\ \A T \in SUBSET S : Cardinality(T) <= Cardinality(S)
             /\ \A m \in Messages :
                  /\ Cardinality(S \union {m}) <= Cardinality(S) + 1
                  /\ m \in S => Cardinality(S \ {m}) = Cardinality(S) - 1
  <2>1. IsFiniteSet(S) /\ Cardinality(S) <= Cardinality(Messages)
    BY <1>1, FS_Subset
  <2>2. Cardinality(S) \in Nat
    BY <2>1, FS_CardinalityType
  <2>3. \A T \in SUBSET S : Cardinality(T) <= Cardinality(S)
    BY <2>1, FS_Subset
  <2>4. ASSUME NEW m \in Messages
        PROVE  /\ Cardinality(S \union {m}) <= Cardinality(S) + 1
               /\ m \in S => Cardinality(S \ {m}) = Cardinality(S) - 1
    <3>1. Cardinality(S \union {m}) = IF m \in S THEN Cardinality(S) ELSE Cardinality(S) + 1
      BY <2>1, FS_AddElement
    <3>2. m \in S => Cardinality(S \ {m}) = Cardinality(S) - 1
      BY <2>1, FS_RemoveElement
    <3> QED BY <2>2, <3>1, <3>2
  <2> QED BY <2>1, <2>2, <2>3, <2>4
<1> QED BY <1>1, <1>2

LEMMA EndOfTyped ==
    ASSUME seen \in Seen, NEW m
    PROVE  /\ EndOf(m) \in Seen
           /\ EndOf(m).handed = seen.handed /\ EndOf(m).today = seen.today
           /\ EndOf(m).carried = seen.carried \ {m} /\ EndOf(m).graced = seen.graced \ {m}
           /\ EndOf(m).forgotten = seen.forgotten /\ EndOf(m).peak = seen.peak
BY DEF EndOf, Seen

-----------------------------------------------------------------------------
LEMMA InitInv == Init => TypeInv /\ GateInv
<1> SUFFICES ASSUME Init PROVE TypeInv /\ GateInv
  OBVIOUS
<1> USE DEF Init, SeenInit
<1>1. Cardinality({}) = 0
  BY FS_EmptySet
<1>2. TypeOK
  BY SendGatesAssumption, FiniteMessages DEF TypeOK, Points
<1>3. LeasesBounded
  BY <1>1, SendGatesAssumption DEF LeasesBounded
<1>4. OnToday = {}
  BY DEF OnToday, At
<1>5. GateInv
  BY <1>1, <1>4 DEF GateInv, CounterCovers, PermissionKept
<1> QED BY <1>2, <1>3, <1>5 DEF TypeInv

-----------------------------------------------------------------------------
(* Type correctness, with the leases within the store's concurrency *)

LEMMA TypeStep == TypeInv /\ [Next]_vars => TypeInv'
<1> SUFFICES ASSUME TypeInv, [Next]_vars PROVE TypeInv'
  OBVIOUS
<1> USE DEF TypeInv, customer, rows, redis
<1>0. seen \in Seen
  BY DEF TypeOK, Seen
<1>a. ASSUME UNCHANGED <<leases, orphans>> PROVE LeasesBounded'
  BY <1>a DEF LeasesBounded
<1>b. ASSUME NEW m PROVE leases \ {m} \subseteq Messages /\ Cardinality(leases \ {m}) + orphans <= Concurrency
  <2>1. leases \subseteq Messages
    BY DEF TypeOK
  <2>2. Cardinality(leases \ {m}) <= Cardinality(leases) /\ Cardinality(leases \ {m}) \in Nat
    BY <2>1, FiniteMessages
  <2> QED BY <2>1, <2>2, FiniteMessages, SendGatesAssumption DEF LeasesBounded, TypeOK
<1>c. ASSUME NEW m \in Messages, NEW p \in Points, Goto(m, p)
      PROVE  job' \in [Messages -> [pc : Points, forced : BOOLEAN]]
  BY <1>c DEF Goto, TypeOK
<1>1. ASSUME NEW m \in Messages, Begin(m) PROVE TypeInv'
  <2>1. job' \in [Messages -> [pc : Points, forced : BOOLEAN]]
    BY <1>1, <1>c DEF Begin, Suppress, Points
  <2>2. log' \in [Messages -> {"queued", "sent", "suppressed", "failed"}]
        /\ UNCHANGED <<age, fatigue>> /\ seen' \in Seen
    BY <1>0, <1>1, EndOfTyped DEF Begin, Suppress, TypeOK
  <2> QED BY <1>a, <1>1, <2>1, <2>2 DEF Begin, TypeOK, Seen
<1>2. ASSUME NEW m \in Messages, CheckGovernor(m) PROVE TypeInv'
  <2>1. UNCHANGED <<night, customer, warmup, redis, mishaps, age, fatigue>>
    BY <1>2 DEF CheckGovernor, Pass, Postpone, Suppress
  <2>2. CASE Pass(m)
    <3> DEFINE n == Cardinality(InFlight(To[m]) \union {m})
    <3>1. InFlight(To[m]) \union {m} \subseteq Messages /\ To[m] \in Customers
      BY SendGatesAssumption DEF InFlight, MessagesTo
    <3>2. n \in 0 .. Cardinality(Messages)
      BY <3>1, FiniteMessages
    <3>3. seen' = [seen EXCEPT !.peak[To[m]] = IF n > @ THEN n ELSE @]
      BY <2>2 DEF Pass
    <3>4. seen' \in Seen
      BY <1>0, <3>1, <3>2, <3>3 DEF Seen
    <3>5. job' \in [Messages -> [pc : Points, forced : BOOLEAN]] /\ UNCHANGED log
      BY <1>c, <2>2 DEF Pass, Points
    <3> QED BY <1>a, <2>1, <3>4, <3>5 DEF TypeOK, Seen
  <2>3. CASE Postpone(m)
    <3>1. job' \in [Messages -> [pc : Points, forced : BOOLEAN]] /\ UNCHANGED log /\ seen' \in Seen
      BY <1>0, <2>3, EndOfTyped DEF Postpone, Points, TypeOK
    <3> QED BY <1>a, <2>1, <3>1 DEF TypeOK, Seen
  <2>4. CASE Suppress(m)
    <3>1. job' \in [Messages -> [pc : Points, forced : BOOLEAN]]
      BY <1>c, <2>4 DEF Suppress, Points
    <3>2. log' \in [Messages -> {"queued", "sent", "suppressed", "failed"}] /\ seen' \in Seen
      BY <1>0, <2>4, EndOfTyped DEF Suppress, TypeOK
    <3> QED BY <1>a, <2>1, <3>1, <3>2 DEF TypeOK, Seen
  <2> QED BY <1>2, <2>2, <2>3, <2>4 DEF CheckGovernor
<1>3. ASSUME NEW m \in Messages, Acquire(m) PROVE TypeInv'
  <2>1. CASE (Postpone(m) \/ Pace(m)) /\ UNCHANGED <<night, customer, warmup, redis>>
    <3>1. job' \in [Messages -> [pc : Points, forced : BOOLEAN]]
      <4>1. CASE Postpone(m)
        BY <4>1 DEF Postpone, Points, TypeOK
      <4>2. CASE Pace(m)
        BY <1>c, <4>2 DEF Pace, Points
      <4> QED BY <2>1, <4>1, <4>2
    <3>2. UNCHANGED rows /\ seen' \in Seen
      BY <1>0, <2>1, EndOfTyped DEF Postpone, Pace
    <3>3. mishaps' \in 0 .. MaxMishaps
      BY <1>3, SendGatesAssumption DEF Acquire, Mishap, TypeOK
    <3> QED BY <1>a, <2>1, <3>1, <3>2, <3>3 DEF TypeOK, Seen
  <2>2. CASE /\ ~AtCap /\ ~Busy
             /\ daily' = daily + 1 /\ leases' = leases \union {m}
             /\ Goto(m, "sending")
             /\ UNCHANGED <<night, customer, warmup, rows, orphans, seen, mishaps>>
    <3>1. job' \in [Messages -> [pc : Points, forced : BOOLEAN]]
      BY <1>c, <2>2 DEF Points
    <3>2. daily' \in 0 .. DailyCap
      BY <2>2, SendGatesAssumption DEF AtCap, TypeOK
    <3>3. leases \subseteq Messages /\ leases' \subseteq Messages
      BY <2>2 DEF TypeOK
    <3>4. Cardinality(leases) \in Nat /\ Cardinality(leases') \in Nat
          /\ Cardinality(leases') <= Cardinality(leases) + 1
      BY <2>2, <3>3, FiniteMessages
    <3>5. LeasesBounded'
      BY <2>2, <3>4, SendGatesAssumption DEF Busy, LeasesBounded, TypeOK
    <3> QED BY <2>2, <3>1, <3>2, <3>3, <3>5 DEF TypeOK
  <2> QED BY <1>3, <2>1, <2>2 DEF Acquire
<1>4. ASSUME NEW m \in Messages, HandOver(m) PROVE TypeInv'
  <2>1. job' \in [Messages -> [pc : Points, forced : BOOLEAN]]
    BY <1>4, <1>c DEF HandOver, Points
  <2>2. seen' \in Seen
    BY <1>0, <1>4 DEF HandOver, Seen
  <2> QED BY <1>a, <1>4, <2>1, <2>2 DEF HandOver, TypeOK, Seen
<1>5. ASSUME NEW m \in Messages, Refused(m) PROVE TypeInv'
  <2>1. job' \in [Messages -> [pc : Points, forced : BOOLEAN]]
    BY <1>5, <1>c DEF Refused, Points
  <2>2. log' \in [Messages -> {"queued", "sent", "suppressed", "failed"}] /\ seen' \in Seen
    BY <1>0, <1>5, EndOfTyped DEF Refused, TypeOK
  <2>3. mishaps' \in 0 .. MaxMishaps
    BY <1>5, SendGatesAssumption DEF Refused, Mishap, TypeOK
  <2>4. leases' \subseteq Messages /\ LeasesBounded'
    BY <1>5, <1>b DEF Refused, Released, LeasesBounded
  <2> QED BY <1>5, <2>1, <2>2, <2>3, <2>4 DEF Refused, TypeOK, Seen
<1>6. ASSUME NEW m \in Messages, Release(m) PROVE TypeInv'
  <2>1. job' \in [Messages -> [pc : Points, forced : BOOLEAN]]
    BY <1>6, <1>c DEF Release, Points
  <2>2. leases' \subseteq Messages /\ LeasesBounded'
    BY <1>6, <1>b DEF Release, Released, LeasesBounded
  <2> QED BY <1>6, <2>1, <2>2 DEF Release, TypeOK
<1>7. ASSUME NEW m \in Messages, RecordSent(m) PROVE TypeInv'
  <2>1. job' \in [Messages -> [pc : Points, forced : BOOLEAN]]
    BY <1>7, <1>c DEF RecordSent, Points
  <2>2. log' \in [Messages -> {"queued", "sent", "suppressed", "failed"}]
    BY <1>7 DEF RecordSent, TypeOK
  <2>3. age' \in [Messages -> 0 .. Oldest]
    BY <1>7, SendGatesAssumption DEF RecordSent, TypeOK
  <2>4. UNCHANGED <<night, customer, warmup, fatigue, redis, seen, mishaps>>
    BY <1>7 DEF RecordSent
  <2> QED BY <1>a, <2>1, <2>2, <2>3, <2>4 DEF TypeOK
<1>8. ASSUME NEW m \in Messages, RecordFatigue(m) PROVE TypeInv'
  <2>1. job' \in [Messages -> [pc : Points, forced : BOOLEAN]]
    BY <1>8, <1>c DEF RecordFatigue, Points
  <2>2. seen' \in Seen
    BY <1>0, <1>8, EndOfTyped DEF RecordFatigue
  <2> QED BY <1>8, <1>a, <2>1, <2>2 DEF RecordFatigue, TypeOK, Seen
<1>9. ASSUME NEW m \in Messages, Die(m) PROVE TypeInv'
  <2>1. job' \in [Messages -> [pc : Points, forced : BOOLEAN]]
    BY <1>9, <1>c DEF Die, Points
  <2>2. seen' \in Seen
    <3>1. EndOf(m) \in Seen
      BY <1>0, EndOfTyped
    <3>2. CASE job[m].pc \in {"answered", "recording", "remembering"}
      <4>1. seen' = [EndOf(m) EXCEPT !.forgotten = @ \union {m}]
        BY <1>9, <3>2 DEF Die
      <4> QED BY <3>1, <4>1 DEF Seen
    <3>3. CASE job[m].pc \notin {"answered", "recording", "remembering"}
      <4>1. seen' = [EndOf(m) EXCEPT !.forgotten = @]
        BY <1>9, <3>3 DEF Die
      <4> QED BY <3>1, <4>1 DEF Seen
    <3> QED BY <3>2, <3>3
  <2>3. mishaps' \in 0 .. MaxMishaps
    BY <1>9, SendGatesAssumption DEF Die, Mishap, TypeOK
  <2>4. leases' \subseteq Messages /\ LeasesBounded' /\ orphans' \in 0 .. Concurrency
    <3>1. leases \subseteq Messages /\ Cardinality(leases) \in Nat /\ leases' = leases \ {m}
      BY <1>9, FiniteMessages DEF Die, TypeOK
    <3>2. CASE m \in leases
      <4>1. Cardinality(leases') = Cardinality(leases) - 1 /\ orphans' = orphans + 1
        BY <1>9, <3>1, <3>2, FiniteMessages DEF Die
      <4>2. Cardinality(leases') \in Nat
        BY <3>1, FiniteMessages
      <4> QED BY <3>1, <4>1, <4>2, SendGatesAssumption DEF LeasesBounded, TypeOK
    <3>3. CASE m \notin leases
      BY <1>9, <1>b, <3>1, <3>3 DEF Die, LeasesBounded, TypeOK
    <3> QED BY <3>2, <3>3
  <2> QED BY <1>9, <2>1, <2>2, <2>3, <2>4 DEF Die, TypeOK, Seen
<1>10. ASSUME NEW m \in Messages, LeaseExpires(m) PROVE TypeInv'
  <2>1. mishaps' \in 0 .. MaxMishaps
    BY <1>10, SendGatesAssumption DEF LeaseExpires, Mishap, TypeOK
  <2>2. leases' \subseteq Messages /\ LeasesBounded'
    BY <1>10, <1>b DEF LeaseExpires, LeasesBounded
  <2> QED BY <1>10, <2>1, <2>2 DEF LeaseExpires, TypeOK
<1>11. ASSUME OrphanExpires PROVE TypeInv'
  <2>1. orphans' = orphans - 1 /\ orphans' \in 0 .. Concurrency /\ UNCHANGED leases
    BY <1>11, SendGatesAssumption DEF OrphanExpires, TypeOK
  <2>2. LeasesBounded'
    BY <2>1, FiniteMessages, SendGatesAssumption DEF LeasesBounded, TypeOK
  <2> QED BY <1>11, <2>1, <2>2 DEF OrphanExpires, TypeOK
<1>12. ASSUME NEW c \in Customers, OptOut(c) PROVE TypeInv'
  <2>1. mishaps' \in 0 .. MaxMishaps
    BY <1>12, SendGatesAssumption DEF OptOut, Mishap, TypeOK
  <2>2. seen' \in Seen
    BY <1>0, <1>12 DEF OptOut, Seen, MessagesTo
  <2> QED BY <1>12, <1>a, <2>1, <2>2 DEF OptOut, TypeOK, Seen
<1>13. ASSUME NEW c \in Customers, OpenIssue(c) \/ ResolveIssue(c) PROVE TypeInv'
  <2>1. mishaps' \in 0 .. MaxMishaps
    BY <1>13, SendGatesAssumption DEF OpenIssue, ResolveIssue, Mishap, TypeOK
  <2> QED BY <1>13, <1>a, <2>1 DEF OpenIssue, ResolveIssue, TypeOK
<1>14. ASSUME HoldOrPause \/ Lift PROVE TypeInv'
  <2>1. mishaps' \in 0 .. MaxMishaps
    BY <1>14, SendGatesAssumption DEF HoldOrPause, Lift, Mishap, TypeOK
  <2> QED BY <1>14, <1>a, <2>1 DEF HoldOrPause, Lift, TypeOK
<1>15. ASSUME Nightfall PROVE TypeInv'
  <2>1. mishaps' \in 0 .. MaxMishaps
    BY <1>15, SendGatesAssumption DEF Nightfall, Mishap, TypeOK
  <2> QED BY <1>15, <1>a, <2>1 DEF Nightfall, TypeOK
<1>16. ASSUME Daybreak PROVE TypeInv'
  <2>1. job' \in [Messages -> [pc : Points, forced : BOOLEAN]]
    BY <1>16 DEF Daybreak, Points, TypeOK
  <2>2. age' \in [Messages -> 0 .. Oldest]
    BY <1>16, SendGatesAssumption DEF Daybreak, TypeOK
  <2>3. seen' \in Seen
    BY <1>0, <1>16 DEF Daybreak, Seen
  <2>4. daily' \in 0 .. DailyCap
    BY <1>16, SendGatesAssumption DEF Daybreak
  <2> QED BY <1>16, <1>a, <2>1, <2>2, <2>3, <2>4 DEF Daybreak, TypeOK, Seen
<1>17. CASE UNCHANGED vars
  BY <1>17 DEF vars, TypeOK, LeasesBounded
<1> QED BY <1>1, <1>2, <1>3, <1>4, <1>5, <1>6, <1>7, <1>8, <1>9, <1>10, <1>11, <1>12, <1>13, <1>14,
           <1>15, <1>16, <1>17 DEF Next, Deliver

-----------------------------------------------------------------------------
(* The day's counter and the opt-outs *)

(* What an action on m leaves of the others.                                *)
Apart(m) ==
    /\ \A x \in Messages \ {m} : job'[x] = job[x]
    /\ \A x \in Messages \ {m} : x \in seen'.graced <=> x \in seen.graced
    /\ \A x \in Messages \ {m} : x \in seen'.carried <=> x \in seen.carried
    /\ optedOut' = optedOut

(* Unless m is sent or is about to be, no more is charged to the day.       *)
LEMMA NotCharged ==
    ASSUME TypeInv, GateInv, NEW m \in Messages, Apart(m), seen'.today = seen.today, daily' = daily,
           job'[m].pc # "sending"
    PROVE  CounterCovers'
<1>1. OnToday' \subseteq OnToday /\ OnToday \subseteq Messages
  BY DEF OnToday, Apart, At, TypeInv, TypeOK
<1>2. Cardinality(OnToday') <= Cardinality(OnToday) /\ Cardinality(OnToday) \in Nat
      /\ Cardinality(OnToday') \in Nat
  BY <1>1, FiniteMessages
<1> QED BY <1>2 DEF GateInv, CounterCovers, TypeInv, TypeOK

(* An execution that ends, or goes on without a new right, is no exception. *)
LEMMA NotExcepted ==
    ASSUME GateInv, NEW m \in Messages, Apart(m),
           \/ job'[m].pc \in Waiting
           \/ Running(m) /\ (m \in seen.graced => m \in seen'.graced)
    PROVE  PermissionKept'
BY DEF GateInv, PermissionKept, Apart, Running

LEMMA GateStep == TypeInv /\ GateInv /\ [Next]_vars => GateInv'
<1> SUFFICES ASSUME TypeInv, GateInv, [Next]_vars PROVE GateInv'
  OBVIOUS
<1> USE DEF customer, rows, redis
<1>0. seen \in Seen /\ job \in [Messages -> [pc : Points, forced : BOOLEAN]]
  BY DEF TypeInv, TypeOK, Seen
<1>a. ASSUME NEW m \in Messages, NEW p, Goto(m, p), UNCHANGED optedOut, seen' \in {seen, EndOf(m)}
      PROVE  Apart(m) /\ job'[m].pc = p /\ seen'.today = seen.today
  BY <1>0, <1>a, EndOfTyped DEF Goto, Apart
<1>b. ASSUME NEW m \in Messages, Suppress(m) \/ Postpone(m) \/ Pace(m), UNCHANGED <<optedOut, redis>>
      PROVE  GateInv'
  <2>1. Apart(m) /\ job'[m].pc \in Waiting /\ seen'.today = seen.today
    BY <1>0, <1>a, <1>b, EndOfTyped DEF Suppress, Postpone, Pace, Waiting, Apart
  <2> QED BY <1>b, <2>1, NotCharged, NotExcepted DEF Waiting, GateInv
<1>1. ASSUME NEW m \in Messages, Begin(m) PROVE GateInv'
  <2>1. CASE Suppress(m)
    BY <1>1, <1>b, <2>1 DEF Begin
  <2>2. CASE (Goto(m, "done") \/ (To[m] \notin optedOut /\ Goto(m, "governor"))) /\ UNCHANGED seen
    <3>1. Apart(m) /\ job'[m].pc \in {"done", "governor"}
      BY <1>1, <1>a, <2>2 DEF Begin
    <3>2. UNCHANGED <<optedOut, daily>>
      BY <1>1 DEF Begin
    <3>3. CounterCovers'
      BY <2>2, <3>1, <3>2, NotCharged
    <3>4. job'[m].pc = "done" \/ To[m] \notin optedOut
      BY <1>a, <2>2, <3>2
    <3>5. PermissionKept'
      BY <2>2, <3>1, <3>2, <3>4 DEF GateInv, PermissionKept, Apart, Running, Waiting
    <3> QED BY <3>3, <3>5 DEF GateInv
  <2> QED BY <1>1, <2>1, <2>2 DEF Begin
<1>2. ASSUME NEW m \in Messages, CheckGovernor(m) PROVE GateInv'
  <2>1. UNCHANGED <<optedOut, redis>> /\ job[m].pc = "governor"
    BY <1>2 DEF CheckGovernor, At
  <2>2. CASE Pass(m)
    <3>1. Apart(m) /\ job'[m].pc = "capacity" /\ seen'.today = seen.today /\ seen'.graced = seen.graced
      BY <1>0, <2>1, <2>2 DEF Pass, Goto, Apart, Seen
    <3> QED BY <2>1, <3>1, NotCharged, NotExcepted DEF GateInv, Running, Waiting
  <2> QED BY <1>2, <1>b, <2>1, <2>2 DEF CheckGovernor
<1>3. ASSUME NEW m \in Messages, Acquire(m) PROVE GateInv'
  <2>1. CASE (Postpone(m) \/ Pace(m)) /\ UNCHANGED redis
    BY <1>3, <1>b, <2>1 DEF Acquire
  <2>2. CASE daily' = daily + 1 /\ Goto(m, "sending") /\ UNCHANGED seen
    <3>1. Apart(m) /\ job[m].pc = "capacity"
      BY <1>3, <1>a, <2>2 DEF Acquire, At
    <3>2. OnToday' \subseteq OnToday \union {m} /\ OnToday \subseteq Messages
      BY <2>2, <3>1 DEF OnToday, Apart, At, TypeInv, TypeOK
    <3>3. /\ Cardinality(OnToday') <= Cardinality(OnToday \union {m})
          /\ Cardinality(OnToday \union {m}) <= Cardinality(OnToday) + 1
          /\ Cardinality(OnToday) \in Nat /\ Cardinality(OnToday \union {m}) \in Nat
          /\ Cardinality(OnToday') \in Nat
      <4>1. OnToday \union {m} \in SUBSET Messages
        BY <3>2
      <4>2. OnToday' \in SUBSET Messages
        BY <3>2, <4>1
      <4> QED BY <3>2, <4>1, <4>2, FiniteMessages
    <3>4. CounterCovers'
      BY <2>2, <3>3 DEF GateInv, CounterCovers, TypeInv, TypeOK
    <3>5. PermissionKept'
      BY <2>2, <3>1, NotExcepted DEF Running, Waiting
    <3> QED BY <3>4, <3>5 DEF GateInv
  <2> QED BY <1>3, <2>1, <2>2 DEF Acquire
<1>4. ASSUME NEW m \in Messages, HandOver(m) PROVE GateInv'
  <2>1. /\ job[m].pc = "sending" /\ job'[m].pc = "answered" /\ \A x \in Messages \ {m} : job'[x] = job[x]
        /\ seen'.today = IF m \in seen.carried THEN seen.today ELSE seen.today \union {m}
        /\ seen'.carried = seen.carried /\ seen'.graced = seen.graced
        /\ UNCHANGED <<optedOut, daily>>
    BY <1>0, <1>4 DEF HandOver, At, Goto, Seen
  <2>2. OnToday' = OnToday
    <3>1. CASE m \in seen.carried
      BY <2>1, <3>1 DEF OnToday, At
    <3>2. CASE m \notin seen.carried
      BY <2>1, <3>2 DEF OnToday, At
    <3> QED BY <3>1, <3>2
  <2>3. Apart(m)
    BY <2>1 DEF Apart
  <2>4. PermissionKept'
    BY <2>1, <2>3, NotExcepted DEF Running, Waiting
  <2> QED BY <2>1, <2>2, <2>4 DEF GateInv, CounterCovers
<1>5. ASSUME NEW m \in Messages, Refused(m) PROVE GateInv'
  <2>1. Apart(m) /\ job'[m].pc \in {"waiting", "done"} /\ seen'.today = seen.today
    BY <1>5, <1>a DEF Refused
  <2> QED BY <1>5, <2>1, NotCharged, NotExcepted DEF Refused, GateInv, Waiting
<1>6. ASSUME NEW m \in Messages, Release(m) \/ RecordSent(m) PROVE GateInv'
  <2>1. Apart(m) /\ job'[m].pc \in {"recording", "remembering"} /\ UNCHANGED <<seen, daily>>
    BY <1>6, <1>a DEF Release, RecordSent
  <2>2. Running(m)
    BY <1>6 DEF Release, RecordSent, At, Running, Waiting
  <2> QED BY <2>1, <2>2, NotCharged, NotExcepted DEF GateInv
<1>7. ASSUME NEW m \in Messages, RecordFatigue(m) PROVE GateInv'
  <2>1. Apart(m) /\ job'[m].pc = "done" /\ seen'.today = seen.today
    BY <1>7, <1>a DEF RecordFatigue
  <2> QED BY <1>7, <2>1, NotCharged, NotExcepted DEF RecordFatigue, GateInv, Waiting
<1>8. ASSUME NEW m \in Messages, Die(m) PROVE GateInv'
  <2>1. /\ seen'.today = EndOf(m).today /\ seen'.carried = EndOf(m).carried
        /\ seen'.graced = EndOf(m).graced
    BY <1>0, <1>8, EndOfTyped DEF Die, Seen
  <2>2. Apart(m) /\ job'[m].pc = "waiting" /\ seen'.today = seen.today
    BY <1>0, <1>8, <2>1, EndOfTyped DEF Die, Goto, Apart
  <2> QED BY <1>8, <2>2, NotCharged, NotExcepted DEF Die, GateInv, Waiting
<1>9. ASSUME UNCHANGED <<job, seen, optedOut, daily>> PROVE GateInv'
  BY <1>9 DEF GateInv, CounterCovers, OnToday, PermissionKept, Running, At
<1>10. ASSUME NEW c \in Customers, OptOut(c) PROVE GateInv'
  <2>1. /\ UNCHANGED <<job, daily>> /\ optedOut' = optedOut \union {c}
        /\ seen'.graced = seen.graced \union {m \in MessagesTo(c) : Running(m)}
        /\ seen'.today = seen.today /\ seen'.carried = seen.carried
    BY <1>0, <1>10 DEF OptOut, Seen
  <2>2. CounterCovers'
    BY <2>1 DEF GateInv, CounterCovers, OnToday, At
  <2>3. PermissionKept'
    BY <2>1 DEF GateInv, PermissionKept, Running, MessagesTo
  <2> QED BY <2>2, <2>3 DEF GateInv
<1>11. ASSUME Daybreak PROVE GateInv'
  <2>1. /\ seen'.graced = seen.graced /\ seen'.today = {} /\ UNCHANGED optedOut
        /\ seen'.carried = {m \in Messages : job[m].pc \in {"sending", "answered"}} /\ daily' = 0
    BY <1>0, <1>11 DEF Daybreak, Seen
  <2>2. \A m \in Messages : job'[m].pc = IF job[m].pc = "tomorrow" THEN "waiting" ELSE job[m].pc
    BY <1>0, <1>11 DEF Daybreak, At
  <2>3. OnToday' = {}
    BY <2>1, <2>2 DEF OnToday, At
  <2>4. CounterCovers'
    BY <2>1, <2>3, FS_EmptySet DEF CounterCovers
  <2>5. PermissionKept'
    BY <2>1, <2>2 DEF GateInv, PermissionKept, Running, Waiting
  <2> QED BY <2>4, <2>5 DEF GateInv
<1>12. ASSUME \/ \E m \in Messages : LeaseExpires(m)
              \/ \E c \in Customers : OpenIssue(c) \/ ResolveIssue(c)
              \/ OrphanExpires \/ HoldOrPause \/ Lift \/ Nightfall \/ UNCHANGED vars
       PROVE  UNCHANGED <<job, seen, optedOut, daily>>
  BY <1>12 DEF LeaseExpires, OpenIssue, ResolveIssue, OrphanExpires, HoldOrPause, Lift, Nightfall, vars
<1> QED BY <1>1, <1>2, <1>3, <1>4, <1>5, <1>6, <1>7, <1>8, <1>9, <1>10, <1>11, <1>12 DEF Next, Deliver

-----------------------------------------------------------------------------
(* The overshoot of the governor's rules *)

Underway == {"capacity", "sending", "answered", "recording", "remembering"}

(* A message handed over is on its way to its fatigue row and its sent      *)
(* status, has them, or its worker died first.                              *)
HandedIsKnown ==
    \A m \in seen.handed \ seen.forgotten :
        \/ At(m, "answered") \/ At(m, "recording")
        \/ At(m, "remembering") /\ log[m] = "sent"
        \/ At(m, "done") /\ log[m] = "sent" /\ m \in fatigue

(* What a fatigue limit, and the rule of the gap, count or will count.      *)
Tired(c, l) ==
    {m \in MessagesTo(c) \ Overriding : (m \in fatigue /\ age[m] < l.days) \/ job[m].pc \in Underway}
Recent(c) ==
    {m \in MessagesTo(c) \ Overriding : (log[m] = "sent" /\ age[m] < Gap) \/ job[m].pc \in Underway}

(* It was within the limit when the last of them passed, but for those that *)
(* were under way with it.                                                  *)
Within(S, max, peak) == S = {} \/ Cardinality(S) + 1 <= max + peak

CountsWithin ==
    \A c \in Customers :
        /\ \A l \in Limits : Within(Tired(c, l), l.max, seen.peak[c])
        /\ Within(Recent(c), 1, seen.peak[c])

GovernorInv == HandedIsKnown /\ CountsWithin

LEMMA FewerWithin ==
    ASSUME NEW S \in SUBSET Messages, NEW T \in SUBSET S, NEW max \in Nat,
           NEW p \in Nat, NEW q \in Nat, p <= q, Within(S, max, p)
    PROVE  Within(T, max, q)
<1>1. Cardinality(T) <= Cardinality(S) /\ Cardinality(S) \in Nat /\ Cardinality(T) \in Nat
  <2>1. T \in SUBSET Messages
    OBVIOUS
  <2> QED BY <2>1, FiniteMessages
<1>2. CASE S = {}
  BY <1>2 DEF Within
<1>3. CASE Cardinality(S) + 1 <= max + p
  BY <1>1, <1>3 DEF Within
<1> QED BY <1>2, <1>3 DEF Within

(* No message joins those that count, unless it counted already.            *)
NoneJoins ==
    /\ \A m \in Messages \ Overriding :
         /\ job'[m].pc \in Underway => job[m].pc \in Underway
         /\ m \in fatigue' => m \in fatigue \/ job[m].pc \in Underway
         /\ log'[m] = "sent" => log[m] = "sent" \/ job[m].pc \in Underway
         /\ age[m] <= age'[m] \/ job[m].pc \in Underway
    /\ seen'.peak = seen.peak

LEMMA FewerCount ==
    ASSUME TypeInv, TypeInv', CountsWithin, NoneJoins
    PROVE  CountsWithin'
<1> SUFFICES ASSUME NEW c \in Customers
             PROVE  /\ \A l \in Limits : Within(Tired(c, l)', l.max, seen'.peak[c])
                    /\ Within(Recent(c)', 1, seen'.peak[c])
  BY DEF CountsWithin
<1>1. /\ seen.peak[c] \in Nat /\ seen'.peak[c] = seen.peak[c]
  BY FiniteMessages DEF NoneJoins, TypeInv, TypeOK
<1>2. /\ \A m \in Messages : age[m] \in Nat /\ age'[m] \in Nat
      /\ Gap \in Nat /\ \A l \in Limits : l.days \in Nat /\ l.max \in Nat
  BY SendGatesAssumption DEF TypeInv, TypeOK
<1>3. ASSUME NEW l \in Limits PROVE Within(Tired(c, l)', l.max, seen'.peak[c])
  <2>1. Tired(c, l)' \subseteq Tired(c, l) /\ Tired(c, l) \in SUBSET Messages
    BY <1>2 DEF NoneJoins, Tired, MessagesTo
  <2>2. Within(Tired(c, l), l.max, seen.peak[c])
    BY DEF CountsWithin
  <2> QED BY <1>1, <1>2, <2>1, <2>2, FewerWithin
<1>4. Within(Recent(c)', 1, seen'.peak[c])
  <2>1. Recent(c)' \subseteq Recent(c) /\ Recent(c) \in SUBSET Messages
    BY <1>2 DEF NoneJoins, Recent, MessagesTo
  <2>2. Within(Recent(c), 1, seen.peak[c])
    BY DEF CountsWithin
  <2> QED BY <1>1, <2>1, <2>2, FewerWithin
<1> QED BY <1>3, <1>4

(* Counting those under way with m, when the rule had counted fewer than    *)
(* its maximum.                                                             *)
LEMMA PassedWithin ==
    ASSUME NEW F \in SUBSET Messages, NEW I \in SUBSET Messages, NEW S \in SUBSET (F \union I),
           NEW max \in Nat, NEW p \in Nat, Cardinality(F) < max, Cardinality(I) <= p
    PROVE  Within(S, max, p)
<1>1. IsFiniteSet(F) /\ IsFiniteSet(I) /\ F \union I \in SUBSET Messages /\ F \intersect I \in SUBSET Messages
  BY FiniteMessages
<1>2. Cardinality(F \union I) = Cardinality(F) + Cardinality(I) - Cardinality(F \intersect I)
  BY <1>1, FS_Union
<1>3. /\ Cardinality(F) \in Nat /\ Cardinality(I) \in Nat /\ Cardinality(F \intersect I) \in Nat
      /\ Cardinality(S) <= Cardinality(F \union I) /\ Cardinality(F \union I) \in Nat
  BY <1>1, FiniteMessages
<1>4. Cardinality(S) \in Nat
  <2>1. S \in SUBSET Messages
    BY <1>1
  <2> QED BY <2>1, FiniteMessages
<1> QED BY <1>2, <1>3, <1>4 DEF Within

LEMMA PassCounts ==
    ASSUME TypeInv, TypeInv', CountsWithin, NEW m \in Messages, CheckGovernor(m), Pass(m)
    PROVE  CountsWithin'
<1> SUFFICES ASSUME NEW c \in Customers
             PROVE  /\ \A l \in Limits : Within(Tired(c, l)', l.max, seen'.peak[c])
                    /\ Within(Recent(c)', 1, seen'.peak[c])
  BY DEF CountsWithin
<1> DEFINE n == Cardinality(InFlight(To[m]) \union {m})
<1>0. /\ InFlight(To[m]) \union {m} \in SUBSET Messages /\ n \in Nat /\ To[m] \in Customers
      /\ seen.peak \in [Customers -> Nat]
  <2>1. InFlight(To[m]) \union {m} \in SUBSET Messages /\ To[m] \in Customers
    BY SendGatesAssumption DEF InFlight, MessagesTo
  <2> QED BY <2>1, FiniteMessages DEF TypeInv, TypeOK
<1>1. /\ UNCHANGED rows
      /\ seen'.peak = [seen.peak EXCEPT ![To[m]] = IF n > @ THEN n ELSE @]
      /\ \A x \in Messages \ {m} : job'[x] = job[x]
      /\ job'[m].pc = "capacity"
  BY DEF Pass, Goto, TypeInv, TypeOK
<1>2. seen.peak[c] \in Nat /\ seen'.peak[c] \in Nat /\ seen.peak[c] <= seen'.peak[c]
  <2>1. CASE c = To[m] /\ n > seen.peak[c]
    BY <1>0, <1>1, <2>1
  <2>2. CASE c # To[m] \/ ~(n > seen.peak[c])
    BY <1>0, <1>1, <2>2
  <2> QED BY <2>1, <2>2
<1>3. ASSUME NEW l \in Limits
      PROVE  l.max \in Nat /\ Tired(c, l) \in SUBSET Messages /\ Within(Tired(c, l), l.max, seen.peak[c])
  BY SendGatesAssumption DEF Tired, MessagesTo, CountsWithin
<1>4. Recent(c) \in SUBSET Messages /\ Within(Recent(c), 1, seen.peak[c])
  BY DEF Recent, MessagesTo, CountsWithin
<1>5. CASE c # To[m] \/ m \in Overriding
  <2>1. ASSUME NEW l \in Limits PROVE Tired(c, l)' = Tired(c, l)
    BY <1>1, <1>5 DEF Tired, MessagesTo, rows
  <2>2. Recent(c)' = Recent(c)
    BY <1>1, <1>5 DEF Recent, MessagesTo, rows
  <2>3. ASSUME NEW l \in Limits PROVE Within(Tired(c, l)', l.max, seen'.peak[c])
    BY <1>2, <1>3, <2>1, FewerWithin
  <2>4. Within(Recent(c)', 1, seen'.peak[c])
    BY <1>2, <1>4, <2>2, FewerWithin
  <2> QED BY <2>3, <2>4
<1>6. CASE c = To[m] /\ m \notin Overriding
  <2>1. Rule(c) \in {"none", "quiet_hours"}
    BY <1>6, <1>1 DEF CheckGovernor, Overridden, Postpone, Suppress, Goto, Pass, TypeInv, TypeOK
  <2>2. (\A l \in Limits : ~Fatigued(c, l)) /\ ~Collides(c)
    BY <2>1 DEF Rule
  <2>3. n <= seen'.peak[c]
    BY <1>0, <1>1, <1>6
  <2>4. ASSUME NEW l \in Limits PROVE Within(Tired(c, l)', l.max, seen'.peak[c])
    <3> DEFINE F == {x \in fatigue \intersect MessagesTo(c) : age[x] < l.days}
    <3>1. F \in SUBSET Messages
      BY DEF MessagesTo
    <3>2. Cardinality(F) < l.max
      BY <1>3, <2>2, <3>1, FiniteMessages DEF Fatigued
    <3>3. Tired(c, l)' \in SUBSET (F \union (InFlight(To[m]) \union {m}))
      BY <1>1, <1>6 DEF Tired, MessagesTo, InFlight, Underway, rows
    <3> HIDE DEF F
    <3> QED BY <1>0, <1>2, <1>3, <2>3, <3>1, <3>2, <3>3, PassedWithin
  <2>5. Within(Recent(c)', 1, seen'.peak[c])
    <3>1. Recent(c)' \in SUBSET ({} \union (InFlight(To[m]) \union {m}))
      BY <1>1, <1>6, <2>2 DEF Recent, MessagesTo, InFlight, Underway, Collides, rows
    <3>2. Cardinality({}) = 0 /\ {} \in SUBSET Messages
      BY FS_EmptySet
    <3> QED BY <1>0, <1>2, <2>3, <3>1, <3>2, PassedWithin
  <2> QED BY <2>4, <2>5
<1> QED BY <1>5, <1>6

LEMMA GovernorStep == TypeInv /\ TypeInv' /\ GovernorInv /\ [Next]_vars => GovernorInv'
<1> SUFFICES ASSUME TypeInv, TypeInv', GovernorInv, [Next]_vars PROVE GovernorInv'
  OBVIOUS
<1> USE DEF GovernorInv, customer, rows, redis
<1>0. /\ seen \in Seen /\ job \in [Messages -> [pc : Points, forced : BOOLEAN]]
      /\ log \in [Messages -> {"queued", "sent", "suppressed", "failed"}]
      /\ age \in [Messages -> Nat] /\ fatigue \subseteq Messages
      /\ \A m \in Messages : age[m] <= age[m]
  BY SendGatesAssumption DEF TypeInv, TypeOK, Seen
<1>a. ASSUME NEW m \in Messages, NEW p, Goto(m, p)
      PROVE  job'[m].pc = p /\ \A x \in Messages \ {m} : job'[x] = job[x]
  BY <1>0, <1>a DEF Goto
(* An execution ends or starts over with no row but its log changed.        *)
<1>b. ASSUME NEW m \in Messages, job'[m].pc \notin Underway, \A x \in Messages \ {m} : job'[x] = job[x],
             UNCHANGED <<age, fatigue>>, log'[m] \in {log[m], "failed", "suppressed"},
             \A x \in Messages \ {m} : log'[x] = log[x], seen' \in {seen, EndOf(m)},
             job[m].pc \in {"waiting", "governor", "capacity", "sending"}
      PROVE  GovernorInv'
  <2>1. seen'.handed = seen.handed /\ seen'.forgotten = seen.forgotten /\ seen'.peak = seen.peak
    BY <1>0, <1>b, EndOfTyped
  <2>2. HandedIsKnown'
    BY <1>0, <1>b, <2>1 DEF HandedIsKnown, At, Seen
  <2>3. NoneJoins
    BY <1>0, <1>b, <2>1 DEF NoneJoins
  <2> QED BY <2>2, <2>3, FewerCount
<1>1. ASSUME NEW m \in Messages, Begin(m) PROVE GovernorInv'
  <2>1. job[m].pc = "waiting" /\ job'[m].pc \in {"done", "governor"}
        /\ \A x \in Messages \ {m} : job'[x] = job[x]
    BY <1>1, <1>a DEF Begin, Suppress, At
  <2>2. /\ UNCHANGED <<age, fatigue>> /\ seen' \in {seen, EndOf(m)}
        /\ log'[m] \in {log[m], "suppressed"} /\ \A x \in Messages \ {m} : log'[x] = log[x]
    BY <1>0, <1>1 DEF Begin, Suppress
  <2> QED BY <1>b, <2>1, <2>2 DEF Underway
<1>2. ASSUME NEW m \in Messages, CheckGovernor(m) PROVE GovernorInv'
  <2>1. job[m].pc = "governor"
    BY <1>2 DEF CheckGovernor, At
  <2>2. CASE Pass(m)
    <3>1. /\ seen'.handed = seen.handed /\ seen'.forgotten = seen.forgotten
          /\ UNCHANGED rows /\ \A x \in Messages \ {m} : job'[x] = job[x]
      BY <1>0, <1>a, <2>2 DEF Pass, Seen
    <3>2. HandedIsKnown'
      BY <1>0, <2>1, <3>1 DEF HandedIsKnown, At, Seen
    <3> QED BY <1>2, <2>2, <3>2, PassCounts
  <2>3. CASE Postpone(m) \/ Suppress(m)
    <3>1. job'[m].pc \in {"tomorrow", "done"} /\ \A x \in Messages \ {m} : job'[x] = job[x]
      BY <1>0, <1>a, <2>3 DEF Postpone, Suppress
    <3>2. /\ UNCHANGED <<age, fatigue>> /\ seen' \in {seen, EndOf(m)}
          /\ log'[m] \in {log[m], "suppressed"} /\ \A x \in Messages \ {m} : log'[x] = log[x]
      BY <1>0, <2>3 DEF Postpone, Suppress
    <3> QED BY <1>b, <2>1, <3>1, <3>2 DEF Underway
  <2> QED BY <1>2, <2>2, <2>3 DEF CheckGovernor
<1>3. ASSUME NEW m \in Messages, Acquire(m) PROVE GovernorInv'
  <2>1. job[m].pc = "capacity"
    BY <1>3 DEF Acquire, At
  <2>2. CASE Postpone(m) \/ Pace(m)
    <3>1. job'[m].pc \in {"tomorrow", "waiting"} /\ \A x \in Messages \ {m} : job'[x] = job[x]
      BY <1>0, <1>a, <2>2 DEF Postpone, Pace
    <3>2. UNCHANGED rows /\ seen' \in {seen, EndOf(m)}
      BY <2>2 DEF Postpone, Pace
    <3> QED BY <1>b, <2>1, <3>1, <3>2 DEF Underway
  <2>3. CASE Goto(m, "sending") /\ UNCHANGED <<rows, seen>>
    <3>1. job'[m].pc = "sending" /\ \A x \in Messages \ {m} : job'[x] = job[x]
      BY <1>a, <2>3
    <3>2. HandedIsKnown'
      BY <1>0, <2>1, <2>3, <3>1 DEF HandedIsKnown, At, Seen
    <3>3. NoneJoins
      BY <1>0, <2>1, <2>3, <3>1 DEF NoneJoins, Underway
    <3> QED BY <3>2, <3>3, FewerCount
  <2> QED BY <1>3, <2>2, <2>3 DEF Acquire
<1>4. ASSUME NEW m \in Messages, HandOver(m) PROVE GovernorInv'
  <2>1. /\ job[m].pc = "sending" /\ job'[m].pc = "answered" /\ \A x \in Messages \ {m} : job'[x] = job[x]
        /\ seen'.handed = seen.handed \union {m} /\ seen'.forgotten = seen.forgotten
        /\ seen'.peak = seen.peak /\ UNCHANGED rows
    BY <1>0, <1>4, <1>a DEF HandOver, At, Seen
  <2>2. HandedIsKnown'
    BY <1>0, <2>1 DEF HandedIsKnown, At, Seen
  <2>3. NoneJoins
    BY <1>0, <2>1 DEF NoneJoins, Underway
  <2> QED BY <2>2, <2>3, FewerCount
<1>5. ASSUME NEW m \in Messages, Refused(m) PROVE GovernorInv'
  <2>1. job[m].pc = "sending" /\ job'[m].pc \in {"waiting", "done"}
        /\ \A x \in Messages \ {m} : job'[x] = job[x]
    BY <1>5, <1>a DEF Refused, At
  <2>2. /\ UNCHANGED <<age, fatigue>> /\ seen' = EndOf(m)
        /\ log'[m] \in {log[m], "failed"} /\ \A x \in Messages \ {m} : log'[x] = log[x]
    BY <1>0, <1>5 DEF Refused
  <2> QED BY <1>b, <2>1, <2>2 DEF Underway
<1>6. ASSUME NEW m \in Messages, Release(m) PROVE GovernorInv'
  <2>1. /\ job[m].pc = "answered" /\ job'[m].pc = "recording" /\ \A x \in Messages \ {m} : job'[x] = job[x]
        /\ UNCHANGED <<rows, seen>>
    BY <1>6, <1>a DEF Release, At
  <2>2. HandedIsKnown'
    BY <1>0, <2>1 DEF HandedIsKnown, At, Seen
  <2>3. NoneJoins
    BY <1>0, <2>1 DEF NoneJoins, Underway
  <2> QED BY <2>2, <2>3, FewerCount
<1>7. ASSUME NEW m \in Messages, RecordSent(m) PROVE GovernorInv'
  <2>1. /\ job[m].pc = "recording" /\ job'[m].pc = "remembering" /\ \A x \in Messages \ {m} : job'[x] = job[x]
        /\ log'[m] = "sent" /\ \A x \in Messages \ {m} : log'[x] = log[x] /\ age'[x] = age[x]
        /\ UNCHANGED <<fatigue, seen>>
    BY <1>0, <1>7, <1>a DEF RecordSent, At
  <2>2. HandedIsKnown'
    BY <1>0, <2>1 DEF HandedIsKnown, At, Seen
  <2>3. NoneJoins
    BY <1>0, <2>1 DEF NoneJoins, Underway
  <2> QED BY <2>2, <2>3, FewerCount
<1>8. ASSUME NEW m \in Messages, RecordFatigue(m) PROVE GovernorInv'
  <2>1. /\ job[m].pc = "remembering" /\ job'[m].pc = "done" /\ \A x \in Messages \ {m} : job'[x] = job[x]
        /\ fatigue' = fatigue \union {m} /\ UNCHANGED <<log, age>>
        /\ seen'.handed = seen.handed /\ seen'.forgotten = seen.forgotten /\ seen'.peak = seen.peak
    BY <1>0, <1>8, <1>a, EndOfTyped DEF RecordFatigue, At
  <2>2. HandedIsKnown'
    BY <1>0, <2>1 DEF HandedIsKnown, At, Seen
  <2>3. NoneJoins
    BY <1>0, <2>1 DEF NoneJoins, Underway
  <2> QED BY <2>2, <2>3, FewerCount
<1>9. ASSUME NEW m \in Messages, Die(m) PROVE GovernorInv'
  <2>1. /\ job[m].pc \notin Waiting /\ job'[m].pc = "waiting" /\ \A x \in Messages \ {m} : job'[x] = job[x]
        /\ UNCHANGED rows
    BY <1>0, <1>9, <1>a DEF Die, Running
  <2>2. /\ EndOf(m) \in Seen /\ EndOf(m).handed = seen.handed /\ EndOf(m).peak = seen.peak
        /\ EndOf(m).forgotten = seen.forgotten
    BY <1>0, EndOfTyped
  <2>3. /\ seen'.handed = seen.handed /\ seen'.peak = seen.peak
        /\ seen.forgotten \subseteq seen'.forgotten
        /\ job[m].pc \in {"answered", "recording", "remembering"} => m \in seen'.forgotten
    BY <1>9, <2>2 DEF Die, Seen
  <2>4. HandedIsKnown'
    BY <1>0, <2>1, <2>3 DEF HandedIsKnown, At, Seen, Waiting
  <2>5. NoneJoins
    BY <1>0, <2>1, <2>3 DEF NoneJoins, Underway
  <2> QED BY <2>4, <2>5, FewerCount
<1>10. ASSUME UNCHANGED <<job, rows>>, seen'.handed = seen.handed, seen'.forgotten = seen.forgotten,
              seen'.peak = seen.peak
       PROVE  GovernorInv'
  <2>1. HandedIsKnown'
    BY <1>10 DEF HandedIsKnown, At
  <2>2. NoneJoins
    BY <1>0, <1>10 DEF NoneJoins
  <2> QED BY <2>1, <2>2, FewerCount
<1>11. ASSUME \/ \E m \in Messages : LeaseExpires(m)
              \/ \E c \in Customers : OpenIssue(c) \/ ResolveIssue(c) \/ OptOut(c)
              \/ OrphanExpires \/ HoldOrPause \/ Lift \/ Nightfall \/ UNCHANGED vars
       PROVE  /\ UNCHANGED <<job, rows>> /\ seen'.handed = seen.handed
              /\ seen'.forgotten = seen.forgotten /\ seen'.peak = seen.peak
  BY <1>0, <1>11 DEF LeaseExpires, OpenIssue, ResolveIssue, OptOut, OrphanExpires, HoldOrPause, Lift,
                     Nightfall, vars, Seen
<1>12. ASSUME Daybreak PROVE GovernorInv'
  <2>1. /\ seen'.handed = seen.handed /\ seen'.forgotten = seen.forgotten /\ seen'.peak = seen.peak
        /\ UNCHANGED <<log, fatigue>> /\ \A m \in Messages : age[m] <= age'[m]
    BY <1>0, <1>12 DEF Daybreak, Seen
  <2>2. \A m \in Messages : job'[m].pc = IF job[m].pc = "tomorrow" THEN "waiting" ELSE job[m].pc
    BY <1>0, <1>12 DEF Daybreak, At
  <2>3. HandedIsKnown'
    BY <1>0, <2>1, <2>2 DEF HandedIsKnown, At, Seen
  <2>4. NoneJoins
    BY <2>1, <2>2 DEF NoneJoins, Underway
  <2> QED BY <2>3, <2>4, FewerCount
<1> QED BY <1>1, <1>2, <1>3, <1>4, <1>5, <1>6, <1>7, <1>8, <1>9, <1>10, <1>11, <1>12 DEF Next, Deliver

LEMMA InitGovernor == Init => GovernorInv
<1> SUFFICES ASSUME Init PROVE GovernorInv
  OBVIOUS
<1> USE DEF Init, SeenInit
<1>1. HandedIsKnown
  BY DEF HandedIsKnown
<1>2. \A c \in Customers : Recent(c) = {} /\ \A l \in Limits : Tired(c, l) = {}
  BY DEF Recent, Tired, MessagesTo, Underway
<1> QED BY <1>1, <1>2 DEF GovernorInv, CountsWithin, Within

LEMMA OvershootFollows == TypeInv /\ GovernorInv => OvershootBounded
<1> SUFFICES ASSUME TypeInv, GovernorInv, NEW c \in Customers, NEW l \in Limits \union {Campaign}
             PROVE  LET Received == {m \in seen.handed \intersect MessagesTo(c) :
                                       m \notin Overriding /\ age[m] < l.days}
                    IN Received # {} =>
                         Cardinality(Received) + 1 <= l.max + seen.peak[c]
                                            + Cardinality(seen.forgotten \intersect MessagesTo(c))
  BY DEF OvershootBounded
<1> DEFINE R == {m \in seen.handed \intersect MessagesTo(c) : m \notin Overriding /\ age[m] < l.days}
           F == seen.forgotten \intersect MessagesTo(c)
<1>1. PICK S \in SUBSET Messages : R \subseteq S \union F /\ Within(S, l.max, seen.peak[c])
  <2>1. CASE l \in Limits
    <3>1. R \subseteq Tired(c, l) \union F
      BY DEF GovernorInv, HandedIsKnown, Tired, At, Underway
    <3>2. Tired(c, l) \in SUBSET Messages /\ Within(Tired(c, l), l.max, seen.peak[c])
      BY <2>1 DEF GovernorInv, CountsWithin, Tired, MessagesTo
    <3> QED BY <3>1, <3>2
  <2>2. CASE l = Campaign
    <3>1. l.days = Gap /\ l.max = 1
      BY <2>2 DEF Campaign
    <3>2. R \subseteq Recent(c) \union F
      BY <3>1 DEF GovernorInv, HandedIsKnown, Recent, At, Underway
    <3>3. Recent(c) \in SUBSET Messages /\ Within(Recent(c), l.max, seen.peak[c])
      BY <3>1 DEF GovernorInv, CountsWithin, Recent, MessagesTo
    <3> QED BY <3>2, <3>3
  <2> QED BY <2>1, <2>2
<1>2. l.max \in Nat \ {0} /\ seen.peak[c] \in Nat
  BY SendGatesAssumption, FiniteMessages DEF Campaign, TypeInv, TypeOK
<1>3. F \in SUBSET Messages /\ S \union F \in SUBSET Messages /\ R \in SUBSET Messages
      /\ S \intersect F \in SUBSET Messages
  BY <1>1 DEF MessagesTo
<1> HIDE DEF R, F
<1>4. Cardinality(S \union F) = Cardinality(S) + Cardinality(F) - Cardinality(S \intersect F)
  BY <1>3, FiniteMessages, FS_Union
<1>5. /\ Cardinality(S) \in Nat /\ Cardinality(F) \in Nat /\ Cardinality(S \intersect F) \in Nat
      /\ Cardinality(R) \in Nat /\ Cardinality(S \union F) \in Nat
      /\ Cardinality(R) <= Cardinality(S \union F)
  BY <1>1, <1>3, FiniteMessages
<1>6. CASE S = {}
  <2>1. Cardinality(R) <= Cardinality(F)
    <3>1. R \in SUBSET F
      BY <1>1, <1>6
    <3> QED BY <1>3, <3>1, FiniteMessages
  <2>2. Cardinality(R) + 1 <= l.max + seen.peak[c] + Cardinality(F)
    BY <1>2, <1>5, <2>1
  <2> QED BY <2>2 DEF R, F
<1>7. CASE Cardinality(S) + 1 <= l.max + seen.peak[c]
  <2>1. Cardinality(R) + 1 <= l.max + seen.peak[c] + Cardinality(F)
    BY <1>2, <1>4, <1>5, <1>7
  <2> QED BY <2>1 DEF R, F
<1> QED BY <1>1, <1>6, <1>7 DEF Within

-----------------------------------------------------------------------------
(* The theorems *)

LEMMA AlwaysInv == Spec => [](TypeInv /\ GateInv /\ GovernorInv)
<1>1. TypeInv /\ GateInv /\ GovernorInv /\ [Next]_vars => (TypeInv /\ GateInv /\ GovernorInv)'
  BY TypeStep, GateStep, GovernorStep
<1> QED BY <1>1, InitInv, InitGovernor, PTL DEF Spec

(* Every variable keeps its type (TypeOK); in particular the counter stays  *)
(* within the tier's cap and the leases of executions that died within the  *)
(* store's concurrency.                                                     *)
THEOREM TypeCorrect == Spec => []TypeOK
<1>1. TypeInv => TypeOK
  BY DEF TypeInv
<1> QED BY <1>1, AlwaysInv, PTL

(* What is handed over on capacity of a day stays within the daily cap,     *)
(* whatever is refused, retried, dies or is sent across midnight            *)
(* (DailyCapHolds).                                                         *)
THEOREM DailyCapKept == Spec => []DailyCapHolds
<1>1. TypeInv /\ GateInv => DailyCapHolds
  <2> SUFFICES ASSUME TypeInv, GateInv PROVE DailyCapHolds
    OBVIOUS
  <2>1. seen.today \subseteq OnToday /\ OnToday \in SUBSET Messages /\ seen.today \in SUBSET Messages
    BY DEF OnToday, TypeInv, TypeOK
  <2>2. /\ Cardinality(seen.today) <= Cardinality(OnToday)
        /\ Cardinality(seen.today) \in Nat /\ Cardinality(OnToday) \in Nat
    BY <2>1, FiniteMessages
  <2> QED BY <2>2, SendGatesAssumption DEF GateInv, CounterCovers, DailyCapHolds, TypeInv, TypeOK
<1> QED BY <1>1, AlwaysInv, PTL

(* Fatigue limits and the gap between campaigns are passed by no more       *)
(* messages than were under way together, less one, and were lost to a      *)
(* worker's death before they were recorded (OvershootBounded).             *)
THEOREM OvershootIsBounded == Spec => []OvershootBounded
BY AlwaysInv, OvershootFollows, PTL

(* An opt-out stops every message but those whose execution had asked for   *)
(* permission before it (OptOutRespected).                                  *)
THEOREM OptOutsRespected == Spec => OptOutRespected
<1>1. TypeInv /\ GateInv /\ [Next]_vars
        => [\A m \in Messages :
              At(m, "sending") /\ job'[m].pc = "answered" /\ To[m] \in optedOut => m \in seen.graced]_vars
  BY DEF GateInv, PermissionKept, Running, Waiting, At
<1> QED BY <1>1, AlwaysInv, PTL DEF Spec, OptOutRespected

=============================================================================
