--------------------------- MODULE ControlQuotas ---------------------------
(***************************************************************************)
(* The control-group arithmetic of campaign measurement                    *)
(* (packages/customer-state/src/experiments.ts).                           *)
(*                                                                         *)
(* A census counts candidates per RFM stratum; strata below                *)
(* MIN_STRATUM_SIZE are pooled; each resulting assignment stratum withholds *)
(* an exact quota of control customers; the customers with the lowest      *)
(* assignment value, ties broken by id, are the ones withheld.             *)
(*                                                                         *)
(* Rates are whole percentages, and the quota is exact integer division;   *)
(* the rounding of IEEE doubles in Math.floor(n * rate) is left out.        *)
(***************************************************************************)
EXTENDS Integers, FiniteSets, FiniteSetsExt

CONSTANTS
    Strata,           \* RFM segments a candidate may be frozen in
    Pooled,           \* POOLED_SMALL_STRATUM
    MinStratumSize,   \* MIN_STRATUM_SIZE
    MinRate,          \* MIN_HOLDOUT_RATE, percent
    MaxRate           \* MAX_HOLDOUT_RATE, percent

ASSUME QuotaAssumption ==
    /\ Pooled \notin Strata
    /\ IsFiniteSet(Strata)
    /\ MinStratumSize \in Nat \ {0}
    /\ MinRate \in 0 .. 100
    /\ MaxRate \in MinRate .. 100

(* The strata customers are ranked in once small ones have been pooled. *)
AssignmentStrata == Strata \union {Pooled}

Least(a, b) == IF a <= b THEN a ELSE b
Greatest(a, b) == IF a >= b THEN a ELSE b

(* A census is a function from strata to the number of candidates counted. *)
Censuses == [Strata -> Nat]

-----------------------------------------------------------------------------

NormalizedRate(rate) == Greatest(MinRate, Least(MaxRate, rate))

(* How many of n customers are withheld: never all of them. *)
ControlCount(n, rate) ==
    Least((n * NormalizedRate(rate)) \div 100, Greatest(0, n - 1))

CountedStrata(census) == {s \in Strata : census[s] > 0}

IsPooled(census, s) == census[s] < MinStratumSize

AssignmentStratum(census, s) == IF IsPooled(census, s) THEN Pooled ELSE s

(* The keys of plan.strata and what is counted under each. *)
PlannedStrata(census) == {AssignmentStratum(census, s) : s \in CountedStrata(census)}

PlannedCount(census, a) ==
    MapThenSumSet(LAMBDA s : census[s],
                  {s \in CountedStrata(census) : AssignmentStratum(census, s) = a})

PlannedQuota(census, rates, a) == ControlCount(PlannedCount(census, a), rates[a])

PlannedControl(census, rates) ==
    MapThenSumSet(LAMBDA a : PlannedQuota(census, rates, a), PlannedStrata(census))

(* The strata whose provisional assignment the fix-up has to rewrite. *)
PooledStrata(census) == {s \in CountedStrata(census) : IsPooled(census, s)}

-----------------------------------------------------------------------------

(* Whether c is ranked ahead of d: by value, then by customer id. *)
RanksAhead(value, c, d) ==
    \/ value[c] < value[d]
    \/ value[c] = value[d] /\ c < d

(* The customers of group that the ranking withholds under the quota. *)
Withheld(group, value, quota) ==
    {c \in group : Cardinality({d \in group : RanksAhead(value, d, c)}) < quota}

CensusOf(stratum) ==
    [s \in Strata |-> Cardinality({c \in DOMAIN stratum : stratum[c] = s})]

(***************************************************************************)
(* The reference: arms drawn in memory from the whole cohort at once, where *)
(* stratum maps every candidate to its stratum, values is the hash of       *)
(* (assignment stratum, customer) and rates the policy's rate per stratum.  *)
(***************************************************************************)
AssignStratifiedCohortArms(stratum, values, rates) ==
    LET census   == CensusOf(stratum)
        Group(a) == {c \in DOMAIN stratum : AssignmentStratum(census, stratum[c]) = a}
        Quota(a) == ControlCount(Cardinality(Group(a)), rates[a])
        controls == UNION {Withheld(Group(a), values[a], Quota(a)) : a \in AssignmentStrata}
    IN  [c \in DOMAIN stratum |-> IF c \in controls THEN "CONTROL" ELSE "TREATMENT"]
=============================================================================
