---------------------------- MODULE FrozenCohort ----------------------------
(***************************************************************************)
(* What preparing a campaign's audience promises, without runs, leases,     *)
(* chunks or retries: at one instant the whole audience is frozen, with the *)
(* arms an in-memory draw over it gives, and it never changes again.        *)
(***************************************************************************)
EXTENDS ControlQuotas

CONSTANTS Params, Rates, Hash, Customers

VARIABLES
    audience,   \* the verdict on each customer
    cohort      \* candidate -> arm once frozen, NotFrozen before

NotFrozen == [c \in {0} |-> "none"]

Init == cohort = NotFrozen

CandidateStratum == [c \in {d \in Customers : audience[d] \in Strata} |-> audience[c]]

Freeze(p) ==
    /\ cohort = NotFrozen
    /\ cohort' = AssignStratifiedCohortArms(CandidateStratum, Hash[p], Rates[p])
    /\ UNCHANGED audience

Spec == Init /\ [][\E p \in Params : Freeze(p)]_<<audience, cohort>>
=============================================================================
