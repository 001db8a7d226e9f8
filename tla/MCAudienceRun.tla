--------------------------- MODULE MCAudienceRun ---------------------------
(* Small instances of AudienceRun: two strata, one of which pools when it   *)
(* has a single candidate, and rates that withhold one of two customers.    *)
EXTENDS AudienceRun, TLC

CONSTANTS w1, w2

MCStrata == {"vip", "new"}
MCSetAside == {"excluded"}
MCRates == [p \in Params |-> [a \in AssignmentStrata |-> 50]]

(* The first parameters rank customers upwards, others downwards, and the   *)
(* pool the other way round, so that mixing two rankings shows.             *)
MCHash ==
    [p \in Params |-> [a \in AssignmentStrata |-> [c \in Customers |->
        IF (p = "p1") = (a # Pooled) THEN c ELSE LastCustomer - c]]]

Symmetry == Permutations({w1, w2})
=============================================================================
