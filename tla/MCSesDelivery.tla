--------------------------- MODULE MCSesDelivery ---------------------------
(* Small instances of SesDelivery.                                          *)
EXTENDS SesDelivery, TLC

CONSTANTS c1, c2, c3

Symmetry == Permutations(Calls)
=============================================================================
