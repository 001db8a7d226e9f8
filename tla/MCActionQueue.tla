---------------------------- MODULE MCActionQueue ----------------------------
(* A campaign under review, and an automation.                              *)
EXTENDS ActionQueue, TLC

CONSTANTS offer, welcome, p1, p2, r1, r2

Symmetry == Permutations({p1, p2}) \union Permutations({r1, r2})
=============================================================================
