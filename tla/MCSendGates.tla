----------------------------- MODULE MCSendGates -----------------------------
(* Three campaigns to one customer, at most one a day and two in two days.  *)
EXTENDS SendGates

CONSTANTS a, m1, m2, m3

MCTo == [m \in Messages |-> a]
MCLimits == {[max |-> 2, days |-> 2]}
=============================================================================
