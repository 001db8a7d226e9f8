-------------------------- MODULE MCDeliveryPlan --------------------------
(* Small instances of DeliveryPlan: the cfgs give the sizes and the bounds. *)
EXTENDS DeliveryPlan
=============================================================================
