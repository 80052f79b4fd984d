----------------------------- MODULE MCSessions -----------------------------
(***************************************************************************)
(* Sessions for TLC: one device, whose owner is staff, two tenants.        *)
(***************************************************************************)
EXTENDS Sessions

CONSTANTS staff, laptop

MCProves == [w \in {laptop} |-> {staff}]
=============================================================================
