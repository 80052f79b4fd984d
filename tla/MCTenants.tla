----------------------------- MODULE MCTenants -----------------------------
(* Instances of Tenants: a member of staff's device and a stranger's.       *)
EXTENDS Tenants, TLC

CONSTANTS laptop, phone, staff

MCProves == [w \in Watchers |-> IF w = laptop THEN {staff} ELSE {}]

=============================================================================
