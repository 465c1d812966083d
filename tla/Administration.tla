--------------------------- MODULE Administration ---------------------------
(* The administration of a tenant and of the platform side by side: requests *)
(* of both interleave, and write no row in common.                           *)
EXTENDS TenantAdministration

CONSTANTS Plans, Tenants, Modules, SeededPlan

VARIABLES plans, subscriptions, tenants, overrides, edits

platformVars == <<plans, subscriptions, tenants, overrides, edits>>

Platform == INSTANCE SubscriptionPlans

AdministrationInit == Init /\ Platform!Init
AdministrationNext ==
    \/ Next /\ UNCHANGED platformVars
    \/ Platform!Next /\ UNCHANGED vars

AdministrationSpec == AdministrationInit /\ [][AdministrationNext]_<<vars, platformVars>>

-----------------------------------------------------------------------------
(* Properties *)

(* The types of both components' tables and requests. *)
AllTypesOK == TypeOK /\ Platform!TypeOK

(* At most one plan is the default, it is active, and subscribed plans exist. *)
PlansConsistent == Platform!PlansConsistent

(* The default plan is lost only to a request loaded before the plan became it. *)
DefaultLostOnlyByStaleCopy == Platform!DefaultLostOnlyByStaleCopy
=============================================================================
