------------------------- MODULE SubscriptionPlans -------------------------
(***************************************************************************)
(* apps/platform: the plans that bundle modules, the tenants subscribed to *)
(* them and the overrides of single modules. A PATCH or PUT loads a plan   *)
(* row, and its service later decides from that copy and saves all of it.  *)
(***************************************************************************)
EXTENDS Integers, FiniteSets

CONSTANTS
    Plans, Tenants, Modules, Workers,
    SeededPlan,    \* the default plan of the seeding migration
    None

VARIABLES
    plans,           \* SubscriptionPlan rows
    subscriptions,   \* TenantSubscription: the plan of each tenant
    tenants,         \* Tenant rows: "absent", "active" or "inactive"
    overrides,       \* TenantModuleOverride rows
    edits            \* by worker, the request that holds a copy of a plan

vars == <<plans, subscriptions, tenants, overrides, edits>>

PlanRow == [exists : BOOLEAN, modules : SUBSET Modules, active : BOOLEAN, default : BOOLEAN]
NoPlan == [exists |-> FALSE, modules |-> {}, active |-> FALSE, default |-> FALSE]
Edit == [kind : {"none", "update", "delete", "assign"}, plan : Plans \cup {None}, copy : PlanRow]
NoEdit == [kind |-> "none", plan |-> None, copy |-> NoPlan]

Init ==
    /\ plans = [p \in Plans |-> IF p = SeededPlan
                                THEN [exists |-> TRUE, modules |-> Modules, active |-> TRUE, default |-> TRUE]
                                ELSE NoPlan]
    /\ subscriptions = [t \in Tenants |-> None]
    /\ tenants = [t \in Tenants |-> "absent"]
    /\ overrides = [t \in Tenants |-> [m \in Modules |-> "none"]]
    /\ edits = [w \in Workers |-> NoEdit]

DefaultPlans == {p \in Plans : plans[p].default}
MutantSubscribers(p) == {t \in Tenants : subscriptions[t] = p /\ tenants[t] = "active"}
Subscribers(p) == {t \in Tenants : subscriptions[t] = p}

\* Writing a row as the default clears every other row's flag in the transaction.
Written(p, row, makeDefault) ==
    [q \in Plans |-> IF q = p THEN row
                     ELSE IF makeDefault THEN [plans[q] EXCEPT !.default = FALSE] ELSE plans[q]]

EndEdit(w) == edits' = [edits EXCEPT ![w] = NoEdit]

----------------------------------------------------------------------------
(* Plans *)

CreatePlan(p, modules, active, default) ==
    /\ ~plans[p].exists
    /\ default => active
    /\ plans' = Written(p, [exists |-> TRUE, modules |-> modules, active |-> active, default |-> default], default)
    /\ UNCHANGED <<subscriptions, tenants, overrides, edits>>

LoadPlan(w, kind, p) ==
    /\ edits[w] = NoEdit
    /\ plans[p].exists
    /\ edits' = [edits EXCEPT ![w] = [kind |-> kind, plan |-> p, copy |-> plans[p]]]
    /\ UNCHANGED <<plans, subscriptions, tenants, overrides>>

MutantMaySave(copy, active, default) == default => active
\* update_plan's two checks, on the copy.
MaySave(copy, active, default) == (default => active) /\ (copy.default => default)

\* update_plan saves the whole row, inserting it again if it was deleted. Without an
\* explicit is_default the copy's flag is written back, which the unique index refuses
\* when another plan has become the default; with is_default=True the others' are cleared.
UpdatePlan(w, modules, active, default) ==
    LET p == edits[w].plan
        copy == edits[w].copy
    IN
    /\ edits[w].kind = "update"
    /\ MaySave(copy, active, default)
    /\ \E given \in BOOLEAN :
           /\ given \/ default = copy.default
           /\ default /\ ~given => DefaultPlans \subseteq {p}
           /\ plans' = Written(p, [exists |-> TRUE, modules |-> modules, active |-> active, default |-> default],
                               given /\ default)
    /\ EndEdit(w)
    /\ UNCHANGED <<subscriptions, tenants, overrides>>

\* delete_plan: the flag is the copy's; subscriptions are protected by the foreign key.
DeletePlan(w) ==
    LET p == edits[w].plan IN
    /\ edits[w].kind = "delete"
    /\ ~edits[w].copy.default
    /\ Subscribers(p) = {}
    /\ plans' = [plans EXCEPT ![p] = NoPlan]
    /\ EndEdit(w)
    /\ UNCHANGED <<subscriptions, tenants, overrides>>

Refuse(w) ==
    /\ edits[w] # NoEdit
    /\ EndEdit(w)
    /\ UNCHANGED <<plans, subscriptions, tenants, overrides>>

----------------------------------------------------------------------------
(* Tenants *)

\* Tenant.objects.create and its signal provision_default_subscription.
ProvisionTenant(t) ==
    /\ tenants[t] = "absent"
    /\ tenants' = [tenants EXCEPT ![t] = "active"]
    /\ IF DefaultPlans = {} THEN UNCHANGED subscriptions
       ELSE \E p \in DefaultPlans : subscriptions' = [subscriptions EXCEPT ![t] = p]
    /\ UNCHANGED <<plans, overrides, edits>>

AssignPlan(w, t) ==
    LET p == edits[w].plan IN
    /\ edits[w].kind = "assign"
    /\ tenants[t] # "absent"
    /\ edits[w].copy.active
    /\ plans[p].exists
    /\ subscriptions' = [subscriptions EXCEPT ![t] = p]
    /\ EndEdit(w)
    /\ UNCHANGED <<plans, tenants, overrides>>

UpdateTenant(t, activity) ==
    /\ tenants[t] # "absent"
    /\ tenants' = [tenants EXCEPT ![t] = activity]
    /\ UNCHANGED <<plans, subscriptions, overrides, edits>>

\* set_module_override and clear_module_override.
SetModuleOverride(t, m, value) ==
    /\ tenants[t] # "absent"
    /\ overrides' = [overrides EXCEPT ![t][m] = value]
    /\ UNCHANGED <<plans, subscriptions, tenants, edits>>

Next ==
    \/ \E p \in Plans, modules \in SUBSET Modules, active, default \in BOOLEAN : CreatePlan(p, modules, active, default)
    \/ \E w \in Workers :
           \/ \E p \in Plans, kind \in {"update", "delete", "assign"} : LoadPlan(w, kind, p)
           \/ \E modules \in SUBSET Modules, active, default \in BOOLEAN : UpdatePlan(w, modules, active, default)
           \/ \E t \in Tenants : AssignPlan(w, t)
           \/ DeletePlan(w) \/ Refuse(w)
    \/ \E t \in Tenants :
           \/ ProvisionTenant(t)
           \/ \E activity \in {"active", "inactive"} : UpdateTenant(t, activity)
           \/ \E m \in Modules, value \in {"none", "on", "off"} : SetModuleOverride(t, m, value)

Spec == Init /\ [][Next]_vars

----------------------------------------------------------------------------
(* Properties *)

(* The types of the tables and of the copies in flight. *)
TypeOK ==
    /\ plans \in [Plans -> PlanRow]
    /\ subscriptions \in [Tenants -> Plans \cup {None}]
    /\ tenants \in [Tenants -> {"absent", "active", "inactive"}]
    /\ overrides \in [Tenants -> [Modules -> {"none", "on", "off"}]]
    /\ edits \in [Workers -> Edit]

(* However requests overlap, at most one plan is the default, it is active, and
   the plan a tenant is subscribed to exists (update_plan's first invariant, the
   unique index and the protected foreign key, under stale whole-row saves). *)
PlansConsistent ==
    /\ Cardinality(DefaultPlans) <= 1
    /\ \A p \in DefaultPlans : plans[p].exists /\ plans[p].active
    /\ \A t \in Tenants : subscriptions[t] # None => plans[subscriptions[t]].exists

(* The platform loses its default plan only to an update or a deletion that was
   loaded before the plan became the default. *)
DefaultLostOnlyByStaleCopy ==
    [][DefaultPlans # {} /\ DefaultPlans' = {} =>
         \E w \in Workers : /\ edits[w].kind \in {"update", "delete"} /\ edits'[w] = NoEdit
                            /\ edits[w].plan \in DefaultPlans /\ ~edits[w].copy.default]_vars
=============================================================================
