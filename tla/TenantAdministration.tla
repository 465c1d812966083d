------------------------ MODULE TenantAdministration ------------------------
(***************************************************************************)
(* apps/tenancy: the roles and memberships of one tenant, administered by  *)
(* concurrent HTTP requests. A view loads the row named in the URL, the    *)
(* service decides from that copy, and a transaction writes; other         *)
(* requests run between these.                                             *)
(***************************************************************************)
EXTENDS Integers, FiniteSets

CONSTANTS
    Users, Roles, Workers,
    Permissions,
    ADMIN_GUARD_PERMISSION,   \* tenancy.membership.manage
    RoleManage,               \* tenancy.role.manage
    Superusers,
    FirstRole, FirstUser,     \* what provision_tenant creates
    None

ASSUME AdministrationAssumption ==
    /\ {ADMIN_GUARD_PERMISSION, RoleManage} \subseteq Permissions
    /\ Superusers \subseteq Users /\ FirstUser \in Users /\ FirstRole \in Roles
    /\ None \notin Users \cup Roles

VARIABLES
    roles,       \* Role rows
    members,     \* Membership rows, by user
    requests     \* by worker, the HTTP request it is serving

vars == <<roles, members, requests>>

RoleRow == [exists : BOOLEAN, permissions : SUBSET Permissions]
MemberRow == [role : Roles \cup {None}, active : BOOLEAN, accepted : BOOLEAN]
NoRole == [exists |-> FALSE, permissions |-> {}]
NoMember == [role |-> None, active |-> FALSE, accepted |-> FALSE]

\* A request holds the copy its view loaded ("seen") and, once its service has made
\* its unlocked checks, what it will write and whether the last-administrator guard
\* applies.
Kinds == {"none", "role", "member", "deactivate", "accept"}
Request == [kind : Kinds, checked : BOOLEAN, actor : Users \cup {None}, target : Roles \cup Users \cup {None},
            seen : (SUBSET Permissions) \cup Roles \cup {None},
            wanted : (SUBSET Permissions) \cup Roles \cup {None}, guarded : BOOLEAN]
Idle == [kind |-> "none", checked |-> FALSE, actor |-> None, target |-> None,
         seen |-> None, wanted |-> None, guarded |-> FALSE]

\* provision_tenant: the first administrator is invited like anybody else.
Init ==
    /\ roles = [r \in Roles |-> IF r = FirstRole THEN [exists |-> TRUE, permissions |-> Permissions] ELSE NoRole]
    /\ members = [u \in Users |-> IF u = FirstUser THEN [NoMember EXCEPT !.role = FirstRole] ELSE NoMember]
    /\ requests = [w \in Workers |-> Idle]

IsMember(u) == members[u].role # None
PermissionsOf(u) == IF IsMember(u) /\ members[u].active THEN roles[members[u].role].permissions ELSE {}

\* require_permission: superusers need a membership, but no permission.
Allowed(u, p) == IsMember(u) /\ members[u].active /\ (p \in PermissionsOf(u) \/ u \in Superusers)

\* _require_grantable_permissions
MayGrant(u, ps) == u \in Superusers \/ ps \subseteq PermissionsOf(u)

Administrators == {u \in Users : ADMIN_GUARD_PERMISSION \in PermissionsOf(u)}

----------------------------------------------------------------------------
(* Requests *)

Begin(w, request) ==
    /\ requests[w] = Idle
    /\ requests' = [requests EXCEPT ![w] = request]
    /\ UNCHANGED <<roles, members>>

Decide(w, wanted, guarded) ==
    /\ requests' = [requests EXCEPT ![w].checked = TRUE, ![w].wanted = wanted, ![w].guarded = guarded]
    /\ UNCHANGED <<roles, members>>

End(w) == requests' = [requests EXCEPT ![w] = Idle]

Checked(w, kind) == requests[w].kind = kind /\ requests[w].checked
Loaded(w, kind) == requests[w].kind = kind /\ ~requests[w].checked

\* Refused, failed or killed before it wrote.
Abandon(w) ==
    /\ requests[w] # Idle
    /\ End(w)
    /\ UNCHANGED <<roles, members>>

MutantRemainWithout(u, r) ==
    \E v \in Users : v # u /\ members[v].role # None
                     /\ ADMIN_GUARD_PERMISSION \in roles[members[v].role].permissions
\* _ensure_not_removing_last_administrator, counting under the locks of all active
\* memberships and their roles: without user u, and without role r's permission.
RemainWithout(u, r) ==
    \E v \in Administrators : v # u /\ members[v].role # r

----------------------------------------------------------------------------
(* Roles *)

CreateRole(a, r, ps) ==
    /\ Allowed(a, RoleManage)
    /\ ~roles[r].exists
    /\ MayGrant(a, ps)
    /\ roles' = [roles EXCEPT ![r] = [exists |-> TRUE, permissions |-> ps]]
    /\ UNCHANGED <<members, requests>>

LoadRole(w, a, r) ==
    /\ Allowed(a, RoleManage)
    /\ roles[r].exists
    /\ Begin(w, [Idle EXCEPT !.kind = "role", !.actor = a, !.target = r, !.seen = roles[r].permissions])

\* update_role's checks: only what changes against the loaded copy needs the actor's
\* own authorisation. A rename submits no permissions and writes back the copy's.
DecideRole(w, ps) ==
    LET seen == requests[w].seen IN
    /\ Loaded(w, "role")
    /\ MayGrant(requests[w].actor, (ps \ seen) \cup (seen \ ps))
    /\ Decide(w, ps, ADMIN_GUARD_PERMISSION \in seen \ ps)

\* The whole row is saved, and inserted again if it was deleted meanwhile.
SaveRole(w) ==
    LET r == requests[w].target IN
    /\ Checked(w, "role")
    /\ requests[w].guarded => RemainWithout(None, r)
    /\ roles' = [roles EXCEPT ![r] = [exists |-> TRUE, permissions |-> requests[w].wanted]]
    /\ End(w)
    /\ UNCHANGED members

MutantDeleteRole(w) ==
    /\ Loaded(w, "role")
    /\ roles' = [roles EXCEPT ![requests[w].target] = NoRole]
    /\ End(w)
    /\ UNCHANGED members
\* delete_role looks for members before its transaction; the foreign key holds at its end.
DeleteRole(w) ==
    LET r == requests[w].target IN
    /\ Loaded(w, "role")
    /\ \A u \in Users : members[u].role # r
    /\ roles' = [roles EXCEPT ![r] = NoRole]
    /\ End(w)
    /\ UNCHANGED members

----------------------------------------------------------------------------
(* Memberships *)

\* invite_user creates the membership; its link is good for an acceptance.
Invite(a, u, r) ==
    /\ Allowed(a, ADMIN_GUARD_PERMISSION)
    /\ roles[r].exists /\ MayGrant(a, roles[r].permissions)
    /\ ~IsMember(u)
    /\ members' = [members EXCEPT ![u] = [role |-> r, active |-> FALSE, accepted |-> FALSE]]
    /\ UNCHANGED <<roles, requests>>

\* accept_invite reads invite_accepted_at before its transaction.
OpenInvite(w, u) ==
    /\ IsMember(u) /\ ~members[u].accepted
    /\ Begin(w, [Idle EXCEPT !.kind = "accept", !.checked = TRUE, !.target = u])

AcceptInvite(w) ==
    /\ Checked(w, "accept")
    /\ members' = [members EXCEPT ![requests[w].target].accepted = TRUE, ![requests[w].target].active = TRUE]
    /\ End(w)
    /\ UNCHANGED roles

\* Patch and deactivate views load the membership; its role is fetched by the service.
LoadMember(w, a, u, kind) ==
    /\ Allowed(a, ADMIN_GUARD_PERMISSION)
    /\ IsMember(u)
    /\ Begin(w, [Idle EXCEPT !.kind = kind, !.actor = a, !.target = u, !.seen = members[u].role])

\* update_membership with another role.
DecideMember(w, r) ==
    LET seen == requests[w].seen IN
    /\ Loaded(w, "member")
    /\ r # seen /\ roles[r].exists /\ roles[seen].exists
    /\ MayGrant(requests[w].actor, roles[r].permissions)
    /\ Decide(w, r, ADMIN_GUARD_PERMISSION \in roles[seen].permissions \ roles[r].permissions)

SaveMember(w) ==
    LET u == requests[w].target
        r == requests[w].wanted
    IN
    /\ Checked(w, "member")
    /\ requests[w].guarded => RemainWithout(u, None)
    /\ roles[r].exists
    /\ members' = [members EXCEPT ![u].role = r]
    /\ End(w)
    /\ UNCHANGED roles

DecideDeactivate(w) ==
    LET seen == requests[w].seen IN
    /\ Loaded(w, "deactivate")
    /\ roles[seen].exists
    /\ Decide(w, None, ADMIN_GUARD_PERMISSION \in roles[seen].permissions)

Deactivate(w) ==
    LET u == requests[w].target IN
    /\ Checked(w, "deactivate")
    /\ requests[w].guarded => RemainWithout(u, None)
    /\ members' = [members EXCEPT ![u].active = FALSE]
    /\ End(w)
    /\ UNCHANGED roles

Activate(a, u) ==
    /\ Allowed(a, ADMIN_GUARD_PERMISSION)
    /\ IsMember(u)
    /\ members' = [members EXCEPT ![u].active = TRUE]
    /\ UNCHANGED <<roles, requests>>

Next ==
    \/ \E a \in Users, r \in Roles, ps \in SUBSET Permissions : CreateRole(a, r, ps)
    \/ \E a, u \in Users : Activate(a, u) \/ \E r \in Roles : Invite(a, u, r)
    \/ \E w \in Workers :
           \/ \E a \in Users, r \in Roles : LoadRole(w, a, r)
           \/ \E ps \in SUBSET Permissions : DecideRole(w, ps)
           \/ \E a, u \in Users, kind \in {"member", "deactivate"} : LoadMember(w, a, u, kind)
           \/ \E r \in Roles : DecideMember(w, r)
           \/ \E u \in Users : OpenInvite(w, u)
           \/ DecideDeactivate(w) \/ SaveRole(w) \/ DeleteRole(w) \/ SaveMember(w)
           \/ Deactivate(w) \/ AcceptInvite(w) \/ Abandon(w)

Spec == Init /\ [][Next]_vars

----------------------------------------------------------------------------
(* Properties *)

(* The types of the tables and requests; a membership's role exists, whatever
   delete_role raced with. *)
TypeOK ==
    /\ roles \in [Roles -> RoleRow]
    /\ members \in [Users -> MemberRow]
    /\ requests \in [Workers -> Request]
    /\ \A u \in Users : IsMember(u) => roles[members[u].role].exists

\* What a checked request decided about the guard is not what it would decide now.
Outdated(w) ==
    LET q == requests[w] IN
    /\ q.checked
    /\ CASE q.kind = "role" -> roles[q.target].permissions # q.seen
         [] q.kind = "member" -> q.guarded # (ADMIN_GUARD_PERMISSION \in
                                     roles[members[q.target].role].permissions \ roles[q.wanted].permissions)
         [] q.kind = "deactivate" -> q.guarded # (ADMIN_GUARD_PERMISSION \in roles[members[q.target].role].permissions)
         [] OTHER -> FALSE

(* The guard works on what it is told: a tenant only ever loses its last
   administrator to a request that decided from a copy which is out of date when
   it writes. Two requests that remove the last two administrators, each from
   current rows, never both succeed (_ensure_not_removing_last_administrator). *)
LastAdministratorIsGuarded ==
    [][Administrators # {} /\ Administrators' = {} => \E w \in Workers : Outdated(w) /\ requests'[w] = Idle]_vars
=============================================================================
