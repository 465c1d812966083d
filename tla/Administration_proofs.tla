----------------------- MODULE Administration_proofs -----------------------
(* Theorems about the administration of a tenant and of the platform: each  *)
(* component's invariant and action property, of the component by itself    *)
(* and of the two interleaved.                                              *)
EXTENDS Administration, FiniteSetTheorems, TLAPS

USE AdministrationAssumption

-----------------------------------------------------------------------------
(* A tenant's roles and memberships                                         *)

(* What a request of each kind holds: the update of a role its permissions, then and *)
(* as wanted, and whether the guard's permission is among those it takes away; the   *)
(* change of a member the role it had and the one it gets.                           *)
RoleFits(q) ==
    /\ q.target \in Roles /\ q.seen \subseteq Permissions
    /\ q.checked => q.wanted \subseteq Permissions /\ (q.guarded <=> ADMIN_GUARD_PERMISSION \in q.seen \ q.wanted)
MemberFits(q) == q.target \in Users /\ q.seen \in Roles /\ (q.checked => q.wanted \in Roles)
DeactivateFits(q) == q.target \in Users /\ q.seen \in Roles
Fits(q) ==
    /\ q.kind = "role" => RoleFits(q)
    /\ q.kind = "member" => MemberFits(q)
    /\ q.kind = "deactivate" => DeactivateFits(q)
    /\ q.kind = "accept" => q.target \in Users

TenantInv == TypeOK /\ \A w \in Workers : Fits(requests[w])

\* The invariant holds at first.
LEMMA TenantInit == Init => TenantInv
  <1> SUFFICES ASSUME Init PROVE TenantInv
    OBVIOUS
  <1>1. /\ roles \in [Roles -> RoleRow] /\ members \in [Users -> MemberRow]
        /\ \A u \in Users : IsMember(u) => roles[members[u].role].exists
    BY DEF Init, RoleRow, MemberRow, NoRole, NoMember, IsMember
  <1>2. Idle \in Request /\ Fits(Idle)
    BY DEF Idle, Request, Kinds, Fits
  <1> QED
    BY <1>1, <1>2 DEF Init, TenantInv, TypeOK

\* A request of a worker's becomes another one that fits its kind.
LEMMA RequestSet ==
    ASSUME TenantInv, NEW w \in Workers, NEW q \in Request, Fits(q), requests' = [requests EXCEPT ![w] = q],
           UNCHANGED <<roles, members>>
    PROVE  TenantInv'
  <1>1. requests' \in [Workers -> Request] /\ \A v \in Workers : Fits(requests'[v])
    BY DEF TenantInv, TypeOK
  <1> QED
    BY <1>1 DEF TenantInv, TypeOK, IsMember, Fits, RoleFits, MemberFits, DeactivateFits

\* What requests keep when one of them ends, or none does.
LEMMA RequestsKept ==
    ASSUME TenantInv, UNCHANGED requests \/ \E w \in Workers : End(w)
    PROVE  requests' \in [Workers -> Request] /\ \A v \in Workers : Fits(requests'[v])
  <1>1. Idle \in Request /\ Fits(Idle)
    BY DEF Idle, Request, Kinds, Fits
  <1> QED
    BY <1>1 DEF TenantInv, TypeOK, End

\* A role's row is written with permissions there are.
LEMMA RoleWritten ==
    ASSUME TenantInv, NEW r \in Roles, NEW ps \in SUBSET Permissions,
           roles' = [roles EXCEPT ![r] = [exists |-> TRUE, permissions |-> ps]], UNCHANGED members,
           requests' \in [Workers -> Request], \A v \in Workers : Fits(requests'[v])
    PROVE  TenantInv'
  <1>1. roles' \in [Roles -> RoleRow] /\ \A o \in Roles : roles[o].exists => roles'[o].exists
    BY DEF TenantInv, TypeOK, RoleRow
  <1>2. \A u \in Users : members[u].role # None => members[u].role \in Roles
    BY DEF TenantInv, TypeOK, MemberRow
  <1> QED
    BY <1>1, <1>2 DEF TenantInv, TypeOK, IsMember, Fits, RoleFits, MemberFits, DeactivateFits

\* A membership is written with a role that exists.
LEMMA MemberWritten ==
    ASSUME TenantInv, NEW u \in Users, NEW row \in MemberRow, row.role # None => roles[row.role].exists,
           members' = [members EXCEPT ![u] = row], UNCHANGED roles,
           requests' \in [Workers -> Request], \A v \in Workers : Fits(requests'[v])
    PROVE  TenantInv'
  <1>1. members' \in [Users -> MemberRow] /\ \A v \in Users : members'[v] = IF v = u THEN row ELSE members[v]
    BY DEF TenantInv, TypeOK
  <1> QED
    BY <1>1 DEF TenantInv, TypeOK, IsMember, Fits, RoleFits, MemberFits, DeactivateFits

\* Requests that load a role, decide about it, save it or delete it.
LEMMA RoleSteps ==
    ASSUME TenantInv, NEW a \in Users, NEW r \in Roles, NEW ps \in SUBSET Permissions, NEW w \in Workers,
           LoadRole(w, a, r) \/ DecideRole(w, ps) \/ SaveRole(w) \/ DeleteRole(w)
    PROVE  TenantInv'
  <1>1. CASE LoadRole(w, a, r)
    <2>1. PICK q : q = [Idle EXCEPT !.kind = "role", !.actor = a, !.target = r, !.seen = roles[r].permissions]
      OBVIOUS
    <2>2. roles[r].permissions \subseteq Permissions
      BY DEF TenantInv, TypeOK, RoleRow
    <2>3. q \in Request /\ Fits(q)
      BY <2>1, <2>2 DEF Idle, Request, Kinds, Fits, RoleFits
    <2> QED
      BY <1>1, <2>1, <2>3, RequestSet DEF LoadRole, Begin
  <1>2. CASE DecideRole(w, ps)
    <2> DEFINE taken == ADMIN_GUARD_PERMISSION \in requests[w].seen \ ps
    <2>1. PICK guarded \in BOOLEAN : guarded = taken
      <3>1. taken = TRUE \/ taken = FALSE
        OBVIOUS
      <3> QED
        BY <3>1
    <2>2. PICK q : q = [requests[w] EXCEPT !.checked = TRUE, !.wanted = ps, !.guarded = guarded]
      OBVIOUS
    <2>3. requests[w] \in Request /\ requests[w].kind = "role" /\ RoleFits(requests[w])
      BY <1>2 DEF DecideRole, Loaded, TenantInv, TypeOK, Fits
    <2>4. q \in Request /\ Fits(q)
      BY <2>1, <2>2, <2>3 DEF Request, Fits, RoleFits
    <2>5. requests' = [requests EXCEPT ![w] = q] /\ UNCHANGED <<roles, members>>
      BY <1>2, <2>1, <2>2 DEF DecideRole, Decide
    <2> QED
      BY <2>4, <2>5, RequestSet
  <1>3. CASE SaveRole(w)
    <2>1. RoleFits(requests[w]) /\ requests[w].checked
      BY <1>3 DEF SaveRole, Checked, TenantInv, Fits
    <2> QED
      BY <1>3, <2>1, RequestsKept, RoleWritten DEF SaveRole, RoleFits
  <1>4. CASE DeleteRole(w)
    <2>1. PICK o \in Roles : o = requests[w].target
      BY <1>4 DEF DeleteRole, Loaded, TenantInv, Fits, RoleFits
    <2>2. /\ roles' = [roles EXCEPT ![o] = NoRole] /\ UNCHANGED members
          /\ \A u \in Users : members[u].role # o
      BY <1>4, <2>1 DEF DeleteRole
    <2>3. roles' \in [Roles -> RoleRow] /\ \A x \in Roles : x # o => roles'[x] = roles[x]
      BY <2>2 DEF TenantInv, TypeOK, RoleRow, NoRole
    <2>4. \A u \in Users : members[u].role # None => members[u].role \in Roles
      BY DEF TenantInv, TypeOK, MemberRow
    <2>5. requests' \in [Workers -> Request] /\ \A v \in Workers : Fits(requests'[v])
      BY <1>4, RequestsKept DEF DeleteRole
    <2> QED
      BY <2>2, <2>3, <2>4, <2>5 DEF TenantInv, TypeOK, IsMember, Fits, RoleFits, MemberFits, DeactivateFits
  <1> QED
    BY <1>1, <1>2, <1>3, <1>4

\* Requests about a membership until they write.
LEMMA MemberRequests ==
    ASSUME TenantInv, NEW a \in Users, NEW u \in Users, NEW r \in Roles, NEW kind \in {"member", "deactivate"}, NEW w \in Workers,
           LoadMember(w, a, u, kind) \/ OpenInvite(w, u) \/ DecideMember(w, r) \/ DecideDeactivate(w) \/ Abandon(w)
    PROVE  TenantInv'
  <1>1. CASE LoadMember(w, a, u, kind)
    <2>1. PICK q : q = [Idle EXCEPT !.kind = kind, !.actor = a, !.target = u, !.seen = members[u].role]
      OBVIOUS
    <2>2. members[u].role \in Roles
      BY <1>1 DEF LoadMember, IsMember, TenantInv, TypeOK, MemberRow
    <2>3. q \in Request /\ Fits(q)
      BY <2>1, <2>2 DEF Idle, Request, Kinds, Fits, MemberFits, DeactivateFits
    <2> QED
      BY <1>1, <2>1, <2>3, RequestSet DEF LoadMember, Begin
  <1>2. CASE OpenInvite(w, u)
    <2>1. PICK q : q = [Idle EXCEPT !.kind = "accept", !.checked = TRUE, !.target = u]
      OBVIOUS
    <2>2. q \in Request /\ Fits(q)
      BY <2>1 DEF Idle, Request, Kinds, Fits
    <2> QED
      BY <1>2, <2>1, <2>2, RequestSet DEF OpenInvite, Begin
  <1>3. ASSUME DecideMember(w, r) \/ DecideDeactivate(w) PROVE TenantInv'
    <2>1. PICK wanted, guarded :
              /\ (wanted = r /\ requests[w].kind = "member") \/ (wanted = None /\ requests[w].kind = "deactivate")
              /\ guarded = TRUE \/ guarded = FALSE
              /\ Decide(w, wanted, guarded)
      <3> DEFINE held(o) == ADMIN_GUARD_PERMISSION \in roles[requests[w].seen].permissions \ roles[o].permissions
                 admin == ADMIN_GUARD_PERMISSION \in roles[requests[w].seen].permissions
      <3>1. CASE DecideMember(w, r)
        <4>1. requests[w].kind = "member" /\ Decide(w, r, held(r))
          BY <3>1 DEF DecideMember, Loaded
        <4>2. held(r) = TRUE \/ held(r) = FALSE
          OBVIOUS
        <4> HIDE DEF held
        <4> QED
          BY <4>1, <4>2
      <3>2. CASE DecideDeactivate(w)
        <4>1. requests[w].kind = "deactivate" /\ Decide(w, None, admin)
          BY <3>2 DEF DecideDeactivate, Loaded
        <4>2. admin = TRUE \/ admin = FALSE
          OBVIOUS
        <4> HIDE DEF admin
        <4> QED
          BY <4>1, <4>2
      <3> QED
        BY <1>3, <3>1, <3>2
    <2>2. PICK q : q = [requests[w] EXCEPT !.checked = TRUE, !.wanted = wanted, !.guarded = guarded]
      OBVIOUS
    <2>3. requests[w] \in Request /\ Fits(requests[w])
      BY DEF TenantInv, TypeOK
    <2>4. q \in Request /\ Fits(q)
      BY <2>1, <2>2, <2>3 DEF Request, Fits, MemberFits, DeactivateFits
    <2>5. requests' = [requests EXCEPT ![w] = q] /\ UNCHANGED <<roles, members>>
      BY <2>1, <2>2 DEF Decide
    <2> QED
      BY <2>4, <2>5, RequestSet
  <1>4. CASE Abandon(w)
    <2>1. Idle \in Request /\ Fits(Idle)
      BY DEF Idle, Request, Kinds, Fits
    <2> QED
      BY <1>4, <2>1, RequestSet DEF Abandon, End
  <1> QED
    BY <1>1, <1>2, <1>3, <1>4

\* Requests that write a membership they have not loaded.
LEMMA InviteSteps ==
    ASSUME TenantInv, NEW a \in Users, NEW u \in Users, NEW r \in Roles, Invite(a, u, r) \/ Activate(a, u)
    PROVE  TenantInv'
  <1>1. \A v \in Users : members[v] \in MemberRow /\ (members[v].role # None => roles[members[v].role].exists)
    BY DEF TenantInv, TypeOK, IsMember
  <1>2. CASE Invite(a, u, r)
    <2>1. PICK row : row = [role |-> r, active |-> FALSE, accepted |-> FALSE]
      OBVIOUS
    <2>2. row \in MemberRow /\ roles[row.role].exists /\ members' = [members EXCEPT ![u] = row]
      BY <1>2, <2>1 DEF Invite, MemberRow
    <2> QED
      BY <1>2, <2>2, RequestsKept, MemberWritten DEF Invite
  <1>3. CASE Activate(a, u)
    <2>1. PICK row : row = [members[u] EXCEPT !.active = TRUE]
      OBVIOUS
    <2>2. row \in MemberRow /\ row.role = members[u].role /\ members' = [members EXCEPT ![u] = row]
      BY <1>1, <1>3, <2>1 DEF Activate, MemberRow
    <2> QED
      BY <1>1, <1>3, <2>2, RequestsKept, MemberWritten DEF Activate
  <1> QED
    BY <1>2, <1>3

\* Requests that write the membership they have loaded.
LEMMA MemberSteps ==
    ASSUME TenantInv, NEW w \in Workers, AcceptInvite(w) \/ SaveMember(w) \/ Deactivate(w)
    PROVE  TenantInv'
  <1>1. \A v \in Users : members[v] \in MemberRow /\ (members[v].role # None => roles[members[v].role].exists)
    BY DEF TenantInv, TypeOK, IsMember
  <1>2. CASE AcceptInvite(w)
    <2>1. PICK v \in Users : v = requests[w].target
      BY <1>2 DEF AcceptInvite, Checked, TenantInv, Fits
    <2>2. PICK row : row = [members[v] EXCEPT !.accepted = TRUE, !.active = TRUE]
      OBVIOUS
    <2>3. row \in MemberRow /\ row.role = members[v].role /\ members' = [members EXCEPT ![v] = row]
      BY <1>1, <1>2, <2>1, <2>2 DEF AcceptInvite, MemberRow
    <2> QED
      BY <1>1, <1>2, <2>3, RequestsKept, MemberWritten DEF AcceptInvite
  <1>3. CASE SaveMember(w)
    <2>1. PICK v \in Users : v = requests[w].target
      BY <1>3 DEF SaveMember, Checked, TenantInv, Fits, MemberFits
    <2>2. PICK o \in Roles : o = requests[w].wanted
      BY <1>3 DEF SaveMember, Checked, TenantInv, Fits, MemberFits
    <2>3. PICK row : row = [members[v] EXCEPT !.role = o]
      OBVIOUS
    <2>4. row \in MemberRow /\ roles[row.role].exists /\ members' = [members EXCEPT ![v] = row]
      BY <1>1, <1>3, <2>1, <2>2, <2>3 DEF SaveMember, MemberRow
    <2> QED
      BY <1>3, <2>4, RequestsKept, MemberWritten DEF SaveMember
  <1>4. CASE Deactivate(w)
    <2>1. PICK v \in Users : v = requests[w].target
      BY <1>4 DEF Deactivate, Checked, TenantInv, Fits, DeactivateFits
    <2>2. PICK row : row = [members[v] EXCEPT !.active = FALSE]
      OBVIOUS
    <2>3. row \in MemberRow /\ row.role = members[v].role /\ members' = [members EXCEPT ![v] = row]
      BY <1>1, <1>4, <2>1, <2>2 DEF Deactivate, MemberRow
    <2> QED
      BY <1>1, <1>4, <2>3, RequestsKept, MemberWritten DEF Deactivate
  <1> QED
    BY <1>2, <1>3, <1>4

\* Every step keeps the invariant.
LEMMA TenantStep == TenantInv /\ [Next]_vars => TenantInv'
  <1> SUFFICES ASSUME TenantInv, [Next]_vars PROVE TenantInv'
    OBVIOUS
  <1>1. CASE UNCHANGED vars
    BY <1>1 DEF vars, TenantInv, TypeOK, IsMember, Fits, RoleFits, MemberFits, DeactivateFits
  <1>2. ASSUME NEW a \in Users, NEW r \in Roles, NEW ps \in SUBSET Permissions, CreateRole(a, r, ps) PROVE TenantInv'
    BY <1>2, RequestsKept, RoleWritten DEF CreateRole
  <1>3. ASSUME NEW a \in Users, NEW u \in Users, Activate(a, u) \/ \E r \in Roles : Invite(a, u, r) PROVE TenantInv'
    BY <1>3, FirstRole \in Roles, InviteSteps
  <1>4. ASSUME NEW w \in Workers,
               \/ \E a \in Users, r \in Roles : LoadRole(w, a, r)
               \/ \E ps \in SUBSET Permissions : DecideRole(w, ps)
               \/ SaveRole(w) \/ DeleteRole(w)
        PROVE  TenantInv'
    BY <1>4, FirstUser \in Users, FirstRole \in Roles, {} \in SUBSET Permissions, RoleSteps
  <1>5. ASSUME NEW w \in Workers,
               \/ \E a \in Users, u \in Users, kind \in {"member", "deactivate"} : LoadMember(w, a, u, kind)
               \/ \E r \in Roles : DecideMember(w, r)
               \/ \E u \in Users : OpenInvite(w, u)
               \/ DecideDeactivate(w) \/ Abandon(w)
        PROVE  TenantInv'
    BY <1>5, FirstUser \in Users, FirstRole \in Roles, MemberRequests
  <1> QED
    BY <1>1, <1>2, <1>3, <1>4, <1>5, MemberSteps DEF Next

-----------------------------------------------------------------------------
(* The last administrator                                                   *)

\* Who administers: active members whose role has the guard's permission.
LEMMA AdministratorsAre ==
    Administrators = {u \in Users : /\ members[u].role # None /\ members[u].active
                                    /\ ADMIN_GUARD_PERMISSION \in roles[members[u].role].permissions}
  BY DEF Administrators, PermissionsOf, IsMember
LEMMA AdministratorsBecome ==
    Administrators' = {u \in Users : /\ members'[u].role # None /\ members'[u].active
                                     /\ ADMIN_GUARD_PERMISSION \in roles'[members'[u].role].permissions}
  BY DEF Administrators, PermissionsOf, IsMember

\* An administrator whose membership stays, and whose role keeps the permission, remains.
LEMMA AdministratorRemains ==
    ASSUME NEW v \in Administrators, members'[v].role # None, members'[v].active,
           ADMIN_GUARD_PERMISSION \in roles'[members'[v].role].permissions
    PROVE  Administrators' # {}
  BY AdministratorsAre, AdministratorsBecome

\* A request that saves a role takes the last administrator only from an outdated copy.
LEMMA SaveRoleGuarded ==
    ASSUME TenantInv, NEW w \in Workers, SaveRole(w), Administrators # {}, ~Outdated(w)
    PROVE  Administrators' # {}
  <1>1. RoleFits(requests[w]) /\ requests[w].checked /\ requests[w].kind = "role"
    BY DEF SaveRole, Checked, TenantInv, Fits
  <1>2. PICK r \in Roles : r = requests[w].target
    BY <1>1 DEF RoleFits
  <1>3. roles[r].permissions = requests[w].seen
    BY <1>1, <1>2 DEF Outdated
  <1>4. roles'[r].permissions = requests[w].wanted /\ \A o \in Roles : o # r => roles'[o] = roles[o]
    BY <1>2 DEF SaveRole, TenantInv, TypeOK
  <1>5. UNCHANGED members /\ \A v \in Administrators : members[v].role \in Roles
    BY AdministratorsAre DEF SaveRole, TenantInv, TypeOK, MemberRow
  <1>6. CASE requests[w].guarded
    <2>1. PICK v \in Administrators : members[v].role # r
      BY <1>2, <1>6 DEF SaveRole, RemainWithout
    <2> QED
      BY <1>4, <1>5, <2>1, AdministratorsAre, AdministratorRemains
  <1>7. CASE ~requests[w].guarded
    <2>1. ADMIN_GUARD_PERMISSION \notin requests[w].seen \ requests[w].wanted
      BY <1>1, <1>7 DEF RoleFits
    <2>2. PICK v : v \in Administrators
      OBVIOUS
    <2>3. ADMIN_GUARD_PERMISSION \in roles'[members[v].role].permissions
      BY <1>3, <1>4, <1>5, <2>1, <2>2, AdministratorsAre
    <2> QED
      BY <1>5, <2>2, <2>3, AdministratorsAre, AdministratorRemains
  <1> QED
    BY <1>6, <1>7

\* So does one that saves a membership with another role.
LEMMA SaveMemberGuarded ==
    ASSUME TenantInv, NEW w \in Workers, SaveMember(w), Administrators # {}, ~Outdated(w)
    PROVE  Administrators' # {}
  <1>1. MemberFits(requests[w]) /\ requests[w].checked /\ requests[w].kind = "member"
    BY DEF SaveMember, Checked, TenantInv, Fits
  <1>2. PICK u \in Users : u = requests[w].target
    BY <1>1 DEF MemberFits
  <1>3. PICK r \in Roles : r = requests[w].wanted
    BY <1>1 DEF MemberFits
  <1>4. requests[w].guarded = (ADMIN_GUARD_PERMISSION \in roles[members[u].role].permissions \ roles[r].permissions)
    BY <1>1, <1>2, <1>3 DEF Outdated
  <1>5. /\ UNCHANGED roles /\ members' = [members EXCEPT ![u].role = r]
        /\ \A v \in Users : members[v] \in MemberRow
    BY <1>2, <1>3 DEF SaveMember, TenantInv, TypeOK
  <1>6. \A v \in Users \ {u} : members'[v] = members[v]
    BY <1>5 DEF TenantInv, TypeOK
  <1>7. members'[u].role = r /\ members'[u].active = members[u].active /\ r # None
    BY <1>5 DEF TenantInv, TypeOK, MemberRow
  <1>8. CASE requests[w].guarded
    <2>1. PICK v \in Administrators : v # u
      BY <1>2, <1>8 DEF SaveMember, RemainWithout
    <2> QED
      BY <1>5, <1>6, <2>1, AdministratorsAre, AdministratorRemains
  <1>9. CASE ~requests[w].guarded
    <2>1. PICK v : v \in Administrators
      OBVIOUS
    <2>2. CASE v = u
      BY <1>4, <1>5, <1>7, <1>9, <2>1, <2>2, AdministratorsAre, AdministratorRemains
    <2>3. CASE v # u
      BY <1>5, <1>6, <2>1, <2>3, AdministratorsAre, AdministratorRemains
    <2> QED
      BY <2>2, <2>3
  <1> QED
    BY <1>8, <1>9

\* And one that deactivates a membership.
LEMMA DeactivateGuarded ==
    ASSUME TenantInv, NEW w \in Workers, Deactivate(w), Administrators # {}, ~Outdated(w)
    PROVE  Administrators' # {}
  <1>1. DeactivateFits(requests[w]) /\ requests[w].checked /\ requests[w].kind = "deactivate"
    BY DEF Deactivate, Checked, TenantInv, Fits
  <1>2. PICK u \in Users : u = requests[w].target
    BY <1>1 DEF DeactivateFits
  <1>3. requests[w].guarded = (ADMIN_GUARD_PERMISSION \in roles[members[u].role].permissions)
    BY <1>1, <1>2 DEF Outdated
  <1>4. UNCHANGED roles /\ members' = [members EXCEPT ![u].active = FALSE]
    BY <1>2 DEF Deactivate
  <1>5. \A v \in Users \ {u} : members'[v] = members[v]
    BY <1>4 DEF TenantInv, TypeOK
  <1>6. PICK v \in Administrators : v # u
    BY <1>2, <1>3, AdministratorsAre DEF Deactivate, RemainWithout
  <1> QED
    BY <1>4, <1>5, <1>6, AdministratorsAre, AdministratorRemains

\* No other request takes an administrator away.
LEMMA OthersKeepAdministrators ==
    ASSUME TenantInv, Administrators # {},
           \/ \E a \in Users, r \in Roles, ps \in SUBSET Permissions : CreateRole(a, r, ps)
           \/ \E a \in Users, u \in Users : Activate(a, u) \/ \E r \in Roles : Invite(a, u, r)
           \/ \E w \in Workers : DeleteRole(w) \/ AcceptInvite(w)
           \/ UNCHANGED <<roles, members>>
    PROVE  Administrators' # {}
  <1>1. PICK v : v \in Administrators
    OBVIOUS
  <1>2. /\ v \in Users /\ members[v] \in MemberRow /\ members[v].role \in Roles /\ members[v].active
        /\ roles[members[v].role].exists /\ ADMIN_GUARD_PERMISSION \in roles[members[v].role].permissions
    BY <1>1, AdministratorsAre DEF TenantInv, TypeOK, MemberRow, IsMember
  <1>3. members'[v].role = members[v].role /\ members'[v].active /\ roles'[members[v].role] = roles[members[v].role]
    <2>1. ASSUME NEW a \in Users, NEW r \in Roles, NEW ps \in SUBSET Permissions, CreateRole(a, r, ps) PROVE <1>3
      BY <1>2, <2>1 DEF CreateRole, TenantInv, TypeOK
    <2>2. ASSUME NEW a \in Users, NEW u \in Users, Activate(a, u) \/ \E r \in Roles : Invite(a, u, r) PROVE <1>3
      BY <1>2, <2>2 DEF Activate, Invite, IsMember, TenantInv, TypeOK, MemberRow
    <2>3. ASSUME NEW w \in Workers, DeleteRole(w) PROVE <1>3
      BY <1>2, <2>3 DEF DeleteRole, TenantInv, TypeOK
    <2>4. ASSUME NEW w \in Workers, AcceptInvite(w) PROVE <1>3
      BY <1>2, <2>4 DEF AcceptInvite, TenantInv, TypeOK, MemberRow
    <2> QED
      BY <1>2, <2>1, <2>2, <2>3, <2>4
  <1> QED
    BY <1>1, <1>2, <1>3, AdministratorRemains

\* A step that takes the last administrator is an outdated request's last.
LEMMA LastIsGuarded ==
    ASSUME TenantInv, [Next]_vars
    PROVE  [Administrators # {} /\ Administrators' = {} => \E w \in Workers : Outdated(w) /\ requests'[w] = Idle]_vars
  <1> SUFFICES ASSUME Next, Administrators # {}, Administrators' = {}
               PROVE  \E w \in Workers : Outdated(w) /\ requests'[w] = Idle
    OBVIOUS
  <1>1. PICK w \in Workers : SaveRole(w) \/ SaveMember(w) \/ Deactivate(w)
    BY OthersKeepAdministrators DEF Next, LoadRole, DecideRole, LoadMember, DecideMember, OpenInvite, DecideDeactivate,
                                    Begin, Decide, Abandon
  <1>2. Outdated(w)
    BY <1>1, SaveRoleGuarded, SaveMemberGuarded, DeactivateGuarded
  <1>3. requests'[w] = Idle
    BY <1>1 DEF SaveRole, SaveMember, Deactivate, End, TenantInv, TypeOK
  <1> QED
    BY <1>2, <1>3

\* The invariant holds while requests of the platform interleave.
LEMMA TenantWithin == AdministrationSpec => []TenantInv
  <1>1. TenantInv /\ [AdministrationNext]_<<vars, platformVars>> => TenantInv'
    BY TenantStep DEF AdministrationNext
  <1> QED
    BY <1>1, TenantInit, PTL DEF AdministrationSpec, AdministrationInit

(* A tenant loses its last administrator only to a request that decided from a copy *)
(* which is out of date when it writes, for any users, roles, permissions and       *)
(* requests, of the tenant alone or among those of the platform                     *)
(* (_ensure_not_removing_last_administrator, update_role, update_membership,        *)
(* deactivate_membership, delete_role).                                             *)
THEOREM LastAdministratorGuarded == (Spec \/ AdministrationSpec) => LastAdministratorIsGuarded
  <1>1. TenantInv /\ [Next]_vars =>
        [Administrators # {} /\ Administrators' = {} => \E w \in Workers : Outdated(w) /\ requests'[w] = Idle]_vars
    BY LastIsGuarded
  <1>2. [AdministrationNext]_<<vars, platformVars>> => [Next]_vars
    BY DEF AdministrationNext
  <1>3. Spec => LastAdministratorIsGuarded
    BY <1>1, TenantInit, TenantStep, PTL DEF Spec, LastAdministratorIsGuarded
  <1>4. AdministrationSpec => LastAdministratorIsGuarded
    BY <1>1, <1>2, TenantWithin, PTL DEF AdministrationSpec, LastAdministratorIsGuarded
  <1> QED
    BY <1>3, <1>4

-----------------------------------------------------------------------------
(* The platform's plans                                                     *)

\* The cardinality the instanced module counts with.
LEMMA PlatformCounts == ASSUME NEW S PROVE Platform!Cardinality(S) = Cardinality(S)
  BY DEF Platform!Cardinality, Cardinality

\* A set of which any two members are one has at most one.
LEMMA AtMostOne ==
    ASSUME NEW S, \A x, y \in S : x = y
    PROVE  Cardinality(S) <= 1
  <1>1. CASE S = {}
    BY <1>1, FS_EmptySet
  <1>2. CASE S # {}
    <2>1. PICK x : x \in S
      BY <1>2
    <2>2. S = {x}
      BY <2>1
    <2>3. Cardinality({x}) = 1
      BY FS_Singleton
    <2> QED
      BY <2>2, <2>3
  <1> QED
    BY <1>1, <1>2

(* The platform's rows: one default at most, which is active; what a tenant is       *)
(* subscribed to exists; a request in progress holds a copy of some plan.            *)
PlatformInv ==
    /\ Platform!TypeOK
    /\ \A p, q \in Platform!DefaultPlans : p = q
    /\ \A p \in Plans : plans[p].default => plans[p].exists /\ plans[p].active
    /\ \A t \in Tenants : subscriptions[t] # None => plans[subscriptions[t]].exists
    /\ \A w \in Workers : edits[w].kind # "none" => edits[w].plan \in Plans

\* The invariant holds at first.
LEMMA PlatformInit == Platform!Init => PlatformInv
  <1> SUFFICES ASSUME Platform!Init PROVE PlatformInv
    OBVIOUS
  <1>1. Platform!TypeOK
    BY DEF Platform!Init, Platform!TypeOK, Platform!PlanRow, Platform!NoPlan, Platform!Edit, Platform!NoEdit
  <1>2. \A p \in Plans : plans[p].default => p = SeededPlan /\ plans[p].exists /\ plans[p].active
    BY DEF Platform!Init, Platform!NoPlan
  <1> QED
    BY <1>1, <1>2 DEF Platform!Init, PlatformInv, Platform!DefaultPlans, Platform!NoEdit

\* Plans whose rows keep what the invariant says of them.
PlansFit ==
    /\ plans \in [Plans -> Platform!PlanRow]
    /\ \A p, q \in Platform!DefaultPlans : p = q
    /\ \A p \in Plans : plans[p].default => plans[p].exists /\ plans[p].active

\* A row is written as the default only with the others' flags cleared or without others.
LEMMA PlanWritten ==
    ASSUME PlatformInv, NEW p \in Plans, NEW modules \in SUBSET Modules, NEW active \in BOOLEAN, NEW default \in BOOLEAN,
           NEW cleared \in BOOLEAN, default => active, default /\ ~cleared => Platform!DefaultPlans \subseteq {p},
           cleared => default,
           plans' = Platform!Written(p, [exists |-> TRUE, modules |-> modules, active |-> active, default |-> default], cleared)
    PROVE  PlansFit' /\ \A q \in Plans : plans[q].exists => plans'[q].exists
  <1>1. PICK row : row = [exists |-> TRUE, modules |-> modules, active |-> active, default |-> default]
    OBVIOUS
  <1>2. row \in Platform!PlanRow /\ row.exists /\ row.active = active /\ row.default = default
    BY <1>1 DEF Platform!PlanRow
  <1>3. \A q \in Plans : plans[q] \in Platform!PlanRow
    BY DEF PlatformInv, Platform!TypeOK
  <1>4. plans' = [q \in Plans |-> IF q = p THEN row
                                  ELSE IF cleared THEN [plans[q] EXCEPT !.default = FALSE] ELSE plans[q]]
    BY <1>1 DEF Platform!Written
  <1>5. \A q \in Plans \ {p} : /\ plans'[q] \in Platform!PlanRow
                               /\ plans'[q].exists = plans[q].exists /\ plans'[q].active = plans[q].active
                               /\ plans'[q].default => ~cleared /\ plans[q].default
    <2>1. CASE cleared
      <3> SUFFICES ASSUME NEW q \in Plans \ {p}
                   PROVE  /\ plans'[q] \in Platform!PlanRow
                          /\ plans'[q].exists = plans[q].exists /\ plans'[q].active = plans[q].active
                          /\ ~plans'[q].default
        BY <2>1
      <3>1. plans'[q] = [plans[q] EXCEPT !.default = FALSE]
        BY <1>4, <2>1
      <3> QED
        BY <1>3, <3>1 DEF Platform!PlanRow
    <2>2. CASE ~cleared
      BY <1>3, <1>4, <2>2
    <2> QED
      BY <2>1, <2>2
  <1>6. plans'[p] = row
    BY <1>4
  <1>7. plans' \in [Plans -> Platform!PlanRow] /\ \A q \in Plans : plans[q].exists => plans'[q].exists
    BY <1>2, <1>4, <1>5, <1>6
  <1>8. \A q \in Plans : plans'[q].default => plans'[q].exists /\ plans'[q].active
    BY <1>2, <1>5, <1>6 DEF PlatformInv
  <1>9. ASSUME NEW q \in Plans, NEW o \in Plans, plans'[q].default, plans'[o].default PROVE q = o
    <2>1. CASE cleared
      BY <1>5, <1>9, <2>1
    <2>2. CASE ~cleared
      <3>1. \A x \in Plans \ {p} : plans'[x].default => plans[x].default
        BY <1>5
      <3>2. plans'[p].default => \A x \in Plans : plans[x].default => x = p
        BY <1>2, <1>6, <2>2 DEF Platform!DefaultPlans
      <3>3. \A x, y \in Plans : plans[x].default /\ plans[y].default => x = y
        BY DEF PlatformInv, Platform!DefaultPlans
      <3> QED
        BY <1>9, <3>1, <3>2, <3>3
    <2> QED
      BY <2>1, <2>2
  <1> QED
    BY <1>7, <1>8, <1>9 DEF PlansFit, Platform!DefaultPlans

\* Requests end, or load a plan, and the tables keep what they promise.
LEMMA PlatformKept ==
    ASSUME PlansFit', edits' \in [Workers -> Platform!Edit], \A w \in Workers : edits'[w].kind # "none" => edits'[w].plan \in Plans,
           subscriptions' \in [Tenants -> Plans \cup {None}],
           \A t \in Tenants : subscriptions'[t] # None => plans'[subscriptions'[t]].exists,
           tenants' \in [Tenants -> {"absent", "active", "inactive"}],
           overrides' \in [Tenants -> [Modules -> {"none", "on", "off"}]]
    PROVE  PlatformInv'
  BY DEF PlansFit, PlatformInv, Platform!TypeOK, Platform!DefaultPlans

\* What requests keep when one of them ends, or none does.
LEMMA EditsKept ==
    ASSUME PlatformInv, UNCHANGED edits \/ \E w \in Workers : Platform!EndEdit(w)
    PROVE  edits' \in [Workers -> Platform!Edit] /\ \A w \in Workers : edits'[w].kind # "none" => edits'[w].plan \in Plans
  <1>1. Platform!NoEdit \in Platform!Edit /\ Platform!NoEdit.kind = "none"
    BY DEF Platform!NoEdit, Platform!Edit, Platform!NoPlan, Platform!PlanRow
  <1> QED
    BY <1>1 DEF PlatformInv, Platform!TypeOK, Platform!EndEdit

\* What the invariant says of each table.
LEMMA PlatformSays ==
    ASSUME PlatformInv
    PROVE  /\ PlansFit
           /\ edits \in [Workers -> Platform!Edit] /\ \A w \in Workers : edits[w].kind # "none" => edits[w].plan \in Plans
           /\ subscriptions \in [Tenants -> Plans \cup {None}]
           /\ \A t \in Tenants : subscriptions[t] # None => plans[subscriptions[t]].exists
           /\ tenants \in [Tenants -> {"absent", "active", "inactive"}]
           /\ overrides \in [Tenants -> [Modules -> {"none", "on", "off"}]]
  BY DEF PlansFit, PlatformInv, Platform!TypeOK

\* Plans are created and updated, never as a second default.
LEMMA PlanSteps ==
    ASSUME PlatformInv, NEW modules \in SUBSET Modules, NEW active \in BOOLEAN, NEW default \in BOOLEAN,
           \/ \E p \in Plans : Platform!CreatePlan(p, modules, active, default)
           \/ \E w \in Workers : Platform!UpdatePlan(w, modules, active, default)
    PROVE  PlatformInv'
  <1>1. PICK p \in Plans, cleared \in BOOLEAN :
            /\ default => active
            /\ default /\ ~cleared => Platform!DefaultPlans \subseteq {p}
            /\ cleared => default
            /\ plans' = Platform!Written(p, [exists |-> TRUE, modules |-> modules, active |-> active, default |-> default], cleared)
    <2>1. CASE \E p \in Plans : Platform!CreatePlan(p, modules, active, default)
      BY <2>1 DEF Platform!CreatePlan
    <2>2. CASE \E w \in Workers : Platform!UpdatePlan(w, modules, active, default)
      <3>1. PICK w \in Workers : Platform!UpdatePlan(w, modules, active, default)
        BY <2>2
      <3>2. edits[w].plan \in Plans /\ (default => active)
        BY <3>1 DEF Platform!UpdatePlan, Platform!MaySave, PlatformInv
      <3>3. PICK given \in BOOLEAN :
                /\ default /\ ~given => Platform!DefaultPlans \subseteq {edits[w].plan}
                /\ plans' = Platform!Written(edits[w].plan,
                       [exists |-> TRUE, modules |-> modules, active |-> active, default |-> default], given /\ default)
        BY <3>1 DEF Platform!UpdatePlan
      <3>4. PICK cleared \in BOOLEAN : cleared = (given /\ default)
        OBVIOUS
      <3> QED
        BY <3>2, <3>3, <3>4
    <2> QED
      BY <2>1, <2>2
  <1>2. PlansFit' /\ \A q \in Plans : plans[q].exists => plans'[q].exists
    BY <1>1, PlanWritten
  <1>3. UNCHANGED <<subscriptions, tenants, overrides>> /\ (UNCHANGED edits \/ \E w \in Workers : Platform!EndEdit(w))
    BY DEF Platform!CreatePlan, Platform!UpdatePlan
  <1> QED
    BY <1>2, <1>3, EditsKept, PlatformSays, PlatformKept

\* A plan without subscribers is deleted.
LEMMA DeletionStep ==
    ASSUME PlatformInv, NEW w \in Workers, Platform!DeletePlan(w)
    PROVE  PlatformInv'
  <1>1. PICK p \in Plans : p = edits[w].plan
    BY DEF Platform!DeletePlan, PlatformInv
  <1>2. /\ plans' = [plans EXCEPT ![p] = Platform!NoPlan] /\ UNCHANGED <<subscriptions, tenants, overrides>>
        /\ \A t \in Tenants : subscriptions[t] # p
    BY <1>1 DEF Platform!DeletePlan, Platform!Subscribers
  <1>3. Platform!NoPlan \in Platform!PlanRow /\ ~Platform!NoPlan.default
    BY DEF Platform!NoPlan, Platform!PlanRow
  <1>4. /\ plans' \in [Plans -> Platform!PlanRow] /\ \A q \in Plans \ {p} : plans'[q] = plans[q]
        /\ plans'[p] = Platform!NoPlan
    BY <1>2, <1>3 DEF PlatformInv, Platform!TypeOK
  <1>5. PlansFit'
    BY <1>3, <1>4 DEF PlansFit, PlatformInv, Platform!DefaultPlans
  <1>6. \A t \in Tenants : subscriptions'[t] # None => plans'[subscriptions'[t]].exists
    BY <1>2, <1>4, PlatformSays
  <1>7. edits' \in [Workers -> Platform!Edit] /\ \A v \in Workers : edits'[v].kind # "none" => edits'[v].plan \in Plans
    BY EditsKept DEF Platform!DeletePlan
  <1> QED
    BY <1>2, <1>5, <1>6, <1>7, PlatformSays, PlatformKept

\* Requests load a plan, assign it or are refused.
LEMMA EditSteps ==
    ASSUME PlatformInv, NEW w \in Workers,
           \/ \E p \in Plans, kind \in {"update", "delete", "assign"} : Platform!LoadPlan(w, kind, p)
           \/ \E t \in Tenants : Platform!AssignPlan(w, t)
    PROVE  PlatformInv'
  <1>1. ASSUME NEW p \in Plans, NEW kind \in {"update", "delete", "assign"}, Platform!LoadPlan(w, kind, p)
        PROVE  PlatformInv'
    <2>1. PICK edit : edit = [kind |-> kind, plan |-> p, copy |-> plans[p]]
      OBVIOUS
    <2>2. edit \in Platform!Edit /\ edit.plan \in Plans
      BY <2>1 DEF Platform!Edit, PlatformInv, Platform!TypeOK
    <2>3. edits' = [edits EXCEPT ![w] = edit] /\ UNCHANGED <<plans, subscriptions, tenants, overrides>>
      BY <1>1, <2>1 DEF Platform!LoadPlan
    <2>4. edits' \in [Workers -> Platform!Edit] /\ \A v \in Workers : edits'[v].kind # "none" => edits'[v].plan \in Plans
      BY <2>2, <2>3, PlatformSays
    <2>5. PlansFit'
      BY <2>3, PlatformSays DEF PlansFit, Platform!DefaultPlans
    <2> QED
      BY <2>3, <2>4, <2>5, PlatformSays, PlatformKept
  <1>2. ASSUME NEW t \in Tenants, Platform!AssignPlan(w, t) PROVE PlatformInv'
    <2>1. PICK q \in Plans : q = edits[w].plan
      BY <1>2 DEF Platform!AssignPlan, PlatformInv
    <2>2. /\ subscriptions' = [subscriptions EXCEPT ![t] = q] /\ plans[q].exists /\ UNCHANGED <<plans, tenants, overrides>>
      BY <1>2, <2>1 DEF Platform!AssignPlan
    <2>3. PlansFit'
      BY <2>2, PlatformSays DEF PlansFit, Platform!DefaultPlans
    <2>4. edits' \in [Workers -> Platform!Edit] /\ \A v \in Workers : edits'[v].kind # "none" => edits'[v].plan \in Plans
      BY <1>2, EditsKept DEF Platform!AssignPlan
    <2>5. /\ subscriptions' \in [Tenants -> Plans \cup {None}]
          /\ \A x \in Tenants : subscriptions'[x] # None => plans'[subscriptions'[x]].exists
      BY <2>2, PlatformSays
    <2> QED
      BY <2>2, <2>3, <2>4, <2>5, PlatformSays, PlatformKept
  <1> QED
    BY <1>1, <1>2

\* A tenant is provisioned with the default plan, changed, or given an override.
LEMMA TenantRowSteps ==
    ASSUME PlatformInv, NEW t \in Tenants,
           \/ Platform!ProvisionTenant(t)
           \/ \E activity \in {"active", "inactive"} : Platform!UpdateTenant(t, activity)
           \/ \E m \in Modules, value \in {"none", "on", "off"} : Platform!SetModuleOverride(t, m, value)
    PROVE  PlatformInv'
  <1>1. UNCHANGED <<plans, edits>>
    BY DEF Platform!ProvisionTenant, Platform!UpdateTenant, Platform!SetModuleOverride
  <1>2. PlansFit' /\ edits' \in [Workers -> Platform!Edit] /\ \A w \in Workers : edits'[w].kind # "none" => edits'[w].plan \in Plans
    BY <1>1, PlatformSays DEF PlansFit, Platform!DefaultPlans
  <1>3. tenants' \in [Tenants -> {"absent", "active", "inactive"}]
    BY PlatformSays DEF Platform!ProvisionTenant, Platform!UpdateTenant, Platform!SetModuleOverride
  <1>4. overrides' \in [Tenants -> [Modules -> {"none", "on", "off"}]]
    <2>1. CASE UNCHANGED overrides
      BY <2>1, PlatformSays
    <2>2. ASSUME NEW m \in Modules, NEW value \in {"none", "on", "off"}, Platform!SetModuleOverride(t, m, value)
          PROVE  overrides' \in [Tenants -> [Modules -> {"none", "on", "off"}]]
      <3>1. PICK chosen : chosen = [overrides[t] EXCEPT ![m] = value]
        OBVIOUS
      <3>2. chosen \in [Modules -> {"none", "on", "off"}]
        BY <3>1, PlatformSays
      <3>3. overrides' = [overrides EXCEPT ![t] = chosen]
        BY <2>2, <3>1 DEF Platform!SetModuleOverride
      <3> QED
        BY <3>2, <3>3, PlatformSays
    <2> QED
      BY <2>1, <2>2 DEF Platform!ProvisionTenant, Platform!UpdateTenant
  <1>5. /\ subscriptions' \in [Tenants -> Plans \cup {None}]
        /\ \A x \in Tenants : subscriptions'[x] # None => plans'[subscriptions'[x]].exists
    <2>1. CASE UNCHANGED subscriptions
      BY <1>1, <2>1, PlatformSays
    <2>2. CASE Platform!ProvisionTenant(t) /\ subscriptions' # subscriptions
      <3>1. PICK p \in Platform!DefaultPlans : subscriptions' = [subscriptions EXCEPT ![t] = p]
        BY <2>2 DEF Platform!ProvisionTenant
      <3>2. p \in Plans /\ plans[p].exists
        BY DEF PlatformInv, Platform!DefaultPlans
      <3> QED
        BY <1>1, <3>1, <3>2, PlatformSays
    <2> QED
      BY <2>1, <2>2 DEF Platform!UpdateTenant, Platform!SetModuleOverride
  <1> QED
    BY <1>2, <1>3, <1>4, <1>5, PlatformKept

\* Every step keeps the invariant.
LEMMA PlatformStep == PlatformInv /\ [Platform!Next]_platformVars => PlatformInv'
  <1> SUFFICES ASSUME PlatformInv, [Platform!Next]_platformVars PROVE PlatformInv'
    OBVIOUS
  <1>1. CASE UNCHANGED platformVars
    BY <1>1 DEF platformVars, PlatformInv, Platform!TypeOK, Platform!DefaultPlans
  <1>2. ASSUME NEW w \in Workers, Platform!Refuse(w) PROVE PlatformInv'
    <2>1. UNCHANGED <<plans, subscriptions, tenants, overrides>> /\ Platform!EndEdit(w)
      BY <1>2 DEF Platform!Refuse
    <2>2. PlansFit'
      BY <2>1, PlatformSays DEF PlansFit, Platform!DefaultPlans
    <2> QED
      BY <2>1, <2>2, EditsKept, PlatformSays, PlatformKept
  <1>3. ASSUME NEW modules \in SUBSET Modules, NEW active \in BOOLEAN, NEW default \in BOOLEAN,
               \/ \E p \in Plans : Platform!CreatePlan(p, modules, active, default)
               \/ \E w \in Workers : Platform!UpdatePlan(w, modules, active, default)
        PROVE  PlatformInv'
    BY <1>3, PlanSteps
  <1> QED
    BY <1>1, <1>2, <1>3, EditSteps, DeletionStep, TenantRowSteps DEF Platform!Next

\* What the invariant says of the plans.
LEMMA PlansSay == PlatformInv => Platform!TypeOK /\ Platform!PlansConsistent
  <1> SUFFICES ASSUME PlatformInv PROVE Platform!TypeOK /\ Platform!PlansConsistent
    OBVIOUS
  <1>1. Platform!Cardinality(Platform!DefaultPlans) <= 1
    <2>1. Cardinality(Platform!DefaultPlans) <= 1
      BY AtMostOne DEF PlatformInv
    <2> QED
      BY <2>1, PlatformCounts
  <1> QED
    BY <1>1 DEF PlatformInv, Platform!DefaultPlans, Platform!PlansConsistent

\* The platform's invariant holds while requests of the tenant interleave.
LEMMA PlatformWithin == AdministrationSpec => []PlatformInv
  <1>1. PlatformInv /\ [AdministrationNext]_<<vars, platformVars>> => PlatformInv'
    BY PlatformStep DEF AdministrationNext
  <1> QED
    BY <1>1, PlatformInit, PTL DEF AdministrationSpec, AdministrationInit

(* The rows and requests of both components keep their types, and a membership's role *)
(* exists whatever delete_role raced with.                                            *)
THEOREM AdministrationTyped == AdministrationSpec => []AllTypesOK
  <1>1. TenantInv /\ PlatformInv => AllTypesOK
    BY DEF TenantInv, PlatformInv, AllTypesOK
  <1> QED
    BY <1>1, TenantWithin, PlatformWithin, PTL

(* However requests overlap, at most one plan is the default, it is active, and the   *)
(* plan a tenant is subscribed to exists, for any plans, tenants and requests         *)
(* (create_plan, update_plan, delete_plan, assign_plan_to_tenant and                  *)
(* provision_default_subscription).                                                   *)
THEOREM PlansStayConsistent == AdministrationSpec => []PlansConsistent
  BY PlatformWithin, PlansSay, PTL DEF PlansConsistent

\* A step that takes the default plan away is of a request whose copy was no default.
LEMMA DefaultIsKept ==
    ASSUME PlatformInv, Platform!Next, Platform!DefaultPlans # {}, Platform!DefaultPlans' = {}
    PROVE  \E w \in Workers : /\ edits[w].kind \in {"update", "delete"} /\ edits'[w] = Platform!NoEdit
                              /\ edits[w].plan \in Platform!DefaultPlans /\ ~edits[w].copy.default
  <1>1. PICK d : d \in Platform!DefaultPlans
    OBVIOUS
  <1>2. d \in Plans /\ plans[d].default /\ plans[d].exists /\ ~plans'[d].default
    BY <1>1 DEF PlatformInv, Platform!DefaultPlans
  <1>3. ~UNCHANGED plans
    BY <1>2
  <1>4. ASSUME NEW p \in Plans, NEW modules \in SUBSET Modules, NEW active \in BOOLEAN, NEW default \in BOOLEAN,
               Platform!CreatePlan(p, modules, active, default)
        PROVE  FALSE
    <2>1. p # d
      BY <1>2, <1>4 DEF Platform!CreatePlan
    <2>2. plans'[p].default = default /\ (~default => plans'[d] = plans[d])
      BY <1>2, <1>4, <2>1 DEF Platform!CreatePlan, Platform!Written
    <2> QED
      BY <1>2, <2>2 DEF Platform!DefaultPlans
  <1>5. ASSUME NEW w \in Workers, NEW modules \in SUBSET Modules, NEW active \in BOOLEAN, NEW default \in BOOLEAN,
               Platform!UpdatePlan(w, modules, active, default)
        PROVE  edits[w].kind = "update" /\ edits[w].plan = d /\ ~edits[w].copy.default /\ Platform!EndEdit(w)
    <2>1. PICK p \in Plans : p = edits[w].plan
      BY <1>5 DEF Platform!UpdatePlan, PlatformInv
    <2>2. PICK given \in BOOLEAN :
              plans' = Platform!Written(p, [exists |-> TRUE, modules |-> modules, active |-> active, default |-> default],
                                        given /\ default)
      BY <1>5, <2>1 DEF Platform!UpdatePlan
    <2>3. plans'[p].default = default
      BY <2>2 DEF Platform!Written
    <2>4. ~default
      BY <2>1, <2>3 DEF Platform!DefaultPlans
    <2>5. \A q \in Plans \ {p} : plans'[q] = plans[q]
      BY <2>2, <2>4 DEF Platform!Written
    <2>6. p = d
      BY <1>2, <2>5
    <2> QED
      BY <1>5, <2>1, <2>4, <2>6 DEF Platform!UpdatePlan, Platform!MaySave
  <1>6. ASSUME NEW w \in Workers, Platform!DeletePlan(w)
        PROVE  edits[w].kind = "delete" /\ edits[w].plan = d /\ ~edits[w].copy.default /\ Platform!EndEdit(w)
    BY <1>2, <1>6 DEF Platform!DeletePlan, PlatformInv, Platform!TypeOK
  <1>7. PICK w \in Workers :
            /\ edits[w].kind \in {"update", "delete"} /\ edits[w].plan = d /\ ~edits[w].copy.default
            /\ Platform!EndEdit(w)
    BY <1>3, <1>4, <1>5, <1>6 DEF Platform!Next, Platform!LoadPlan, Platform!AssignPlan, Platform!Refuse,
       Platform!ProvisionTenant, Platform!UpdateTenant, Platform!SetModuleOverride
  <1>8. edits'[w] = Platform!NoEdit
    BY <1>7, PlatformSays DEF Platform!EndEdit
  <1> QED
    BY <1>1, <1>7, <1>8

(* The platform loses its default plan only to an update or a deletion that was       *)
(* loaded before the plan became the default, for any plans and requests              *)
(* (update_plan, delete_plan).                                                        *)
THEOREM DefaultLostToStaleCopy == AdministrationSpec => DefaultLostOnlyByStaleCopy
  <1>1. PlatformInv /\ [AdministrationNext]_<<vars, platformVars>> =>
        [Platform!DefaultPlans # {} /\ Platform!DefaultPlans' = {} =>
            \E w \in Workers : /\ edits[w].kind \in {"update", "delete"} /\ edits'[w] = Platform!NoEdit
                               /\ edits[w].plan \in Platform!DefaultPlans /\ ~edits[w].copy.default]_(Platform!vars)
    BY DefaultIsKept DEF AdministrationNext, platformVars, Platform!vars
  <1> QED
    BY <1>1, PlatformWithin, PTL DEF AdministrationSpec, DefaultLostOnlyByStaleCopy, Platform!DefaultLostOnlyByStaleCopy
============================================================================
