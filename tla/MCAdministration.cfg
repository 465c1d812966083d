SPECIFICATION MCSpec
CONSTANTS
    u1 = u1
    u2 = u2
    r1 = r1
    r2 = r2
    guard = guard
    other = other
    w1 = w1
    w2 = w2
    p1 = p1
    p2 = p2
    t1 = t1
    m1 = m1
    None = None
    Users = {u1, u2}
    Roles = {r1, r2}
    Workers = {w1, w2}
    Permissions = {guard, other}
    ADMIN_GUARD_PERMISSION = guard
    RoleManage = guard
    Superusers = {}
    FirstRole = r1
    FirstUser = u1
    Plans = {p1, p2}
    Tenants = {t1}
    Modules = {m1}
    SeededPlan = p1
SYMMETRY MCSymmetry
INVARIANTS
    AllTypesOK
    PlansConsistent
PROPERTIES
    LastAdministratorIsGuarded
    DefaultLostOnlyByStaleCopy
CHECK_DEADLOCK FALSE
