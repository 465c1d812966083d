SPECIFICATION MCSpec
CONSTANTS
    r1 = r1
    r2 = r2
    t1 = t1
    supervisor = supervisor
    w1 = w1
    w2 = w2
    None = None
    Requests = {r1, r2}
    Workers = {w1, w2}
    Types = {t1}
    Roles = {supervisor}
    LastDay = 2
    MaxSpan = 1
    MaxStages = 2
    MaxBalance = 1
    TypeSettings <- MCTypeSettings
    YearStarts = {1, 2}
    Weeks <- MCWeeks
SYMMETRY MCSymmetry
INVARIANTS
    TypeOK
    DecidedAndPostedOnce
    RequestsAndLedgerAgree
PROPERTIES
    ApprovalsWithinBalance
CHECK_DEADLOCK FALSE
