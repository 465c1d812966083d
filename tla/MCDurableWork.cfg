SPECIFICATION FairSpec
CONSTANTS
    r1 = r1
    r2 = r2
    w1 = w1
    w2 = w2
    Rows = {r1, r2}
    Workers = {w1, w2}
    MaxAttempts = 2
    Lease = 1
    TimeLimit = 1
    Limit = 2
    MaxKills = 1
    MaxRetries = 2
INVARIANTS
    TypeOK
    ClaimsAreExclusive
    AttemptsAreOwed
PROPERTIES
    SettledUntilRetried
    RowsSettle
CHECK_DEADLOCK FALSE
