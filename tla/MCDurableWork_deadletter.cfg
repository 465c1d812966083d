SPECIFICATION Spec
CONSTANTS
    r1 = r1
    r2 = r2
    w1 = w1
    w2 = w2
    Rows = {r1, r2}
    Workers = {w1, w2}
    MaxAttempts = 2
    Lease = 2
    TimeLimit = 2
    Limit = 2
    MaxKills = 2
    MaxRetries = 2
INVARIANT
    DeadLettersAfterMaxAttempts
SYMMETRY MCSymmetry
CHECK_DEADLOCK FALSE
