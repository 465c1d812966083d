SPECIFICATION Spec
CONSTANTS
    d1 = d1
    d2 = d2
    w1 = w1
    w2 = w2
    None = None
    Documents = {d1, d2}
    Workers = {w1, w2}
INVARIANTS
    PurgeCrashLeavesNoDanglingRow
CHECK_DEADLOCK FALSE
