SPECIFICATION SettledFairSpec
CONSTANTS
    s1 = s1
    k1 = k1
    k2 = k2
    k3 = k3
    w1 = w1
    w2 = w2
    Students = {s1}
    Nobody = Nobody
    NInvoices = 2
    StudentOf <- MCStudentOf
    Keys = {k1, k2, k3}
    NoKey = NoKey
    Amounts = {1}
    MaxAllocations = 5
    MaxOpenCredit = 0
    Workers = {w1, w2}
    Operations = {"reverse_allocation", "reverse_payment", "match_payment"}
    MaxNumber = 1
INVARIANTS
    NoCircularWait
PROPERTIES
    TransactionsEnd
CHECK_DEADLOCK FALSE
