SPECIFICATION Spec
CONSTANTS
    s1 = s1
    s2 = s2
    k1 = k1
    k2 = k2
    Students = {s1, s2}
    Nobody = Nobody
    NInvoices = 1
    StudentOf <- MCStudentOf
    Keys = {k1}
    NoKey = NoKey
    Amounts = {0, 1}
    MaxAllocations = 1
    MaxOpenCredit = 0
INVARIANT
    CreditsAndCashWithinTotal
CHECK_DEADLOCK FALSE
