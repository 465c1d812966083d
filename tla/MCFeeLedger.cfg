SPECIFICATION Spec
CONSTANTS
    s1 = s1
    s2 = s2
    k1 = k1
    k2 = k2
    Students = {s1, s2}
    Nobody = Nobody
    NInvoices = 2
    StudentOf <- MCStudentOf
    Keys = {k1, k2}
    NoKey = NoKey
    Amounts = {0, 1, 2}
    MaxAllocations = 3
    MaxOpenCredit = 1
SYMMETRY MCSymmetry
INVARIANTS
    TypeOK
    CashIsConserved
    InvoicesNotOverpaid
    RowsWellFormed
    LedgerReconciles
PROPERTIES
    HistoryIsKept
CHECK_DEADLOCK FALSE
