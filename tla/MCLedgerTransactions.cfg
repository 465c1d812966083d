SPECIFICATION Spec
CONSTANTS
    s1 = s1
    k1 = k1
    k2 = k2
    k3 = k3
    w1 = w1
    w2 = w2
    Students = {s1}
    Nobody = Nobody
    NInvoices = 2
    StudentOf <- MCStudentOf
    Keys = {k1, k2}
    NoKey = NoKey
    Amounts = {1}
    MaxAllocations = 2
    MaxOpenCredit = 1
    Workers = {w1, w2}
    Operations = {"generate_invoice", "issue_invoice", "issue_credit_note", "record_payment", "match_payment",
                  "allocate_payment", "reverse_allocation", "reverse_payment"}
    MaxNumber = 2
SYMMETRY MCSymmetry
INVARIANTS
    TypeOK
    NumbersAreGapless
PROPERTIES
    ImplementsLedger
CHECK_DEADLOCK FALSE
