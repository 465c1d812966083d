SPECIFICATION StartedSpec
CONSTANTS
    r1 = r1
    r2 = r2
    x1 = x1
    s1 = s1
    s2 = s2
    c1 = c1
    c2 = c2
    w1 = w1
    w2 = w2
    None = None
    Requests = {r1, r2}
    Receipts = {x1}
    Students = {s1, s2}
    Amounts = {1, 2}
    Codes = {1}
    Callbacks = {c1, c2}
    Workers = {w1, w2}
    Payloads <- MCPayloads
    StudentOf <- MCStudentOf
    AmountOf <- MCAmountOf
SYMMETRY MCSymmetry
INVARIANTS
    TypeOK
    RequestsAreBacked
    ProcessedCallbacksStand
    DecisionsAreEvidenced
    PromptedOnce
PROPERTIES
    BookSteps
CHECK_DEADLOCK FALSE
