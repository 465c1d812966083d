SPECIFICATION RecordsSpec
CONSTANTS
    w1 = w1
    w2 = w2
    s1 = s1
    s2 = s2
    d1 = d1
    d2 = d2
    g1 = g1
    g2 = g2
    c1 = c1
    c2 = c2
    sms = sms
    email = email
    k1 = k1
    k2 = k2
    t1 = t1
    e1 = e1
    e2 = e2
    None = None
    Gone = Gone
    Workers = {w1, w2}
    Students = {s1, s2}
    Documents = {d1, d2}
    Employees = {e1, e2}
    Guardians = {g1, g2}
    Contacts = {c1, c2}
    Channels = {sms, email}
    Primary = g1
    Administrators = {n1, n2}
    MaxAttempts = 2
    MaxClaims = 2
    DeliveryClaims = 3
    MaxChanges = 4
    MaxMarks = 1
    LastBell = 2
    LastDay = 2
    Periods = {p1, p2}
    Rooms = {r1}
    Years = {y1}
    Items = {i1, i2}
    Accounts = {a1}
    Campuses = {x1, x2}
    AddressBooks <- MCAddressBooks
    BandChoices <- MCBandChoices
    Assigned <- MCAssigned
SYMMETRY MCSymmetry
INVARIANTS
    AllTypesOK
    RegisterStands
    NoDoubleBooking
    LinkedWithinScope
    AdmittedOnce
    BilledAsApproved
    ApprovedMarksStand
    FilesAndRowsAgree
    EveryoneEnqueued
    SentAgainOnlyWithCause
CHECK_DEADLOCK FALSE
