SPECIFICATION SweepSpec
CONSTANTS
    None = None
    Requests = {}
    Receipts = {x1}
    Students = {s1}
    Amounts = {1}
    Codes = {1}
    Callbacks = {}
    Workers = {}
    Payloads = {}
    StudentOf <- MCNoFunction
    AmountOf <- MCNoFunction
PROPERTIES
    RecognisableIsResolved
CHECK_DEADLOCK FALSE
