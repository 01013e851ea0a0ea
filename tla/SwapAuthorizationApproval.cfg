SPECIFICATION Spec
CONSTANTS
    None = None
    Quote = {q1, q2}
    Native = {q2}
    Hash = {h1}
    Slot = {c1}
    MaxOps = 6
    MaxFaults = 0
INVARIANTS ApprovalPastConfirmation
CHECK_DEADLOCK FALSE
