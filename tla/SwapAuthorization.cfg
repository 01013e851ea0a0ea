SPECIFICATION Spec
CONSTANTS
    None = None
    Quote = {q1, q2}
    Native = {q2}
    Hash = {h1, h2}
    Slot = {c1}
    MaxOps = 5
    MaxFaults = 1
INVARIANTS TypeOK RejectionHolds PendingOfQuote
PROPERTIES PreparedAllowed ReadyInTheEnd
CHECK_DEADLOCK FALSE
