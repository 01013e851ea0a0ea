SPECIFICATION Spec
CONSTANTS
    None = None
    h1 = h1
    h2 = h2
    p1 = p1
    p2 = p2
    Hash <- MCHash
    Post <- MCPost
    Submits <- MCSubmits
    Chat = {t1}
    Poll = {}
    Cancel = {}
    QuoteReference = TRUE
    MaxFaults = 0
INVARIANTS
    OtherHashRejected
CHECK_DEADLOCK FALSE
