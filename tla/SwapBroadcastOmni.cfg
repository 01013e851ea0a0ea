SPECIFICATION FullyFairSpec
CONSTANTS
    None = None
    h1 = h1
    h2 = h2
    p1 = p1
    p2 = p2
    Hash <- MCHash
    Post <- MCPost
    Submits <- MCSubmits
    Chat = {t1}
    Poll = {g1}
    Cancel = {}
    QuoteReference = FALSE
    MaxFaults = 0
PROPERTIES
    SelfHeals
CHECK_DEADLOCK FALSE
