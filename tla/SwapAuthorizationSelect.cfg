SPECIFICATION Spec
CONSTANTS
    None = None
    Quote = {q1, q2}
    Native = {q2}
    Hash = {h1}
    Slot = {c1}
    MaxOps = 3
    MaxFaults = 0
PROPERTIES SelectionAsks
CHECK_DEADLOCK FALSE
