SPECIFICATION Spec
CONSTANTS
    Client = {c1, c2}
    None = None
    Lease = 3
    Period = 1
    Wait = 2
    MaxFaults = 1
INVARIANT Serialized
CHECK_DEADLOCK FALSE
