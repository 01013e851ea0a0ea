SPECIFICATION FairSpec
CONSTANTS
    Client = {c1, c2, c3}
    None = None
    Lease = 2
    Period = 1
    Wait = 1
    MaxFaults = 1
INVARIANTS
    TypeOK
    HealthyOwns
PROPERTIES
    KeyLeavesByOwner
    KeepsMutex
    WaiterAnswered
    KeyReclaimed
CHECK_DEADLOCK FALSE
