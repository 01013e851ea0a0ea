SPECIFICATION FairSpec
CONSTANTS
    MaxUpdates = 2
    MaxFaults = 1
    MaxDrops = 2
    MaxRetries = 3
    Page = 2
    Retained = 2
INVARIANTS
    TypeOK
    InOrderOnce
    NoGap
    StatusFollowsFrame
    OneOutcome
    ProjectedBeforeFrame
    GiveUpBound
PROPERTIES
    OutcomeReachesClient
CHECK_DEADLOCK FALSE
