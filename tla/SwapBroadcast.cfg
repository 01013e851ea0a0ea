SPECIFICATION MCSpec
CONSTANTS
    None = None
    Absent = Absent
    h1 = h1
    h2 = h2
    p1 = p1
    p2 = p2
    Hash <- MCHash
    Post <- MCPost
    Submits <- MCSubmits
    Chat = {t1}
    Poll = {g1}
    Cancel = {x1}
    QuoteReference = TRUE
    MaxFaults = 1
    q1 = q1
    q2 = q2
    TransferPost <- MCTransferPost
    Carries <- MCCarries
    Prepare = {r1}
    Talk = {c1, c2}
    Delete = {d1}
    MaxCards = 2
    MaxLost = 1
INVARIANTS
    OrderIsRegistered
    AnswerStands
    ConfirmedMeansSettled
    OneBroadcastPerCard
PROPERTIES
    FirstHashWins
    CancelSurvivesPoll
    StatusSettles
CHECK_DEADLOCK FALSE
