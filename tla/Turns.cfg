SPECIFICATION MCSpec
CONSTANTS
    None = None
    Quote = {1, 2}
    Order = {o1}
    MaxReactSteps = 2
    RecursionLimit = 7
    MaxCalls = 2
    MaxTurns = 2
    MaxFaults = 1
    x = x
    y = y
    c = c
    d = d
    Symbol = {x, y}
    Chain = {c, d}
    SlotAmount = {1}
    Provider = {p1}
    NativeOf <- MCNativeOf
    BtcChain = d
    WalletChain = c
    MaxSaid <- MCMaxSaid
    MaxBroadcasts = 2
    MaxHistory = 2
    k1 = k1
    k2 = k2
    k3 = k3
    k4 = k4
    ReadCall = {k1, k2, k3, k4}
    NameOf <- MCNameOf
    NoCall = NoCall
    MaxRounds = 3
    MaxParallel = 2
    MaxBatch = 3
    CoinSets <- MCCoinSets
    Outputs <- MCOutputs
    Rates <- MCRates
    Amounts = {600, 1000, 2500}
    MemoSizes = {80}
    Balances = {0, 1010, 9000}
    TokenBalances = {0, 1000}
    Gas = {2, 3}
    Price = {20}
    s1 = s1
    s2 = s2
    r1 = r1
    r2 = r2
    Swap = {s1, s2}
    Sender <- MCSender
    Amount = {1, 2}
    Recipient = {r1, r2}
    MaxAttempts = 2
    Honors = {TRUE, FALSE}
    MaxAsked = 2
    MaxLate = 1
    MaxOrders = 2
    MaxRestarts = 1
    Keeps = {"omnibridge"}
    Rebuilds = {"bridgers"}
    MaxPolls = 3
    MaxQuestions = 4
    MaxSwaps = 2
    e1 = e1
    e2 = e2
    e3 = e3
    e4 = e4
    e5 = e5
    Caller = {e1, e2, e3, e4, e5}
    Key = {c, d}
    KeyOf <- MCKeyOf
    MaxEntries = 1
    Updater = {e1, e2}
    Field = {x, y}
    Value = {0, 1}
    Blank = 0
    MaxRevision = 2
ACTION_CONSTRAINT Representative
INVARIANTS
    SlotTypeOK
    SlotsAgree
    OrderKept
    QueueRuns
    OfferPays
    OwnOrder
    StatusIsProviders
    Coalesced
    BudgetSuffices
    TranscriptPaired
    NeverTwoCards
PROPERTIES
    StoreIsAtomic
    AskedForSlots
    FreshQuoteAsks
CHECK_DEADLOCK FALSE
