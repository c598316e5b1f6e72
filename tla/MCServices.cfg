SPECIFICATION MCSpec
CONSTANTS
    t1 = t1
    t2 = t2
    t3 = t3
    stopLoss = stopLoss
    profitLock = profitLock
    entry = entry
    Threads <- MCThreads
    SellKeys <- MCSellKeys
    BuyKeys <- MCBuyKeys
    Want <- MCWant
    InitialHeld = 3
    MaxFaults = 1
    n1 = n1
    n2 = n2
    n3 = n3
    c1 = c1
    c2 = c2
    p1 = p1
    p2 = p2
    mock = mock
    real = real
    hynix = hynix
    u1 = u1
    u2 = u2
    wk = wk
    k1 = k1
    k2 = k2
    KisThreads <- MCWorkers
    KisClients = {c1, c2}
    ClientOf <- MCClientOf
    MaxIssues = 2
    MaxKills = 1
    GateThreads <- MCWorkers
    Processes = {p1, p2}
    ProcessOf <- MCProcessOf
    PerOrder = 1
    DailyLimit = 1
    AutoReduce = FALSE
    MaxBought = 2
    MaxPositions = 1
    StateThreads <- MCWorkers
    StateProcesses = {p1, p2}
    StateProcessOf <- MCProcessOf
    Modes = {mock, real}
    Mock = mock
    OpsOf <- MCOpsOf
    Runners = {n1, n2}
    CycleThread = n1
    Slots = {hynix}
    Updaters = {u1, u2}
    Worker = wk
    MaxAge = 1
    RoundTime = 1
    Symbols = {hynix}
    Sessions = {k1, k2}
    MaxOpen = 1
    MaxTrades = 1
    MaxRetries = 1
    MaxHeld = 3
INVARIANTS
    TypeOK
    NoOversell
    TakenOncePerKey
    PendingIsOwned
    KisTypeOK
    RejectedTwiceOnlyIfRaced
    RenewedOnlyWhenStale
    GateTypeOK
    StopBarsOrders
    SectionsExclude
    WakeLostOnlyIfRaced
    AnswerSettlesDeferral
    HurryEndsWithTick
    QuoteTypeOK
    OldOnlyAfterFailure
    GapTypeOK
    WatchedIsExpected
    HalfSoldOnce
PROPERTIES
    OffRestoredOnlyIfMissed
    BothOnOnlyIfMissed
CHECK_DEADLOCK FALSE
