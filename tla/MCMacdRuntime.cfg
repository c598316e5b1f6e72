SPECIFICATION FairSpec
CONSTANTS
    w1 = w1
    w2 = w2
    page = page
    Watchdog = watchdog
    MaxPresses = 2
    Workers <- MCWorkers
    Pages <- MCPages
INVARIANTS
    TypeOK
    HeldOnce
PROPERTIES
    TicksGoOn
CHECK_DEADLOCK FALSE
