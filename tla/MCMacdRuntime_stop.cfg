SPECIFICATION Spec
CONSTANTS
    w1 = w1
    w2 = w2
    page = page
    Watchdog = watchdog
    MaxPresses = 2
    Workers <- MCWorkers
    Pages <- MCPages
INVARIANTS
    StopHolds
CHECK_DEADLOCK FALSE
