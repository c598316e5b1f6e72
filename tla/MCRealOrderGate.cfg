SPECIFICATION GateSpec
CONSTANTS
    n1 = n1
    n2 = n2
    p1 = p1
    GateThreads = {n1, n2}
    Processes = {p1}
    ProcessOf <- MCProcessOf
    PerOrder = 1
    DailyLimit = 2
    AutoReduce = FALSE
    MaxBought = 3
    MaxPositions = 1
INVARIANT
    DailyLimitHolds
