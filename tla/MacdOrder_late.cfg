SPECIFICATION Spec
CONSTANTS
    MaxAttempts = 1
    Lots = {2}
    LateFills = TRUE
    Outages = FALSE
    ManualLiquidation = TRUE
    MaxFaults = 0
    MaxBar = 2
    MaxDay = 1
INVARIANTS
    TypeOK
    LedgerNeverOverstates
    OrdersPerSignalBounded
