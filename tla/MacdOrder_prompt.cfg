SPECIFICATION Spec
CONSTANTS
    MaxAttempts = 2
    Lots = {1}
    LateFills = FALSE
    Outages = TRUE
    ManualLiquidation = FALSE
    MaxFaults = 1
    MaxBar = 2
    MaxDay = 1
INVARIANTS
    NeverBothHeld
    OrdersPerSignalBounded
PROPERTIES
    ImplementsBook
