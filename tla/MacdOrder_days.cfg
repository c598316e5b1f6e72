SPECIFICATION Spec
CONSTANTS
    MaxAttempts = 1
    Lots = {1}
    LateFills = FALSE
    Outages = FALSE
    ManualLiquidation = TRUE
    MaxFaults = 1
    MaxBar = 3
    MaxDay = 2
PROPERTIES
    NoReentryAfterExit
