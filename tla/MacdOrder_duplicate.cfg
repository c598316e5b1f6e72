SPECIFICATION Spec
CONSTANTS
    MaxAttempts = 2
    Lots = {1}
    LateFills = FALSE
    Outages = TRUE
    ManualLiquidation = FALSE
    MaxFaults = 0
    MaxBar = 2
    MaxDay = 1
PROPERTIES
    NoAddWhileHeld
