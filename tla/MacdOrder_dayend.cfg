SPECIFICATION FairSpec
CONSTANTS
    MaxAttempts = 3
    Lots = {1}
    LateFills = FALSE
    Outages = TRUE
    ManualLiquidation = FALSE
    MaxFaults = 2
    MaxBar = 1
    MaxDay = 1
PROPERTIES
    DayEndsFlat
