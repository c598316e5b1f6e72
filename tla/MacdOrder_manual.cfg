SPECIFICATION FairSpec
CONSTANTS
    MaxAttempts = 2
    Lots = {1}
    LateFills = FALSE
    Outages = FALSE
    ManualLiquidation = TRUE
    MaxFaults = 0
    MaxBar = 2
    MaxDay = 1
PROPERTIES
    DayEndsFlat
