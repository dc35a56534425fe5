SPECIFICATION FinishingSpec
CONSTANTS
    NumRates = 0
    BadRates = {0}
    Runtime = "valid"
    UserAnytime = TRUE
    PodsLag = TRUE
    MaxCreates = 1
    MaxEdits = 1
    MaxFaults = 1
    MaxStale = 2
    MaxCrashes = 1
PROPERTIES
    Completes
CHECK_DEADLOCK FALSE
