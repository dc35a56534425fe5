SPECIFICATION FinishingSpec
CONSTANTS
    NumRates = 2
    BadRates = {0, 2}
    Runtime = "none"
    UserAnytime = FALSE
    PodsLag = FALSE
    MaxCreates = 2
    MaxEdits = 1
    MaxFaults = 0
    MaxStale = 0
    MaxCrashes = 0
INVARIANTS
    TypeOK
PROPERTIES
    Completes
    DeletionCompletes
CHECK_DEADLOCK FALSE
