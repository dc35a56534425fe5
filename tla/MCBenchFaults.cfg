SPECIFICATION Spec
CONSTANTS
    NumRates = 2
    BadRates = {0, 2}
    Runtime = "valid"
    UserAnytime = TRUE
    PodsLag = TRUE
    MaxCreates = 2
    MaxEdits = 1
    MaxFaults = 2
    MaxStale = 1
    MaxCrashes = 1
INVARIANTS
    RoutinesProtected
    StopMatched
    RunsOnce
PROPERTIES
    LifecycleSpec
CHECK_DEADLOCK FALSE
