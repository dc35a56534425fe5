SPECIFICATION OpsSpec
CONSTANTS
    Workloads <- MCWorkloads
    Library <- MCLibrary
    Template <- MCTemplate
    Volumes <- MCVolumes
    Operations <- MCOperations
    Rates = {"r1", "r2", "r3", "r4"}
    Scenarios <- MCScenarios
    Runtimes = {TRUE, FALSE}
    MaxMoves = 2
    MaxFaults = 1
INVARIANTS
    ScaleFollowsRate
PROPERTIES
    FreshNames
    DeletesOldest
    SnapshotsAll
    RoundEnds
    OnlyUnownedRemain
CHECK_DEADLOCK FALSE
