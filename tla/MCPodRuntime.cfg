SPECIFICATION FairSpec
CONSTANTS
    Scenarios <- MCScenarios
    MaxFaults = 1
INVARIANTS
    SyncStart
    SendsResult
    OutputsInOrder
PROPERTIES
    SyncEnds
    ResultArrives
CHECK_DEADLOCK FALSE
