SPECIFICATION Spec
CONSTANTS
    Workloads <- PodsAndJob
    Library <- MCLibrary
    Template <- MCTemplate
    Rates = {}
    Runtimes = {TRUE, FALSE}
    MaxMoves = 5
    MaxFaults = 1
INVARIANTS
    NeverTooMany
    CompleteMeansCounted
    
CHECK_DEADLOCK FALSE
