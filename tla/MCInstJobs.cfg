SPECIFICATION Spec
CONSTANTS
    Workloads <- JobsAndServer
    Library <- MCLibrary
    Template <- MCTemplate
    Rates = {}
    Runtimes = {TRUE, FALSE}
    MaxMoves = 6
    MaxFaults = 0
INVARIANTS
    CompleteMeansAllDone
CHECK_DEADLOCK FALSE
