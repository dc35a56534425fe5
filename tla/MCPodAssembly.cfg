SPECIFICATION Spec
CONSTANTS
    Kinds = {"Pod", "Job", "StatefulSet", "ConfigMap"}
    Roles = {"workload", "server", "helper", "volume"}
    OutputFiles <- MCOutputFiles
    MaxFaults = 3
INVARIANTS
    AcceptedByServer
    OutputsComplete
CHECK_DEADLOCK FALSE
