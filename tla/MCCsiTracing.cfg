SPECIFICATION Spec
CONSTANTS
    Conns <- MCConns
    Ends <- MCEnds
    Calls <- MCCalls
    Plain <- MCPlain
    Paths <- MCPaths
    MaxCalls = 2
    MaxOdd = 1
INVARIANTS
    LogsExact
    TimesOrdered
    FatalCause
CHECK_DEADLOCK FALSE
