SPECIFICATION Spec
CONSTANTS
    Feeds <- MCFeeds
    Namespaces = {"default"}
INVARIANTS
    NewestFirst
    ReadyEndsOne
    ScaleIsChange
    PanicCause
CHECK_DEADLOCK FALSE
