SPECIFICATION FairSpec
CONSTANTS
    MaxLines = 3
    MaxRotations = 2
    MaxTruncations = 1
    Times = {1, 2, 3}
    MaxRecords = 5
    PageSize = 2
    MaxErrors = 1
INVARIANTS
    OnePerLine
    PagesComplete
PROPERTIES
    CatchesUp
CHECK_DEADLOCK FALSE
