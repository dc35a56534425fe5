SPECIFICATION FairSpec
CONSTANTS
    Kinds = {"single", "incdec"}
    Min = 1
    Max = 4
    IncInterval = 2
    DecInterval = 3
    Prompt = TRUE
INVARIANTS
    OneTimer
    InBounds
    TurnNeverBlocks
PROPERTIES
    RunsIndefinitely
    StoppedExits
CHECK_DEADLOCK FALSE
