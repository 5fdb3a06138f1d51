\* The speculative reply is over before the caller's turn is.
CONSTANTS
    MaxSeq = 2
    RegenSettle = FALSE
    EagerTurns = TRUE
    ToolCalls = TRUE
    BargeInOff = FALSE
SPECIFICATION FairSpec
PROPERTY PipelineDrains
CHECK_DEADLOCK FALSE
