\* A tool call starts while a barge-in is being cleaned up.
CONSTANTS
    MaxSeq = 2
    RegenSettle = TRUE
    EagerTurns = FALSE
    ToolCalls = TRUE
    BargeInOff = FALSE
SPECIFICATION Spec
PROPERTY ToolCallCompletes
CHECK_DEADLOCK FALSE
