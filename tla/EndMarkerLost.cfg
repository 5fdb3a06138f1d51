\* The end marker of an interrupted response is skipped during the next one.
CONSTANTS
    MaxSeq = 2
    RegenSettle = TRUE
    EagerTurns = FALSE
    ToolCalls = TRUE
    BargeInOff = FALSE
SPECIFICATION Spec
INVARIANT NoUnflushedTurn
CHECK_DEADLOCK FALSE
