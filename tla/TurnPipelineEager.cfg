\* Speculative turns, no settle window: an overlapped final regenerates at once.
CONSTANTS
    MaxSeq = 2
    RegenSettle = FALSE
    EagerTurns = TRUE
    ToolCalls = TRUE
    BargeInOff = FALSE
SPECIFICATION Spec
INVARIANTS
    LiveGenerationAudible
CHECK_DEADLOCK FALSE
