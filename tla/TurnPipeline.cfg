\* Three sequence ids: a response, the turn that overlaps it, and a tool follow-up
\* or a third turn that meets the cleanup of the first two.
CONSTANTS
    MaxSeq = 3
    RegenSettle = TRUE
    EagerTurns = FALSE
    ToolCalls = TRUE
    BargeInOff = FALSE
SPECIFICATION FairSpec
INVARIANTS
    TypeOK
    CommittedWereSent
    CancelledSilenced
    OneLiveGeneration
    OwedTurnReady
    FrameOnWireValid
    LiveGenerationAudible
PROPERTIES
    NoResurrection
    PipelineDrains
\* The caller may stop talking for good.
CHECK_DEADLOCK FALSE
