\* Every way to end a call, with and without a goodbye, web and telephony.
SPECIFICATION FairSpec
INVARIANTS
    TypeOK
    OneTeardown
    GoodbyeNotCut
    TeardownSurvives
PROPERTIES
    OneGoodbye
    GoodbyeGraceEnforced
    EndedCallIsWoundUp
    EndsAsPromised
\* The session is over once run() has returned.
CHECK_DEADLOCK FALSE
