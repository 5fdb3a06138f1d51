CONSTANTS
  Calls = {"bye", "api", "x1", "x2"}
  Kind <- MCKind
  Scenarios <- MCScenarios
  MaxAttempts = 2
  MaxWire = 3
SPECIFICATION Spec
INVARIANTS TypeOK EndIsLast BargeInSilences TransferredOnce
PROPERTIES RevokedNotAnswered GoodbyeFirst ArmedCallEnds EndedCallCloses EndsAsPromised
CHECK_DEADLOCK FALSE
