SPECIFICATION Spec
CONSTANTS
  TrLabels = {"en", "mr"}
  SyLabels = {"en", "hi"}
  Tags = {"hi"}
  Other = "none"
  Start = "en"
  Scenarios <- HeuristicOnly
  Tasks = {"d1", "d2"}
  MaxReconnects = 1
  Debounce = 2
  MaxSeq = 1
INVARIANT FlipsTogether
CHECK_DEADLOCK FALSE
