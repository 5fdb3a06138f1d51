SPECIFICATION Spec
CONSTANTS
  TrLabels = {"en", "hi", "mr"}
  SyLabels = {"en", "hi", "ta"}
  Tags = {"hi", "xx"}
  Other = "none"
  Start = "en"
  Scenarios <- MCScenarios
  Tasks = {"d1", "d2"}
  MaxReconnects = 1
  Debounce = 2
  MaxSeq = 2
INVARIANTS TypeOK PoolsAgree DeafIsNoticed NoLockCycle
PROPERTIES AppliedOnOwnEvidence HeldUntilInvalid ReplyResolved StuckLanguageRecovers
CHECK_DEADLOCK FALSE
