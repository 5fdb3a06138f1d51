CONSTANTS
  u1 = u1
  u2 = u2
  i1 = i1
  i2 = i2
  i3 = i3
  Nobody = Nobody
  Users = {u1, u2}
  Ids = {i1, i2, i3}
  Requests <- MCRequests
  Scenarios <- MCScenarios
SPECIFICATION Spec
INVARIANT TypeOK
PROPERTIES
  RetryIsFresh
  RestoredByReconnectOrStaleRefresh
  PolicyNotAheadOfRows
  RevokedAgesOut
CHECK_DEADLOCK FALSE
