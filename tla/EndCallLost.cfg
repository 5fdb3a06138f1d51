\* A barge-in cleanup in flight when the end_call tool fires.
SPECIFICATION FairSpec
PROPERTY EndCallDisconnects
CHECK_DEADLOCK FALSE
