\* The watchdog stops watching the hangup it started.
SPECIFICATION FairSpec
PROPERTY HangupForced
CHECK_DEADLOCK FALSE
