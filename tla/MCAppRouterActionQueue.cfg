SPECIFICATION Spec
CONSTANTS
  MaxActions = 4
  None = None
INVARIANTS DiscardedNeverApplied NavigationsNeverWait
PROPERTIES RunsOnce InOrder WaitingActionRuns RevalidationRefreshes
CHECK_DEADLOCK FALSE
