SPECIFICATION Spec
CONSTANTS
  MaxActions = 3
  None = None
PROPERTY QueuedActionRuns
CHECK_DEADLOCK FALSE
