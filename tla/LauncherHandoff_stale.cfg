SPECIFICATION Spec
CONSTANTS
  MaxFailures = 1
INVARIANTS PausedBeforeHelper
CHECK_DEADLOCK FALSE
