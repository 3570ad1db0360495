SPECIFICATION FairSpec
CONSTANTS
  Callers = {a, b}
  NoOne = NoOne
  Worker = Worker
  Patches = 2
  Hooks = 2
  MaxFaults = 2
  MaxCalls = 4
INVARIANTS CoveredWhileModified QuietWhenOver
PROPERTIES PatchedOnce CallsReturn
CHECK_DEADLOCK FALSE
