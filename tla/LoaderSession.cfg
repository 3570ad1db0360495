SPECIFICATION FairSpec
CONSTANTS
  Calls = {c1, c2}
  Nil = Nil
  MaxLaunches = 2
  MaxGames = 2
  MaxFaults = 1
INVARIANTS BufferOutlivesCall OneThreadPerLauncher ShownIsInstalled
PROPERTIES AskedUntilAnswered VerdictReached DeactivationShown
CHECK_DEADLOCK FALSE
