SPECIFICATION FairUpdaterSpec
CONSTANTS
  MaxLaunches = 2
  Threads = {t1, t2}
  Stages = {s1, s2}
  Builds <- MCBuilds
  Installed = 0
  MaxHops = 2
  MaxChanges = 2
  Nil = Nil
INVARIANTS ReadyIsVerified NothingLeftBehind
PROPERTIES LastRequestWins RequestsEnd
CHECK_DEADLOCK FALSE
