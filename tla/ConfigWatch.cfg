SPECIFICATION FairSpec
CONSTANTS
  Files <- MCFiles
  Default <- MCDefault
  Exports = {e}
  Copies = {fixed}
  Readers = {r}
  Worker = Worker
  Nil = Nil
  Grace = 1
  MaxClock = 2
  MaxWrites = 2
INVARIANTS NamesAgree
PROPERTIES AcceptedWasCurrent GraceKept FileSettles
CHECK_DEADLOCK FALSE
