SPECIFICATION FairSpec
CONSTANTS
  Calls = {c1, c2}
  People = {x, y}
  Nil = Nil
  Fresh = 2
  Base = 1
  Longest = 3
  MaxClock = 3
  MaxChanges = 1
INVARIANTS OnlyFriends
PROPERTIES QueriesSpaced CallsReturn
