SPECIFICATION FairSpec
CONSTANTS
  Callers = {c1, c2, c3}
  Slots = 2
  Fields = {metric, since}
  Home <- MCHome
  Wrap = 6
  MaxTokens = 3
  MaxLost = 1
INVARIANTS SlotHasOneOwner ReportIsOneCall
PROPERTIES HangIsReported
