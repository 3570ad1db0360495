SPECIFICATION Spec
CONSTANTS
  UMax = 7
  IMax = 3
  AddressMax = 15
  Players = 3
  Votes = 2
  Lobbies = 2
  Settings = 2
  Buffer = 3
  Inputs <- MCInputs
INVARIANTS InspectionIsExact StopsAtFault ReadersStayInside
CHECK_DEADLOCK FALSE
