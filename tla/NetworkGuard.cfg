SPECIFICATION Spec
CONSTANTS
  Peers = {p1, p2, p3}
  Slots = 2
  Callers = {t1, t2}
  Sizes = {0, 2}
  Unit = 1
  PeerIdle = 3
  MaxStall = 1
  MaxClock = 4
  Starts = {1}
  None = None
  PeerRate <- MCPeerRate
  GlobalRate <- MCGlobalRate
  PeerPackets = 1
  PeerBytes = 1
  GlobalPackets = 1
  GlobalBytes = 0
SYMMETRY Symmetric
INVARIANTS GlobalBudget PeerBudget
CHECK_DEADLOCK FALSE
