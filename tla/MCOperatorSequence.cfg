SPECIFICATION Spec
CONSTANTS
  Block <- SideBlock
  Parent <- SideParent
  Path <- SidePath
  Height <- SideHeight
  Work <- SideWork
  Addr <- SideAddr
  Genesis = "g"
  None = None
  Proc = {p1}
  InitTip = "a2"
  ParkEnabled = TRUE
  ParkDepth = 1
  KeepBlocks = 1
  MinimumChainWork = 0
  InvalidBlock = {"a4"}
  BadBody = {}
  Rpc = {"invalidate", "reconsider", "park", "unpark", "precious", "prune"}
  MaxRpc = 2
INVARIANTS
  ActiveChainNotFailed
  FailedHaveRoot
  CandidatesSound
  CandidatesLeft
CHECK_DEADLOCK FALSE
