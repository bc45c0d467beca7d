SPECIFICATION Spec
CONSTANTS
  Block <- SideBlock
  Parent <- SideParent
  Path <- SidePath
  Height <- SideHeight
  Work <- SideWork
  Addr <- SideAddr
  Genesis = "g"
  None = None
  Proc = {p1, p2}
  InitTip = "a2"
  ParkEnabled = TRUE
  ParkDepth = 1
  KeepBlocks = 1
  MinimumChainWork = 0
  InvalidBlock = {}
  BadBody = {}
  Rpc = {"invalidate", "prune"}
  MaxRpc = 2
SYMMETRY Threads
INVARIANTS
  CandidatesSound
