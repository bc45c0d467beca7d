SPECIFICATION Spec
CONSTANTS
  Block <- SideBlock
  Parent <- SideParent
  Path <- SidePath
  Height <- SideHeight
  Work <- SideWork
  Addr <- SideAddr
  Genesis = "g"
  None = None
  Proc = {p1, p2, p3}
  InitTip = "a2"
  ParkEnabled = TRUE
  ParkDepth = 1
  KeepBlocks = 3
  MinimumChainWork = 0
  InvalidBlock = {}
  BadBody = {}
  Rpc = {"invalidate", "reconsider", "park", "unpark", "precious"}
  MaxRpc = 2
SYMMETRY Threads
INVARIANTS
  ActiveChainNotFailed
  ActiveChainNotParked
  CachedTargetNotParked
  CandidatesComplete
  FailedBlocksMarked
  CandidatesLeft
  BestHeaderDominates
  QuiescentBest
PROPERTIES
  NoParkedCandidateAdded
