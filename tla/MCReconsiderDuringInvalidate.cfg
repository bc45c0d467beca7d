SPECIFICATION Spec
CONSTANTS
  Block <- ForkBlock
  Parent <- ForkParent
  Path <- ForkPath
  Height <- ForkHeight
  Work <- ForkWork
  Addr <- ForkAddr
  Genesis = "g"
  None = None
  Proc = {p1, p2}
  InitTip = "a1"
  ParkEnabled = TRUE
  ParkDepth = 1
  KeepBlocks = 3
  MinimumChainWork = 0
  InvalidBlock = {}
  BadBody = {}
  Rpc = {"invalidate", "reconsider"}
  MaxRpc = 2
SYMMETRY Threads
INVARIANTS
  FailedHaveRoot
