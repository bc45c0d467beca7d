SPECIFICATION FairSpec
CONSTANTS
  Block <- ForkBlock
  Parent <- ForkParent
  Path <- ForkPath
  Height <- ForkHeight
  Work <- ForkWork
  Addr <- ForkAddr
  Genesis = "g"
  None = None
  Proc = {p1, p2}
  InitTip = "a1"
  ParkEnabled = TRUE
  ParkDepth = 1
  KeepBlocks = 3
  MinimumChainWork = 0
  InvalidBlock = {"b3"}
  BadBody = {}
  Rpc = {"invalidate"}
  MaxRpc = 1
PROPERTIES
  EligibleResolved
  MutexReleased
