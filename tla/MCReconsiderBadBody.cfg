SPECIFICATION Spec
CONSTANTS
  Block <- ForkBlock
  Parent <- ForkParent
  Path <- ForkPath
  Height <- ForkHeight
  Work <- ForkWork
  Addr <- ForkAddr
  Genesis = "g"
  None = None
  Proc = {p1}
  InitTip = "a1"
  ParkEnabled = TRUE
  ParkDepth = 1
  KeepBlocks = 3
  MinimumChainWork = 0
  InvalidBlock = {}
  BadBody = {"b2"}
  Rpc = {"reconsider"}
  MaxRpc = 1
INVARIANTS
  UnlinkedComplete
