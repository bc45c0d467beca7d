SPECIFICATION Spec
CONSTANTS
  Block <- LongBlock
  Parent <- LongParent
  Path <- LongPath
  Height <- LongHeight
  Work <- LongWork
  Addr <- LongAddr
  Genesis = "g"
  None = None
  Proc = {p1}
  InitTip = "a1"
  ParkEnabled = TRUE
  ParkDepth = 1
  KeepBlocks = 2
  MinimumChainWork = 0
  InvalidBlock = {}
  BadBody = {}
  Rpc = {"prune"}
  MaxRpc = 1
INVARIANTS
  DeepReorgNeverAutomatic
  NeverStops
