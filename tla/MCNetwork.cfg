SPECIFICATION Spec
CONSTANTS
  Block <- LongBlock
  Parent <- LongParent
  Path <- LongPath
  Height <- LongHeight
  Work <- LongWork
  Addr <- LongAddr
  Genesis = "g"
  None = None
  Proc = {p1, p2}
  InitTip = "a1"
  ParkEnabled = TRUE
  ParkDepth = 2
  KeepBlocks = 3
  MinimumChainWork = 0
  InvalidBlock = {"b3"}
  BadBody = {"a3"}
  Rpc = {}
  MaxRpc = 0
SYMMETRY Threads
INVARIANTS
  TypeOK
  CandidatesSound
  LinkedIffReceived
  UnlinkedComplete
  ActiveChainValidated
  QuiescentBest
  
  BestHeaderDominates
PROPERTIES
  ForwardProgress
