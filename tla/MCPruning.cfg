SPECIFICATION Spec
CONSTANTS
  Block <- EvenBlock
  Parent <- EvenParent
  Path <- EvenPath
  Height <- EvenHeight
  Work <- EvenWork
  Addr <- EvenAddr
  Genesis = "g"
  None = None
  Proc = {p1, p2}
  InitTip = "a2"
  ParkEnabled = TRUE
  ParkDepth = 2
  KeepBlocks = 1
  MinimumChainWork = 0
  InvalidBlock = {}
  BadBody = {}
  Rpc = {"prune"}
  MaxRpc = 1
SYMMETRY Threads
INVARIANTS
  UnlinkedSound
  QuiescentBest
  CandidatesComplete
  MissingDataUnlinked
CHECK_DEADLOCK FALSE
