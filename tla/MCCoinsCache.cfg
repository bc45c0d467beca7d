SPECIFICATION Spec
CONSTANTS
  Outpoint = {o1, o2}
  Coin = {c1, c2}
  Spent = Spent
  None = None
SYMMETRY Swap
INVARIANTS
  SanityCheck
  FreshNotMisapplied
  FlagsTruthful
PROPERTIES
  CachesInvisible
  OperationsExact
