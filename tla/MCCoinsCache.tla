---------------------------- MODULE MCCoinsCache ----------------------------
EXTENDS CoinsCache, TLC
Swap == Permutations(Outpoint) \cup Permutations(Coin)
=============================================================================
