------------------------------ MODULE BlockTree ------------------------------
(***************************************************************************)
(* The tree of block headers that the node may ever hear of, as it is      *)
(* reached through CBlockIndex (src/src/chain.h, src/src/chain.cpp).       *)
(*                                                                         *)
(* The tree itself is data and never changes: pprev, nHeight and           *)
(* nChainWork of an index entry are fixed when the entry is created        *)
(* (BlockManager::AddToBlockIndex).  It is therefore a parameter.  Path[b] *)
(* is the set of b and all its ancestors, what a walk along pprev visits.  *)
(***************************************************************************)
EXTENDS Integers

CONSTANTS
  Block,    \* every header that may reach the node
  Genesis,  \* the block without a predecessor
  Parent,   \* pprev; Parent[Genesis] is Genesis by convention
  Path,     \* b |-> {b} and its ancestors
  Height,   \* nHeight
  Work,     \* nChainWork, the accumulated proof of work
  Addr,     \* address of the index entry, the last tie breaker
  None      \* nullptr

(***************************************************************************)
(* What makes Parent and Path a tree rooted at Genesis.  These are facts   *)
(* about any finite set of headers linked by hashPrevBlock.                *)
(***************************************************************************)
ASSUME TreeAssumption ==
  /\ Genesis \in Block
  /\ None \notin Block
  /\ Parent \in [Block -> Block]
  /\ Path \in [Block -> SUBSET Block]
  /\ Path[Genesis] = {Genesis}
  /\ \A b \in Block \ {Genesis} :
       /\ Path[b] = Path[Parent[b]] \cup {b}
       /\ b \notin Path[Parent[b]]
  /\ \A b \in Block : Genesis \in Path[b] /\ b \in Path[b]
  /\ \A b \in Block : \A a \in Path[b] : Path[a] \subseteq Path[b]
  /\ \A b \in Block : \A a, c \in Path[b] : a \in Path[c] \/ c \in Path[a]

ASSUME NumberAssumption ==
  /\ Height \in [Block -> Nat]
  /\ Work \in [Block -> Nat]
  /\ Addr \in [Block -> Nat]
  /\ Height[Genesis] = 0
  /\ \A b \in Block \ {Genesis} :
       /\ Height[b] = Height[Parent[b]] + 1
       /\ Work[b] > Work[Parent[b]]
  /\ \A b \in Block : \A a \in Path[b] :
       a # b => Height[a] < Height[b] /\ Work[a] < Work[b]
  /\ \A a, b \in Block : Addr[a] = Addr[b] => a = b

-----------------------------------------------------------------------------
\* CBlockIndex::GetAncestor, for a height that the path of b has.
GetAncestor(b, h) == CHOOSE a \in Path[b] : Height[a] = h

\* CChain::FindFork: the last block of the path of b that the chain ending
\* in t contains.
FindFork(t, b) ==
  CHOOSE f \in Path[t] \cap Path[b] :
    \A c \in Path[t] \cap Path[b] : c \in Path[f]

\* Number of blocks a switch from the chain of t to b disconnects.
Rewind(t, b) == Height[t] - Height[FindFork(t, b)]

\* b and everything built on it, among the index entries in S.
Descendants(b, S) == {d \in S : b \in Path[d]}

\* Faulty variant of NextToward: vpindexToConnect is not reversed.
NextTowardTop(t, m) == m

\* The block that follows t on the way up to m.
NextToward(t, m) == GetAncestor(m, Height[t] + 1)

\* CBlockIndexWorkComparator: a sorts before (is worse than) b under the
\* sequence ids seq.
Worse(seq, a, b) ==
  \/ Work[a] < Work[b]
  \/ Work[a] = Work[b] /\ seq[a] > seq[b]
  \/ Work[a] = Work[b] /\ seq[a] = seq[b] /\ Addr[a] > Addr[b]

=============================================================================
