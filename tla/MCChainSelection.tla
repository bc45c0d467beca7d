-------------------------- MODULE MCChainSelection --------------------------
(***************************************************************************)
(* Instances of ChainSelection for TLC.  Blocks are strings: the letter of *)
(* a branch and the height.  A cfg picks one of the trees below, given by  *)
(* tables (TreeAssumption checks them); every block adds the same work.    *)
(***************************************************************************)
EXTENDS ChainSelection, TLC

\* The threads are interchangeable.
Threads == Permutations(Proc)

-----------------------------------------------------------------------------
\* Two branches that part at genesis.
ForkBlock == {"g", "a1", "a2", "b1", "b2", "b3"}
ForkParent ==
  [g |-> "g", a1 |-> "g", a2 |-> "a1", b1 |-> "g", b2 |-> "b1",
   b3 |-> "b2"]
ForkPath ==
  [g |-> {"g"}, a1 |-> {"g", "a1"}, a2 |-> {"g", "a1", "a2"},
   b1 |-> {"g", "b1"}, b2 |-> {"g", "b1", "b2"},
   b3 |-> {"g", "b1", "b2", "b3"}]
ForkHeight ==
  [g |-> 0, a1 |-> 1, a2 |-> 2, b1 |-> 1, b2 |-> 2, b3 |-> 3]
ForkWork ==
  [g |-> 1, a1 |-> 2, a2 |-> 3, b1 |-> 2, b2 |-> 3, b3 |-> 4]
ForkAddr ==
  [g |-> 0, a1 |-> 1, a2 |-> 2, b1 |-> 3, b2 |-> 4, b3 |-> 5]

-----------------------------------------------------------------------------
\* As Fork, with a longer chain.
LongBlock == {"g", "a1", "a2", "a3", "b1", "b2", "b3", "b4"}
LongParent ==
  [g |-> "g", a1 |-> "g", a2 |-> "a1", a3 |-> "a2", b1 |-> "g",
   b2 |-> "b1", b3 |-> "b2", b4 |-> "b3"]
LongPath ==
  [g |-> {"g"}, a1 |-> {"g", "a1"}, a2 |-> {"g", "a1", "a2"},
   a3 |-> {"g", "a1", "a2", "a3"}, b1 |-> {"g", "b1"},
   b2 |-> {"g", "b1", "b2"}, b3 |-> {"g", "b1", "b2", "b3"},
   b4 |-> {"g", "b1", "b2", "b3", "b4"}]
LongHeight ==
  [g |-> 0, a1 |-> 1, a2 |-> 2, a3 |-> 3, b1 |-> 1, b2 |-> 2,
   b3 |-> 3, b4 |-> 4]
LongWork ==
  [g |-> 1, a1 |-> 2, a2 |-> 3, a3 |-> 4, b1 |-> 2, b2 |-> 3,
   b3 |-> 4, b4 |-> 5]
LongAddr ==
  [g |-> 0, a1 |-> 1, a2 |-> 2, a3 |-> 3, b1 |-> 4, b2 |-> 5,
   b3 |-> 6, b4 |-> 7]

-----------------------------------------------------------------------------
\* Two branches of the same length.
EvenBlock == {"g", "a1", "a2", "a3", "b1", "b2", "b3"}
EvenParent ==
  [g |-> "g", a1 |-> "g", a2 |-> "a1", a3 |-> "a2", b1 |-> "g",
   b2 |-> "b1", b3 |-> "b2"]
EvenPath ==
  [g |-> {"g"}, a1 |-> {"g", "a1"}, a2 |-> {"g", "a1", "a2"},
   a3 |-> {"g", "a1", "a2", "a3"}, b1 |-> {"g", "b1"},
   b2 |-> {"g", "b1", "b2"}, b3 |-> {"g", "b1", "b2", "b3"}]
EvenHeight ==
  [g |-> 0, a1 |-> 1, a2 |-> 2, a3 |-> 3, b1 |-> 1, b2 |-> 2,
   b3 |-> 3]
EvenWork ==
  [g |-> 1, a1 |-> 2, a2 |-> 3, a3 |-> 4, b1 |-> 2, b2 |-> 3,
   b3 |-> 4]
EvenAddr ==
  [g |-> 0, a1 |-> 1, a2 |-> 2, a3 |-> 3, b1 |-> 4, b2 |-> 5,
   b3 |-> 6]

-----------------------------------------------------------------------------
\* A chain, and a branch that parts from it above genesis.
SideBlock == {"g", "a1", "a2", "a3", "a4", "b2"}
SideParent ==
  [g |-> "g", a1 |-> "g", a2 |-> "a1", a3 |-> "a2", a4 |-> "a3",
   b2 |-> "a1"]
SidePath ==
  [g |-> {"g"}, a1 |-> {"g", "a1"}, a2 |-> {"g", "a1", "a2"},
   a3 |-> {"g", "a1", "a2", "a3"},
   a4 |-> {"g", "a1", "a2", "a3", "a4"}, b2 |-> {"g", "a1", "b2"}]
SideHeight ==
  [g |-> 0, a1 |-> 1, a2 |-> 2, a3 |-> 3, a4 |-> 4, b2 |-> 2]
SideWork ==
  [g |-> 1, a1 |-> 2, a2 |-> 3, a3 |-> 4, a4 |-> 5, b2 |-> 3]
SideAddr ==
  [g |-> 0, a1 |-> 1, a2 |-> 2, a3 |-> 3, a4 |-> 4, b2 |-> 5]

=============================================================================
