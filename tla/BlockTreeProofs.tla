--------------------------- MODULE BlockTreeProofs ---------------------------
(***************************************************************************)
(* Facts about the block tree that hold for every tree: what GetAncestor,  *)
(* FindFork and the next block of a connect list return.                   *)
(***************************************************************************)
EXTENDS BlockTree, WellFoundedInduction, FiniteSetTheorems, TLAPS

\* A set of natural numbers that is not empty has a least element.
LEMMA LeastNat ==
  ASSUME NEW S \in SUBSET Nat, S # {}
  PROVE  \E n \in S : \A m \in S : n <= m
<1> DEFINE Less == {ss \in Nat \X Nat : ss[1] < ss[2]}
<1>1. IsWellFoundedOn(Less, Nat)
  BY NatLessThanWellFounded DEF OpToRel
<1>2. \E x \in S : \A y \in S : ~(<<y, x>> \in Less)
  <2> HIDE DEF Less
  <2> QED
    BY <1>1, WFMin
<1>3. ASSUME NEW x \in S, NEW y \in S, ~(<<y, x>> \in Less) PROVE x <= y
  BY <1>3
<1> QED
  BY <1>2, <1>3

\* Blocks of one path are ordered by height: the one that is not higher is
\* an ancestor of the other.
LEMMA PathOrder ==
  ASSUME NEW b \in Block, NEW a \in Path[b], NEW c \in Path[b]
  PROVE  /\ a \in Block /\ c \in Block
         /\ Height[a] \in Nat /\ Height[c] \in Nat
         /\ Height[a] <= Height[c] => a \in Path[c]
         /\ a \in Path[c] => Height[a] <= Height[c]
         /\ Height[a] = Height[c] => a = c
<1>1. a \in Block /\ c \in Block
  BY TreeAssumption
<1>2. Height[a] \in Nat /\ Height[c] \in Nat
  BY <1>1, NumberAssumption
<1>3. a \in Path[c] \/ c \in Path[a]
  BY TreeAssumption
<1>4. a \in Path[c] /\ a # c => Height[a] < Height[c]
  BY <1>1, NumberAssumption
<1>5. c \in Path[a] /\ a # c => Height[c] < Height[a]
  BY <1>1, NumberAssumption
<1>6. a = c => a \in Path[c]
  BY <1>1, TreeAssumption
<1> QED
  BY <1>1, <1>2, <1>3, <1>4, <1>5, <1>6

\* Among blocks of one path there is a highest one, of which all the others
\* are ancestors.
LEMMA Highest ==
  ASSUME NEW b \in Block, NEW S \in SUBSET Path[b], S # {}
  PROVE  \E x \in S : S \subseteq Path[x]
<1> DEFINE D == {Height[b] - Height[x] : x \in S}
<1>1. \A x \in S : x \in Path[b] /\ Height[x] \in Nat /\ Height[x] <= Height[b]
  <2>1. b \in Path[b]
    BY TreeAssumption
  <2> QED
    BY <2>1, PathOrder, TreeAssumption
<1>2. Height[b] \in Nat
  BY NumberAssumption
<1>3. D \in SUBSET Nat /\ D # {}
  BY <1>1, <1>2
<1>4. PICK n \in D : \A m \in D : n <= m
  BY <1>3, LeastNat
<1>5. PICK x \in S : n = Height[b] - Height[x]
  BY <1>4
<1>6. ASSUME NEW y \in S PROVE y \in Path[x]
  <2>1. Height[b] - Height[x] <= Height[b] - Height[y]
    BY <1>4, <1>5
  <2>2. Height[y] <= Height[x]
    BY <2>1, <1>1, <1>2
  <2> QED
    BY <2>2, <1>1, PathOrder
<1> QED
  BY <1>6

\* Among blocks of one path there is a lowest one, which is an ancestor of
\* all the others.
LEMMA Lowest ==
  ASSUME NEW b \in Block, NEW S \in SUBSET Path[b], S # {}
  PROVE  \E x \in S : \A y \in S : Height[x] <= Height[y]
<1> DEFINE D == {Height[x] : x \in S}
<1>1. \A x \in S : Height[x] \in Nat
  BY TreeAssumption, NumberAssumption
<1>2. D \in SUBSET Nat /\ D # {}
  BY <1>1
<1>3. PICK n \in D : \A m \in D : n <= m
  BY <1>2, LeastNat
<1> QED
  BY <1>3

\* CChain::FindFork returns the highest common block.
LEMMA FindForkIsHighest ==
  ASSUME NEW t \in Block, NEW b \in Block
  PROVE  /\ FindFork(t, b) \in Path[t] /\ FindFork(t, b) \in Path[b]
         /\ \A c \in Path[t] \cap Path[b] : c \in Path[FindFork(t, b)]
<1> DEFINE S == Path[t] \cap Path[b]
<1>1. S # {} /\ S \in SUBSET Path[t]
  BY TreeAssumption
<1>2. \E f \in S : \A c \in S : c \in Path[f]
  <2>1. \E f \in S : S \subseteq Path[f]
    <3> HIDE DEF S
    <3> QED
      BY <1>1, Highest
  <2> QED
    BY <2>1
<1> QED
  BY <1>2 DEF FindFork

\* Above every ancestor a of b there is a block of the path of b whose
\* predecessor is a; GetAncestor finds it by its height.
LEMMA Successor ==
  ASSUME NEW b \in Block, NEW a \in Path[b], a # b
  PROVE  LET n == GetAncestor(b, Height[a] + 1)
         IN  n \in Path[b] /\ n \in Block /\ n # Genesis
             /\ Parent[n] = a /\ Height[n] = Height[a] + 1
<1> DEFINE S == Path[b] \ Path[a]
           n == GetAncestor(b, Height[a] + 1)
<1>1. a \in Block /\ b \in Path[b] /\ Height[a] \in Nat
  BY TreeAssumption, NumberAssumption
<1>2. b \notin Path[a]
  <2>1. Height[a] < Height[b]
    BY NumberAssumption
  <2> QED
    BY <2>1, <1>1, PathOrder, NumberAssumption
<1>3. PICK x \in S : \A y \in S : Height[x] <= Height[y]
  BY <1>1, <1>2, Lowest
<1>4. x \in Block /\ x \in Path[b] /\ x \notin Path[a]
  BY <1>3, TreeAssumption
<1>5. x # Genesis
  BY <1>1, <1>4, TreeAssumption
<1>6. Parent[x] \in Block /\ Parent[x] \in Path[x] /\ Parent[x] \in Path[b]
      /\ Height[x] = Height[Parent[x]] + 1
  BY <1>4, <1>5, TreeAssumption, NumberAssumption
<1>7. Parent[x] \in Path[a]
  BY <1>3, <1>4, <1>6, NumberAssumption
<1>8. Height[Parent[x]] <= Height[a]
  BY <1>1, <1>7, PathOrder
<1>9. ~(Height[x] <= Height[a])
  BY <1>4, PathOrder
<1>10. Height[x] = Height[a] + 1 /\ Height[Parent[x]] = Height[a]
  BY <1>1, <1>4, <1>6, <1>8, <1>9, NumberAssumption
<1>11. Parent[x] = a
  BY <1>6, <1>10, PathOrder
<1>12. n \in Path[b] /\ Height[n] = Height[a] + 1
  BY <1>4, <1>10 DEF GetAncestor
<1>13. n = x
  BY <1>4, <1>10, <1>12, PathOrder
<1> QED
  BY <1>4, <1>5, <1>10, <1>11, <1>13

\* CBlockIndexWorkComparator is a strict total order.
LEMMA WorseIsOrder ==
  ASSUME NEW seq \in [Block -> Int], NEW a \in Block, NEW b \in Block, NEW c \in Block
  PROVE  /\ ~Worse(seq, a, a)
         /\ Worse(seq, a, b) /\ Worse(seq, b, c) => Worse(seq, a, c)
         /\ a = b \/ Worse(seq, a, b) \/ Worse(seq, b, a)
         /\ Worse(seq, a, b) => ~Worse(seq, b, a)
<1>1. \A x \in Block : Work[x] \in Nat /\ Addr[x] \in Nat /\ seq[x] \in Int
  BY NumberAssumption
<1>2. Addr[a] = Addr[b] => a = b
  BY NumberAssumption
<1> QED
  BY <1>1, <1>2 DEF Worse

\* A finite set of blocks that is not empty has a best element under
\* CBlockIndexWorkComparator: the rbegin() of setBlockIndexCandidates exists.
LEMMA BestExists ==
  ASSUME NEW seq \in [Block -> Int], NEW C \in SUBSET Block,
         IsFiniteSet(C), C # {}
  PROVE  \E c \in C : \A x \in C \ {c} : Worse(seq, x, c)
<1> DEFINE Above(c) == {x \in C : Worse(seq, c, x)}
           R == {Cardinality(Above(c)) : c \in C}
<1>1. \A c \in C : IsFiniteSet(Above(c)) /\ Cardinality(Above(c)) \in Nat
  BY FS_Subset, FS_CardinalityType
<1>2. R \in SUBSET Nat /\ R # {}
  BY <1>1
<1>3. PICK n \in R : \A m \in R : n <= m
  <2> HIDE DEF R
  <2> QED
    BY <1>2, LeastNat
<1>4. PICK c \in C : n = Cardinality(Above(c))
  BY <1>3
<1>5. ASSUME NEW x \in C, Worse(seq, c, x) PROVE FALSE
  <2>1. Above(x) \subseteq Above(c)
    BY <1>5, WorseIsOrder
  <2>2. x \in Above(c) /\ x \notin Above(x)
    BY <1>5, WorseIsOrder
  <2>3. Cardinality(Above(c)) <= Cardinality(Above(x))
    BY <1>3, <1>4
  <2>4. /\ Cardinality(Above(x)) <= Cardinality(Above(c))
        /\ Cardinality(Above(x)) = Cardinality(Above(c)) => Above(x) = Above(c)
    <3> HIDE DEF Above
    <3> QED
      BY <1>1, <2>1, FS_Subset
  <2>5. Cardinality(Above(x)) = Cardinality(Above(c))
    <3> HIDE DEF Above
    <3> QED
      BY <1>1, <2>3, <2>4
  <2> QED
    BY <2>2, <2>4, <2>5
<1>6. ASSUME NEW x \in C \ {c} PROVE Worse(seq, x, c)
  BY <1>5, WorseIsOrder
<1> QED
  BY <1>6

=============================================================================
