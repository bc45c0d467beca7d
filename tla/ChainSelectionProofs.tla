------------------------- MODULE ChainSelectionProofs -------------------------
(***************************************************************************)
(* Theorems about ChainSelection for every block tree, any number of       *)
(* threads and any number of operator calls: type correctness, that the    *)
(* active chain never holds a parked block, and that it consists of blocks *)
(* whose scripts have been checked.                                        *)
(***************************************************************************)
EXTENDS ChainSelection, BlockTreeProofs

\* setBlockIndexCandidates.rbegin() is one of the candidates.
LEMMA BestCandidateIn ==
  ASSUME TypeOK, candidates # {}
  PROVE  BestCandidate \in candidates /\ BestCandidate \in Block
<1>1. IsFiniteSet(candidates)
  BY ConfigAssumption, FS_Subset, Zenon DEF TypeOK
<1>2. \E c \in candidates : \A x \in candidates \ {c} : Worse(seqId, x, c)
  BY <1>1, BestExists, Zenon DEF TypeOK
<1> QED
  BY <1>2, Zenon DEF BestCandidate, TypeOK

\* FindMostWorkChain meets a highest unusable block, off the active chain.
LEMMA HighestUnusable ==
  ASSUME TypeOK, candidates # {}, Unusable(BestCandidate) # {}
  PROVE  LET bad  == Unusable(BestCandidate)
             test == CHOOSE x \in bad : bad \subseteq Path[x]
         IN  test \in Block /\ test \in Path[BestCandidate] /\ test \notin Path[tip]
<1> DEFINE bad == Unusable(BestCandidate)
<1>1. BestCandidate \in Block
  BY BestCandidateIn, Zenon
<1>2. bad \in SUBSET Path[BestCandidate]
  BY Zenon DEF Unusable
<1>3. \E x \in bad : bad \subseteq Path[x]
  <2> HIDE DEF bad
  <2>1. bad # {}
    BY Zenon DEF bad
  <2> QED
    BY <1>1, <1>2, <2>1, Highest
<1>4. \A x \in bad : x \in Path[BestCandidate] /\ x \notin Path[tip]
  BY Zenon DEF Unusable
<1>5. Path[BestCandidate] \subseteq Block
  BY <1>1, TreeAssumption, Zenon
<1> QED
  BY <1>3, <1>4, <1>5, Zenon

\* RecalculateBestHeader finds a block of the index.
LEMMA BestHeaderIn ==
  ASSUME NEW t \in Block, NEW ok \in SUBSET Block
  PROVE  RecalculateBestHeader(t, ok) \subseteq Block
  BY Zenon DEF RecalculateBestHeader

\* The queue of ReceivedBlockTransactions is a finite set of blocks.
LEMMA LinkableIn ==
  ASSUME TypeOK, NEW b \in Block
  PROVE  /\ Linkable(b) \in SUBSET Block
         /\ Cardinality(Linkable(b)) \in Nat
<1>1. Linkable(b) \in SUBSET Block
  BY Zenon DEF Linkable, TypeOK
<1>2. IsFiniteSet(Linkable(b))
  BY <1>1, ConfigAssumption, FS_Subset, Zenon
<1> QED
  BY <1>1, <1>2, FS_CardinalityType, Zenon

\* The root that AcceptBlock parks is a block.
LEMMA ParkRootIn ==
  ASSUME TypeOK, NEW b \in Block
  PROVE  ParkRoot(b) \in SUBSET Block
<1>1. CASE b \notin Path[tip]
  <2> DEFINE f == FindFork(tip, b)
  <2>1. f \in Path[tip] /\ f \in Path[b]
    BY FindForkIsHighest, Zenon DEF TypeOK
  <2>2. f # b
    BY <1>1, <2>1, Zenon
  <2>3. GetAncestor(b, Height[f] + 1) \in Block
    BY <2>1, <2>2, Successor, Zenon
  <2> QED
    BY <2>3, Zenon DEF ParkRoot
<1>2. CASE b \in Path[tip]
  BY <1>2, Zenon DEF ParkRoot
<1> QED
  BY <1>1, <1>2, Zenon

\* ConnectTip connects the child of the tip that leads to pindexMostWork.
LEMMA NextIsChild ==
  ASSUME TypeOK, mostWork \in Block, tip \in Path[mostWork] \ {mostWork}
  PROVE  LET n == NextToward(tip, mostWork)
         IN  /\ n \in Block /\ n \in Path[mostWork]
             /\ Path[n] = Path[tip] \cup {n}
<1>1. tip \in Block
  BY Zenon DEF TypeOK
<1> QED
  BY <1>1, Successor, TreeAssumption DEF NextToward

-----------------------------------------------------------------------------
(* Type correctness *)

LEMMA InitType == Init => TypeOK
<1> SUFFICES ASSUME Init PROVE TypeOK
  BY Zenon
<1>1. InitTip \in Block /\ Path[InitTip] \in SUBSET Block
  BY TreeAssumption, ConfigAssumption, Zenon
<1>2. seqId \in [Block -> Int]
  BY DEF Init
<1>3. pc \in [Proc -> Places]
  BY Zenon DEF Init, Places
<1>4. /\ rpcLeft \in Nat
      /\ nextSeq \in Nat /\ reverseSeq \in Int /\ lastPrecious \in Nat
  BY ConfigAssumption DEF Init
<1>5. connected \in BOOLEAN /\ wasInChain \in BOOLEAN
  BY Zenon DEF Init
<1> QED
  BY <1>1, <1>2, <1>3, <1>4, <1>5, Zenon DEF Init, TypeOK

USE DEF dataVars, failVars, parkVars, seqVars, lockVars, abcVars, invVars

LEMMA NewHeadersType ==
  ASSUME TypeOK, NEW p \in Proc, NEW b \in Block, ProcessNewBlockHeaders(p, b)
  PROVE  TypeOK'
  BY DEF TypeOK, ProcessNewBlockHeaders, AddToBlockIndex

LEMMA RejectType ==
  ASSUME TypeOK, NEW p \in Proc, NEW b \in Block, RejectFailedBranch(p, b)
  PROVE  TypeOK'
  BY TreeAssumption DEF TypeOK, RejectFailedBranch

LEMMA NoStoreType ==
  ASSUME TypeOK, NEW p \in Proc, NEW b \in Block, AcceptWithoutStoring(p, b)
  PROVE  TypeOK'
  BY DEF TypeOK, AcceptWithoutStoring, AddToBlockIndex, ThenActivateBestChain, Places

LEMMA BadBodyType ==
  ASSUME TypeOK, NEW p \in Proc, NEW b \in Block, AcceptBadBody(p, b)
  PROVE  TypeOK'
  BY DEF TypeOK, AcceptBadBody, AddToBlockIndex

LEMMA AcceptType ==
  ASSUME TypeOK, NEW p \in Proc, NEW b \in Block, AcceptBlock(p, b)
  PROVE  TypeOK'
<1> DEFINE root == ParkRoot(b)
<1>1. root \in SUBSET Block
  BY ParkRootIn, Zenon
<1>2. ReceivedBlockTransactions(b, root)
  BY Zenon DEF AcceptBlock
<1>3. /\ nTx' \in SUBSET Block /\ haveData' \in SUBSET Block
      /\ parked' \in SUBSET Block
  BY <1>1, <1>2, Zenon DEF ReceivedBlockTransactions, TypeOK
<1>4. /\ chainTx' \in SUBSET Block /\ unlinked' \in SUBSET Block
      /\ seqId' \in [Block -> Int] /\ nextSeq' \in Nat
      /\ parkedChild' \in SUBSET Block /\ candidates' \in SUBSET Block
  <2>1. CASE b = Genesis \/ Parent[b] \in chainTx
    <3> DEFINE S == Linkable(b)
               mask == Parked \cup root
               kids == ParkedByAncestor(S, tip, mask)
    <3>1. S \in SUBSET Block /\ Cardinality(S) \in Nat
      BY LinkableIn, Zenon
    <3>2. PICK order \in SequenceOrders(S, nextSeq) :
            /\ seqId' = [x \in Block |-> IF x \in S THEN order[x] ELSE seqId[x]]
            /\ nextSeq' = nextSeq + Cardinality(S)
            /\ chainTx' = chainTx \cup S
            /\ unlinked' = unlinked \ S
            /\ parkedChild' = parkedChild \cup kids
            /\ candidates' = TryAdd(S, candidates \ root, tip, seqId', mask \cup kids)
      BY <1>2, <2>1, Zenon DEF ReceivedBlockTransactions
    <3> HIDE DEF S
    <3>3. \A x \in S : order[x] \in Int
      <4>1. order \in [S -> nextSeq .. nextSeq + Cardinality(S) - 1]
        BY <3>2, Zenon DEF SequenceOrders
      <4>2. nextSeq .. nextSeq + Cardinality(S) - 1 \subseteq Int
        BY <3>1 DEF TypeOK
      <4> QED
        BY <4>1, <4>2, Zenon
    <3>4. seqId' \in [Block -> Int]
      BY <3>2, <3>3, Zenon DEF TypeOK
    <3>5. kids \in SUBSET Block
      BY <3>1, Zenon DEF ParkedByAncestor
    <3> HIDE DEF kids, mask, root
    <3>6. TryAdd(S, candidates \ root, tip, seqId', mask \cup kids) \in SUBSET Block
      BY <3>1, Zenon DEF TryAdd, TypeOK
    <3>7. nextSeq' \in Nat
      BY <3>1, <3>2 DEF TypeOK
    <3>8. /\ chainTx' \in SUBSET Block /\ unlinked' \in SUBSET Block
          /\ parkedChild' \in SUBSET Block
      BY <3>1, <3>2, <3>5, Zenon DEF TypeOK
    <3>9. candidates' \in SUBSET Block
      BY <3>2, <3>6, Zenon
    <3> QED
      BY <3>4, <3>7, <3>8, <3>9, Zenon
  <2>2. CASE ~(b = Genesis \/ Parent[b] \in chainTx)
    BY <1>2, <2>2, Zenon DEF ReceivedBlockTransactions, AddUnlinkedBlock, TypeOK
  <2> QED
    BY <2>1, <2>2, Zenon
<1> QED
  BY <1>3, <1>4 DEF TypeOK, AcceptBlock, AddToBlockIndex, ThenActivateBestChain, Places

\* Release and StepDone leave the threads and the locks well typed.
LEMMA ReleaseType ==
  ASSUME TypeOK, NEW p \in Proc, NEW t, NEW m, Release(p, t, m)
  PROVE  /\ pc' \in [Proc -> Places]
         /\ chainMutex' \in Proc \cup {None} /\ csMain' \in Proc \cup {None}
  BY Zenon DEF TypeOK, Release, Places

LEMMA StepDoneType ==
  ASSUME TypeOK, NEW p \in Proc, NEW t, NEW m, StepDone(p, t, m)
  PROVE  /\ pc' \in [Proc -> Places]
         /\ chainMutex' \in Proc \cup {None} /\ csMain' \in Proc \cup {None}
         /\ connected' \in BOOLEAN
<1>1. CASE Worse(seqId, t, startTip)
  BY <1>1, Zenon DEF TypeOK, StepDone, Places
<1>2. CASE ~Worse(seqId, t, startTip)
  <2>1. Release(p, t, m) /\ connected' = TRUE
    BY <1>2, Zenon DEF StepDone
  <2> QED
    BY <2>1, ReleaseType, Zenon
<1> QED
  BY <1>1, <1>2, Zenon

LEMMA EnterType ==
  ASSUME TypeOK, NEW p \in Proc, ABCEnter(p) \/ ABCLock(p)
  PROVE  TypeOK'
<1>1. CASE ABCEnter(p)
  BY <1>1, Zenon DEF TypeOK, ABCEnter, Places
<1>2. CASE ABCLock(p)
  <2>1. connected' \in BOOLEAN
    BY <1>2, Zenon DEF ABCLock
  <2> QED
    BY <1>2, <2>1, Zenon DEF TypeOK, ABCLock, Places
<1> QED
  BY <1>1, <1>2, Zenon

LEMMA SkipType ==
  ASSUME TypeOK, NEW p \in Proc, FindMostWorkSkip(p)
  PROVE  TypeOK'
<1> DEFINE bad   == Unusable(BestCandidate)
           test  == CHOOSE x \in bad : bad \subseteq Path[x]
           above == Path[BestCandidate] \ Path[test]
<1>1. BestCandidate \in Block
  BY BestCandidateIn, Zenon DEF FindMostWorkSkip
<1>2. above \in SUBSET Block
  BY <1>1, TreeAssumption, Zenon
<1>3. /\ candidates' = EraseChain(BestCandidate, test)
      /\ failedChild' \in {failedChild, failedChild \cup above}
      /\ parkedChild' \in {parkedChild, parkedChild \cup above}
      /\ unlinked' \in {unlinked, unlinked \cup above}
  BY Zenon DEF FindMostWorkSkip, AddUnlinkedBlock
<1>4. candidates' \in SUBSET Block
  BY <1>3, Zenon DEF EraseChain, TypeOK
<1> HIDE DEF above
<1> QED
  BY <1>2, <1>3, <1>4, SMTT(20) DEF TypeOK, FindMostWorkSkip

LEMMA PickType ==
  ASSUME TypeOK, NEW p \in Proc, FindMostWorkPick(p)
  PROVE  TypeOK'
  BY BestCandidateIn DEF TypeOK, FindMostWorkPick

LEMMA BreakType ==
  ASSUME TypeOK, NEW p \in Proc, ABCBreak(p)
  PROVE  TypeOK'
<1>1. Release(p, tip, mostWork) \/ Release(p, tip, tip)
  BY Zenon DEF ABCBreak
<1>2. /\ pc' \in [Proc -> Places]
      /\ chainMutex' \in Proc \cup {None} /\ csMain' \in Proc \cup {None}
  BY <1>1, ReleaseType, Zenon
<1> QED
  BY <1>2, Zenon DEF TypeOK, ABCBreak

LEMMA StepType ==
  ASSUME TypeOK, NEW p \in Proc, ABCStep(p) \/ DisconnectTip(p) \/ FatalError(p)
  PROVE  TypeOK'
<1>1. CASE ABCStep(p)
  BY <1>1, Zenon DEF TypeOK, ABCStep, Places
<1>2. CASE DisconnectTip(p)
  BY <1>2, TreeAssumption DEF TypeOK, DisconnectTip
<1>3. CASE FatalError(p)
  <2>1. pc' \in [Proc -> Places]
    BY <1>3, Zenon DEF TypeOK, FatalError, Places
  <2>2. UNCHANGED <<known, dataVars, failVars, parkVars, bestHeader, seqVars,
                    tip, candidates, lockVars, abcVars, invVars, rpcLeft>>
    BY <1>3, Zenon DEF FatalError
  <2> QED
    BY <2>1, <2>2 DEF TypeOK
<1> QED
  BY <1>1, <1>2, <1>3, Zenon

LEMMA ConnectType ==
  ASSUME TypeOK, NEW p \in Proc, ConnectTip(p), mostWork # None
  PROVE  TypeOK'
<1> DEFINE n == NextToward(tip, mostWork)
<1>1. n \in Block
  BY NextIsChild, Zenon DEF ConnectTip, TypeOK
<1>2. /\ pc' \in [Proc -> Places]
      /\ chainMutex' \in Proc \cup {None} /\ csMain' \in Proc \cup {None}
      /\ connected' \in BOOLEAN
  <2>1. StepDone(p, n, mostWork) \/ UNCHANGED <<pc, lockVars, connected>>
    BY Zenon DEF ConnectTip
  <2>2. CASE StepDone(p, n, mostWork)
    BY <2>2, StepDoneType, Zenon
  <2>3. CASE UNCHANGED <<pc, lockVars, connected>>
    BY <2>3, Zenon DEF TypeOK
  <2> QED
    BY <2>1, <2>2, <2>3, Zenon
<1>3. candidates' \in SUBSET Block
  BY Zenon DEF ConnectTip, PruneCandidates, TypeOK
<1>4. tip' = n /\ scripts' = scripts \cup {n}
  BY Zenon DEF ConnectTip
<1> HIDE DEF n
<1> QED
  BY <1>1, <1>2, <1>3, <1>4, Zenon DEF TypeOK, ConnectTip

LEMMA ConnectInvalidType ==
  ASSUME TypeOK, NEW p \in Proc, ConnectInvalid(p), mostWork # None
  PROVE  TypeOK'
<1> DEFINE n == NextToward(tip, mostWork)
           D == FailureFlagged(n)
<1>1. n \in Block
  BY NextIsChild, Zenon DEF ConnectInvalid, TypeOK
<1>2. D \in SUBSET Block
  BY Zenon DEF FailureFlagged, Descendants, TypeOK
<1>3. /\ failedValid' = (failedValid \cup {n}) \ D
      /\ failedChild' = failedChild \cup D
      /\ failedBlocks' = (failedBlocks \cup {n}) \ D
      /\ candidates' = candidates \ {n}
      /\ \/ bestHeader' \in
              RecalculateBestHeader(tip, known \ (failedValid' \cup failedChild'))
         \/ UNCHANGED bestHeader
      /\ StepDone(p, tip, None)
  BY Zenon DEF ConnectInvalid
<1> HIDE DEF n, D
<1>4. /\ pc' \in [Proc -> Places]
      /\ chainMutex' \in Proc \cup {None} /\ csMain' \in Proc \cup {None}
      /\ connected' \in BOOLEAN
  BY <1>3, StepDoneType, Zenon
<1>5. bestHeader' \in Block
  <2>1. known \ (failedValid' \cup failedChild') \in SUBSET Block /\ tip \in Block
    BY Zenon DEF TypeOK
  <2>2. RecalculateBestHeader(tip, known \ (failedValid' \cup failedChild')) \subseteq Block
    BY <2>1, BestHeaderIn, Zenon
  <2> QED
    BY <1>3, <2>2, Zenon DEF TypeOK
<1> QED
  BY <1>1, <1>2, <1>3, <1>4, <1>5, Zenon DEF TypeOK, ConnectInvalid

\* An operator call uses up one of the calls that are left.
LEMMA CallType ==
  ASSUME TypeOK, NEW p \in Proc, NEW name, Call(p, name)
  PROVE  rpcLeft' \in Nat
<1>1. rpcLeft \in Nat
  BY Zenon DEF TypeOK
<1> QED
  BY <1>1 DEF Call

LEMMA InvalidateBeginType ==
  ASSUME TypeOK, NEW p \in Proc, NEW b \in Block, InvalidateBegin(p, b)
  PROVE  TypeOK'
<1>1. byWork' \in SUBSET Block
  BY Zenon DEF InvalidateBegin, Connectable, TypeOK
<1>2. wasInChain' \in BOOLEAN
  BY Zenon DEF InvalidateBegin
<1>3. rpcLeft' \in Nat
  <2>1. Call(p, "invalidate")
    BY Zenon DEF InvalidateBegin
  <2> QED
    BY <2>1, CallType, Zenon
<1> QED
  BY <1>1, <1>2, <1>3, Zenon DEF TypeOK, InvalidateBegin, Places

LEMMA InvalidateDisconnectType ==
  ASSUME TypeOK, NEW p \in Proc, InvalidateDisconnect(p)
  PROVE  TypeOK'
<1> DEFINE new  == Parent[tip]
           back == {c \in byWork : ~Worse(seqId, c, new)}
           kids == ParkedByAncestor(back, new, Parked)
           demote == {toMark} \cap failedValid \cap {x \in Block : Parent[x] = tip}
<1>1. new \in Block /\ back \in SUBSET Block /\ kids \in SUBSET Block
      /\ demote \in SUBSET Block
  BY TreeAssumption, Zenon DEF TypeOK, ParkedByAncestor
<1>2. /\ tip' = new
      /\ failedValid' = (failedValid \cup {tip}) \ demote
      /\ failedChild' = failedChild \cup demote
      /\ parkedChild' = parkedChild \cup kids
      /\ candidates' = TryAdd(back, StepBack(tip), new, seqId, Parked \cup kids)
      /\ byWork' = byWork \ back
  BY Zenon DEF InvalidateDisconnect
<1>3. candidates' \in SUBSET Block
  <2> HIDE DEF back, kids
  <2>1. StepBack(tip) \in SUBSET Block
    BY <1>1, Zenon DEF StepBack, TypeOK
  <2> QED
    BY <1>1, <1>2, <2>1, Zenon DEF TryAdd
<1>4. wasInChain' \in BOOLEAN
  BY Zenon DEF InvalidateDisconnect
<1> HIDE DEF new, back, kids, demote
<1> QED
  BY <1>1, <1>2, <1>3, <1>4 DEF TypeOK, InvalidateDisconnect

LEMMA InvalidateFailType ==
  ASSUME TypeOK, NEW p \in Proc, InvalidateFail(p)
  PROVE  TypeOK'
  BY Zenon DEF TypeOK, InvalidateFail, ThenActivateBestChain, Places

LEMMA InvalidateEndType ==
  ASSUME TypeOK, LocksHeld, NEW p \in Proc, InvalidateEnd(p)
  PROVE  TypeOK'
<1> DEFINE new  == IF wasInChain THEN {} ELSE {target} \ Failed
           late == LateCandidates(Failed \cup new)
           kids == ParkedByAncestor(late, tip, Parked)
           D    == FailureFlagged(toMark)
<1>1. late \in SUBSET Block /\ kids \in SUBSET Block /\ D \in SUBSET Block
  BY Zenon DEF TypeOK, ParkedByAncestor, LateCandidates, Connectable, FailureFlagged,
         Descendants
<1>2. /\ candidates' = TryAdd(late, candidates \ new, tip, seqId, Parked \cup kids)
      /\ parkedChild' = parkedChild \cup kids
      /\ failedValid' = (failedValid \cup new) \ D
      /\ failedChild' = failedChild \cup D
      /\ failedBlocks' = (failedBlocks \cup new) \ D
      /\ \/ bestHeader' \in
              RecalculateBestHeader(tip, known \ (failedValid' \cup failedChild'))
         \/ UNCHANGED bestHeader
  BY Zenon DEF InvalidateEnd
<1>3. new \in SUBSET Block
  <2>1. target \in Block
    BY Zenon DEF InvalidateEnd, LocksHeld, TypeOK
  <2> QED
    BY <2>1, Zenon
<1> HIDE DEF new, late, kids, D
<1>4. candidates' \in SUBSET Block
  BY <1>1, <1>2, Zenon DEF TryAdd, TypeOK
<1>5. bestHeader' \in Block
  <2>1. known \ (failedValid' \cup failedChild') \in SUBSET Block /\ tip \in Block
    BY Zenon DEF TypeOK
  <2>2. RecalculateBestHeader(tip, known \ (failedValid' \cup failedChild')) \subseteq Block
    BY <2>1, BestHeaderIn, Zenon
  <2> QED
    BY <1>2, <2>2, Zenon DEF TypeOK
<1> QED
  BY <1>1, <1>2, <1>3, <1>4, <1>5
  DEF TypeOK, InvalidateEnd, ThenActivateBestChain, Places

LEMMA ReconsiderType ==
  ASSUME TypeOK, NEW p \in Proc, NEW b \in Block, ReconsiderBlock(p, b)
  PROVE  TypeOK'
<1> DEFINE cleared == {x \in Failed : b \in Path[x] \/ x \in Path[b]}
           roots   == SiblingRoots(b, cleared)
           back    == {x \in cleared \cap nTx \cap chainTx : Worse(seqId, tip, x)}
           kids    == ParkedByAncestor(back, tip, Parked)
<1>1. roots \in SUBSET Block /\ back \in SUBSET Block /\ kids \in SUBSET Block
  BY Zenon DEF TypeOK, SiblingRoots, ParkedByAncestor
<1>2. /\ failedValid' = (failedValid \ cleared) \cup roots
      /\ failedChild' = (failedChild \ cleared) \ roots
      /\ failedBlocks' = (failedBlocks \ cleared) \cup roots
      /\ parkedChild' = parkedChild \cup kids
      /\ candidates' = TryAdd(back, candidates, tip, seqId, Parked \cup kids)
      /\ bestHeader' \in
           RecalculateBestHeader(tip, known \ (failedValid' \cup failedChild'))
  BY Zenon DEF ReconsiderBlock, ResetFailedBlocks
<1> HIDE DEF cleared, roots, back, kids
<1>3. candidates' \in SUBSET Block
  BY <1>1, <1>2, Zenon DEF TryAdd, TypeOK
<1>4. bestHeader' \in Block
  <2>1. known \ (failedValid' \cup failedChild') \in SUBSET Block /\ tip \in Block
    BY Zenon DEF TypeOK
  <2> QED
    BY <1>2, <2>1, BestHeaderIn, Zenon
<1>5. rpcLeft' \in Nat
  <2>1. Call(p, "reconsider")
    BY Zenon DEF ReconsiderBlock
  <2> QED
    BY <2>1, CallType, Zenon
<1> QED
  BY <1>1, <1>2, <1>3, <1>4, <1>5
  DEF TypeOK, ReconsiderBlock, ThenActivateBestChain, Places

LEMMA ParkType ==
  ASSUME TypeOK, NEW p \in Proc, NEW b \in Block, ParkBlock(p, b)
  PROVE  TypeOK'
<1>1. rpcLeft' \in Nat
  <2>1. Call(p, "park")
    BY Zenon DEF ParkBlock
  <2> QED
    BY <2>1, CallType, Zenon
<1> QED
  BY <1>1 DEF TypeOK, ParkBlock

LEMMA UnparkType ==
  ASSUME TypeOK, NEW p \in Proc, NEW b \in Block, UnparkBlock(p, b)
  PROVE  TypeOK'
<1> DEFINE cleared == {x \in Parked : b \in Path[x] \/ x \in Path[b]}
<1>1. /\ parked' = parked \ cleared
      /\ parkedChild' = parkedChild \ cleared
      /\ candidates' = TryAdd(cleared \cap chainTx, candidates, tip, seqId,
                              Parked \ cleared)
      /\ bestHeader' \in RecalculateBestHeader(tip, known \ Failed)
  BY Zenon DEF UnparkBlock
<1> HIDE DEF cleared
<1>2. candidates' \in SUBSET Block
  BY <1>1, Zenon DEF TryAdd, TypeOK
<1>3. bestHeader' \in Block
  <2>1. known \ Failed \in SUBSET Block /\ tip \in Block
    BY Zenon DEF TypeOK
  <2> QED
    BY <1>1, <2>1, BestHeaderIn, Zenon
<1>4. rpcLeft' \in Nat
  <2>1. Call(p, "unpark")
    BY Zenon DEF UnparkBlock
  <2> QED
    BY <2>1, CallType, Zenon
<1> QED
  BY <1>1, <1>2, <1>3, <1>4 DEF TypeOK, UnparkBlock, ThenActivateBestChain, Places

LEMMA PreciousType ==
  ASSUME TypeOK, NEW p \in Proc, NEW b \in Block, PreciousBlock(p, b)
  PROVE  TypeOK'
<1>1. seqId' \in [Block -> Int] /\ reverseSeq' \in Int
  BY SMTT(20) DEF PreciousBlock, TypeOK
<1>2. lastPrecious' \in Nat
  BY NumberAssumption, Zenon DEF PreciousBlock, TypeOK
<1>3. candidates' \in SUBSET Block
  BY Zenon DEF PreciousBlock, PruneCandidates, TypeOK
<1>4. rpcLeft' \in Nat
  <2>1. Call(p, "precious")
    BY Zenon DEF PreciousBlock
  <2> QED
    BY <2>1, CallType, Zenon
<1> QED
  BY <1>1, <1>2, <1>3, <1>4 DEF TypeOK, PreciousBlock, ThenActivateBestChain, Places

LEMMA PruneType ==
  ASSUME TypeOK, NEW S \in SUBSET Prunable, PruneBlockFiles(S)
  PROVE  TypeOK'
<1>1. rpcLeft' \in Nat
  BY DEF PruneBlockFiles, TypeOK
<1> QED
  BY <1>1 DEF TypeOK, PruneBlockFiles, PruneUnlinked

\* A step taken where the locks are as LocksHeld says keeps the types.
LEMMA NextType ==
  ASSUME TypeOK, LocksHeld, [Next]_vars
  PROVE  TypeOK'
<1>1. ASSUME NEW p \in Proc, ActivateBestChain(p) PROVE TypeOK'
  <2>1. ASSUME ConnectTip(p) \/ ConnectInvalid(p) PROVE TypeOK'
    <3>1. mostWork # None
      BY <2>1, Zenon DEF LocksHeld, ConnectTip, ConnectInvalid
    <3> QED
      BY <2>1, <3>1, ConnectType, ConnectInvalidType, Zenon
  <2> QED
    BY <1>1, <2>1, EnterType, SkipType, PickType, BreakType, StepType, Zenon
    DEF ActivateBestChain
<1>2. ASSUME NEW p \in Proc, InvalidateBlock(p) PROVE TypeOK'
  BY <1>2, InvalidateDisconnectType, InvalidateFailType, InvalidateEndType, Zenon
  DEF InvalidateBlock
<1>3. ASSUME NEW p \in Proc, NEW b \in Block, Receive(p, b) PROVE TypeOK'
  BY <1>3, NewHeadersType, RejectType, NoStoreType, BadBodyType, AcceptType, Zenon
  DEF Receive
<1>4. ASSUME NEW p \in Proc, NEW b \in Block, Operate(p, b) PROVE TypeOK'
  BY <1>4, InvalidateBeginType, ReconsiderType, ParkType, UnparkType, PreciousType, Zenon
  DEF Operate
<1>5. CASE UNCHANGED vars
  BY <1>5 DEF TypeOK, vars
<1> QED
  BY <1>1, <1>2, <1>3, <1>4, <1>5, PruneType, Zenon DEF Next

-----------------------------------------------------------------------------
(* Locks, the cached target and parking *)

\* LocksHeld only speaks of the threads, the locks, the tip and the targets.
LEMMA LocksIdle ==
  ASSUME TypeOK, LocksHeld, NEW p \in Proc, pc[p] = "idle",
         pc' = [pc EXCEPT ![p] = "abc"] \/ pc' = pc,
         UNCHANGED <<lockVars, mostWork, tip, target>>
  PROVE  LocksHeld'
  BY Zenon DEF LocksHeld, TypeOK

\* Release gives the locks back as LocksHeld says.
LEMMA LocksRelease ==
  ASSUME TypeOK, LocksHeld, NEW p \in Proc, csMain = p, NEW t \in Block, NEW m,
         Release(p, t, m), tip' = t, mostWork' = m \/ t = m,
         m # None => t \in Path[m],
         UNCHANGED target
  PROVE  LocksHeld'
<1>1. chainMutex = p /\ None \notin Proc
  BY ConfigAssumption, Zenon DEF LocksHeld
<1>2. \A q \in Proc : q # p => /\ pc'[q] = pc[q]
                              /\ pc[q] \notin {"loop", "select", "step", "inv", "stopped"}
  BY <1>1, Zenon DEF LocksHeld, Release, TypeOK
<1>3. csMain' = None /\ pc'[p] \in {"idle", "loop"}
  BY Zenon DEF Release, TypeOK
<1>4. pc'[p] = "loop" => chainMutex' = p /\ mostWork' = m
  BY <1>1, Zenon DEF Release, TypeOK
<1> QED
  BY <1>1, <1>2, <1>3, <1>4, Zenon DEF LocksHeld

LEMMA LocksStepDone ==
  ASSUME TypeOK, LocksHeld, NEW p \in Proc, pc[p] = "step", NEW t \in Block, NEW m,
         StepDone(p, t, m), tip' = t, mostWork' = m,
         m # None => t \in Path[m],
         UNCHANGED target
  PROVE  LocksHeld'
<1>1. csMain = p
  BY Zenon DEF LocksHeld
<1>2. CASE Worse(seqId, t, startTip)
  <2>1. pc' = [pc EXCEPT ![p] = "select"] /\ UNCHANGED lockVars
    BY <1>2, Zenon DEF StepDone
  <2>2. \A q \in Proc : q # p => /\ pc'[q] = pc[q]
                                 /\ pc[q] \notin {"loop", "select", "step", "inv", "stopped"}
    BY <1>1, <2>1, Zenon DEF LocksHeld, TypeOK
  <2> QED
    BY <1>1, <2>1, <2>2, Zenon DEF LocksHeld, TypeOK
<1>3. CASE ~Worse(seqId, t, startTip)
  BY <1>1, <1>3, LocksRelease, Zenon DEF StepDone
<1> QED
  BY <1>2, <1>3, Zenon

\* The threads take and give back the locks as LocksHeld says.
LEMMA NextLocks ==
  ASSUME TypeOK, LocksHeld, [Next]_vars
  PROVE  LocksHeld'
<1> USE ConfigAssumption
<1>1. ASSUME NEW p \in Proc, ABCEnter(p) PROVE LocksHeld'
  BY <1>1, Zenon DEF LocksHeld, ABCEnter, TypeOK
<1>2. ASSUME NEW p \in Proc, ABCLock(p) PROVE LocksHeld'
  BY <1>2, Zenon DEF LocksHeld, ABCLock, TypeOK
<1>3. ASSUME NEW p \in Proc, FindMostWorkSkip(p) PROVE LocksHeld'
  BY <1>3, Zenon DEF LocksHeld, FindMostWorkSkip, TypeOK
<1>4. ASSUME NEW p \in Proc, FindMostWorkPick(p) PROVE LocksHeld'
  BY <1>4, Zenon DEF LocksHeld, FindMostWorkPick, TypeOK
<1>5. ASSUME NEW p \in Proc, ABCBreak(p) PROVE LocksHeld'
  <2>1. csMain = p /\ tip \in Block
    BY <1>5, Zenon DEF LocksHeld, ABCBreak, TypeOK
  <2>2. tip \in Path[tip]
    BY <2>1, TreeAssumption, Zenon
  <2>3. UNCHANGED <<tip, mostWork, target>>
    BY <1>5, Zenon DEF ABCBreak
  <2>4. mostWork # None => mostWork = tip
    BY <1>5, Zenon DEF ABCBreak
  <2>5. CASE Release(p, tip, mostWork)
    BY <2>1, <2>2, <2>3, <2>4, <2>5, LocksRelease, Zenon
  <2>6. CASE Release(p, tip, tip)
    BY <2>1, <2>2, <2>3, <2>6, LocksRelease, Zenon
  <2> QED
    BY <1>5, <2>5, <2>6, Zenon DEF ABCBreak
<1>6. ASSUME NEW p \in Proc, ABCStep(p) PROVE LocksHeld'
  BY <1>6, Zenon DEF LocksHeld, ABCStep, TypeOK
<1>7. ASSUME NEW p \in Proc, DisconnectTip(p) PROVE LocksHeld'
  BY <1>7, Zenon DEF LocksHeld, DisconnectTip, TypeOK
<1>8. ASSUME NEW p \in Proc, FatalError(p) PROVE LocksHeld'
  BY <1>8, Zenon DEF LocksHeld, FatalError, TypeOK
<1>9. ASSUME NEW p \in Proc, ConnectTip(p) PROVE LocksHeld'
  <2> DEFINE n == NextToward(tip, mostWork)
  <2>1. pc[p] = "step" /\ mostWork \in Block /\ tip \in Path[mostWork] \ {mostWork}
    BY <1>9, Zenon DEF LocksHeld, ConnectTip, TypeOK
  <2>2. n \in Block /\ n \in Path[mostWork]
    BY <2>1, NextIsChild, Zenon
  <2>3. tip' = n /\ UNCHANGED <<mostWork, target>>
    BY <1>9, Zenon DEF ConnectTip
  <2>4. StepDone(p, n, mostWork) \/ UNCHANGED <<pc, lockVars, connected>>
    BY <1>9, Zenon DEF ConnectTip
  <2> HIDE DEF n
  <2>5. CASE StepDone(p, n, mostWork)
    BY <2>1, <2>2, <2>3, <2>5, LocksStepDone, Zenon
  <2>6. CASE UNCHANGED <<pc, lockVars, connected>>
    BY <2>1, <2>2, <2>3, <2>6 DEF LocksHeld, TypeOK
  <2> QED
    BY <2>4, <2>5, <2>6, Zenon
<1>10. ASSUME NEW p \in Proc, ConnectInvalid(p) PROVE LocksHeld'
  <2>1. /\ pc[p] = "step" /\ tip \in Block /\ StepDone(p, tip, None)
        /\ tip' = tip /\ mostWork' = None /\ UNCHANGED target
    BY <1>10, Zenon DEF ConnectInvalid, TypeOK
  <2> QED
    BY <2>1, LocksStepDone, Zenon
<1>11. ASSUME NEW p \in Proc, InvalidateBlock(p) PROVE LocksHeld'
  <2>1. CASE InvalidateDisconnect(p)
    BY <2>1, Zenon DEF LocksHeld, InvalidateDisconnect, TypeOK
  <2>2. CASE InvalidateFail(p)
    BY <2>2, Zenon DEF LocksHeld, InvalidateFail, ThenActivateBestChain, TypeOK
  <2>3. CASE InvalidateEnd(p)
    BY <2>3, Zenon DEF LocksHeld, InvalidateEnd, ThenActivateBestChain, TypeOK
  <2> QED
    BY <1>11, <2>1, <2>2, <2>3, Zenon DEF InvalidateBlock
<1>12. ASSUME NEW p \in Proc, NEW b \in Block, Receive(p, b) PROVE LocksHeld'
  <2>1. /\ pc[p] = "idle"
        /\ pc' = [pc EXCEPT ![p] = "abc"] \/ pc' = pc
        /\ UNCHANGED <<lockVars, mostWork, tip, target>>
    BY <1>12, Zenon DEF Receive, ProcessNewBlockHeaders, RejectFailedBranch, AcceptWithoutStoring,
                 AcceptBadBody, AcceptBlock, ThenActivateBestChain
  <2> QED
    BY <2>1, LocksIdle, Zenon
<1>13. ASSUME NEW p \in Proc, NEW b \in Block, Operate(p, b) PROVE LocksHeld'
  <2>1. CASE InvalidateBegin(p, b)
    <3>1. b \notin {None, Genesis}
      BY <2>1, TreeAssumption, Zenon DEF InvalidateBegin
    <3> QED
      BY <2>1, <3>1, Zenon DEF LocksHeld, InvalidateBegin, TypeOK
  <2>2. ASSUME ReconsiderBlock(p, b) \/ ParkBlock(p, b) \/ UnparkBlock(p, b)
               \/ PreciousBlock(p, b)
        PROVE  LocksHeld'
    <3>1. /\ pc[p] = "idle"
          /\ pc' = [pc EXCEPT ![p] = "abc"] \/ pc' = pc
          /\ UNCHANGED <<lockVars, mostWork, tip, target>>
      BY <2>2, Zenon DEF ReconsiderBlock, ParkBlock, UnparkBlock, PreciousBlock, Call,
                  ThenActivateBestChain
    <3> QED
      BY <3>1, LocksIdle, Zenon
  <2> QED
    BY <1>13, <2>1, <2>2, Zenon DEF Operate
<1>14. ASSUME NEW S \in SUBSET Prunable, PruneBlockFiles(S) PROVE LocksHeld'
  BY <1>14, Zenon DEF LocksHeld, PruneBlockFiles
<1>15. CASE UNCHANGED vars
  BY <1>15, Zenon DEF LocksHeld, vars
<1>16. ASSUME NEW p \in Proc, ActivateBestChain(p) PROVE LocksHeld'
  BY <1>1, <1>2, <1>3, <1>4, <1>5, <1>6, <1>7, <1>8, <1>9, <1>10, <1>16, Zenon
  DEF ActivateBestChain
<1> QED
  BY <1>11, <1>12, <1>13, <1>14, <1>15, <1>16, Zenon DEF Next

\* TryAddBlockIndexCandidate marks no block of a path that holds no parked
\* block: it only copies the mark from an ancestor.
LEMMA KidsOffPath ==
  ASSUME NEW m \in Block, NEW S \in SUBSET Block, NEW t, NEW mask,
         Path[m] \cap mask = {}
  PROVE  Path[m] \cap ParkedByAncestor(S, t, mask) = {}
<1>1. ASSUME NEW x \in Path[m], Walk(x, t) \cap mask # {} PROVE FALSE
  <2>1. Path[x] \subseteq Path[m]
    BY TreeAssumption, Zenon
  <2>2. Walk(x, t) \subseteq Path[x]
    BY Zenon DEF Walk
  <2> QED
    BY <1>1, <2>1, <2>2, Zenon
<1> QED
  BY <1>1, Zenon DEF ParkedByAncestor

\* The root that AcceptBlock parks is neither in the active chain nor on the
\* way from the tip to any block: if it were, the new block would descend
\* from the tip and nothing would be rewound.
LEMMA ParkRootOff ==
  ASSUME TypeOK, NEW b \in Block, NEW m \in Block, tip \in Path[m]
  PROVE  Path[m] \cap ParkRoot(b) = {}
<1> DEFINE f == FindFork(tip, b)
           n == GetAncestor(b, Height[f] + 1)
<1> SUFFICES ASSUME b \notin Path[tip], Rewind(tip, b) > ParkDepth, n \in Path[m]
             PROVE  FALSE
  BY Zenon DEF ParkRoot
<1>1. f \in Path[tip] /\ f \in Path[b] /\ tip \in Block
  BY FindForkIsHighest, Zenon DEF TypeOK
<1>2. f \in Block /\ Height[f] \in Nat /\ Height[tip] \in Nat
  BY <1>1, TreeAssumption, NumberAssumption, Zenon
<1>3. n \in Path[b] /\ n \in Block /\ Height[n] = Height[f] + 1
  BY <1>1, Successor, Zenon
<1>4. n \notin Path[tip]
  <2> SUFFICES ASSUME n \in Path[tip] PROVE FALSE
    BY Zenon
  <2>1. n \in Path[f]
    BY <1>1, <1>3, FindForkIsHighest, Zenon
  <2>2. f \in Path[f]
    BY <1>2, TreeAssumption, Zenon
  <2>3. Height[n] <= Height[f]
    BY <1>2, <2>1, <2>2, PathOrder
  <2> QED
    BY <1>2, <1>3, <2>3
<1>5. tip \in Path[n]
  BY <1>4, TreeAssumption
<1>6. tip \in Path[b]
  BY <1>3, <1>5, TreeAssumption
<1>7. tip \in Path[f] /\ tip \in Path[tip] /\ f \in Path[f]
  BY <1>1, <1>2, <1>6, FindForkIsHighest, TreeAssumption, Zenon
<1>8. Height[tip] <= Height[f]
  BY <1>2, <1>7, PathOrder, Zenon
<1>9. Rewind(tip, b) = Height[tip] - Height[f]
  BY Zenon DEF Rewind
<1>10. ParkDepth \in Nat
  BY ConfigAssumption, Zenon
<1> HIDE DEF f, n
<1> QED
  BY <1>2, <1>8, <1>9, <1>10

\* What the handlers that hold cs_main for one action may add to the parked
\* blocks harms neither the active chain nor the cached target.
LEMMA ParkedGrows ==
  ASSUME ParkingInv, csMain = None,
         UNCHANGED <<tip, mostWork>>,
         \A p \in Proc : pc'[p] # pc[p] => pc'[p] \notin {"loop", "select", "step"},
         \A m \in Block : tip \in Path[m] /\ Path[m] \cap Parked = {}
                          => Path[m] \cap Parked' = {}
  PROVE  ActiveChainNotParked' /\ CachedTargetNotParked'
<1>1. tip \in Block /\ tip \in Path[tip] /\ mostWork \in Block \cup {None}
  BY TreeAssumption, Zenon DEF ParkingInv, TypeOK
<1>2. Path[tip] \cap Parked' = {}
  BY <1>1, Zenon DEF ParkingInv, ActiveChainNotParked
<1>3. ASSUME NEW p \in Proc, pc'[p] \in {"loop", "select", "step"}, mostWork # None
      PROVE  Path[mostWork] \cap Parked' = {}
  <2>1. pc[p] \in {"loop", "select", "step"}
    BY <1>3, Zenon
  <2>2. pc[p] = "loop"
    BY <2>1, ConfigAssumption, Zenon DEF ParkingInv, LocksHeld
  <2>3. tip \in Path[mostWork] /\ Path[mostWork] \cap Parked = {}
    BY <1>3, <2>2, Zenon DEF ParkingInv, LocksHeld, CachedTargetNotParked
  <2> QED
    BY <1>1, <1>3, <2>3, Zenon
<1> QED
  BY <1>2, <1>3, Zenon DEF ActiveChainNotParked, CachedTargetNotParked

LEMMA AcceptParking ==
  ASSUME ParkingInv, NEW p \in Proc, NEW b \in Block, AcceptBlock(p, b)
  PROVE  ActiveChainNotParked' /\ CachedTargetNotParked'
<1> DEFINE root == ParkRoot(b)
           S == Linkable(b)
           kids == ParkedByAncestor(S, tip, Parked \cup root)
<1>1. TypeOK
  BY Zenon DEF ParkingInv
<1>2. parked' = parked \cup root /\ parkedChild' \in {parkedChild, parkedChild \cup kids}
  BY Zenon DEF AcceptBlock, ReceivedBlockTransactions
<1>3. Parked' \subseteq Parked \cup root \cup kids
  BY <1>2, Zenon DEF Parked
<1>4. ASSUME NEW m \in Block, tip \in Path[m], Path[m] \cap Parked = {}
      PROVE  Path[m] \cap Parked' = {}
  <2>1. Path[m] \cap root = {}
    BY <1>1, <1>4, ParkRootOff, Zenon
  <2>2. S \in SUBSET Block
    BY <1>1, LinkableIn, Zenon
  <2> HIDE DEF root, S
  <2>3. Path[m] \cap (Parked \cup root) = {}
    BY <1>4, <2>1, Zenon
  <2>4. Path[m] \cap kids = {}
    BY <2>2, <2>3, KidsOffPath, Zenon
  <2> QED
    BY <1>3, <1>4, <2>1, <2>4, Zenon
<1>5. /\ csMain = None /\ UNCHANGED <<tip, mostWork>>
      /\ \A q \in Proc : pc'[q] # pc[q] => pc'[q] \notin {"loop", "select", "step"}
  BY <1>1, Zenon DEF AcceptBlock, ThenActivateBestChain, TypeOK
<1> QED
  BY <1>4, <1>5, ParkedGrows, Zenon

LEMMA ReconsiderParking ==
  ASSUME ParkingInv, NEW p \in Proc, NEW b \in Block, ReconsiderBlock(p, b)
  PROVE  ActiveChainNotParked' /\ CachedTargetNotParked'
<1> DEFINE cleared == {x \in Failed : b \in Path[x] \/ x \in Path[b]}
           back    == {x \in cleared \cap nTx \cap chainTx : Worse(seqId, tip, x)}
           kids    == ParkedByAncestor(back, tip, Parked)
<1>1. TypeOK
  BY Zenon DEF ParkingInv
<1>2. parked' = parked /\ parkedChild' = parkedChild \cup kids
  BY Zenon DEF ReconsiderBlock
<1>3. back \in SUBSET Block
  BY <1>1, Zenon DEF TypeOK
<1>4. ASSUME NEW m \in Block, tip \in Path[m], Path[m] \cap Parked = {}
      PROVE  Path[m] \cap Parked' = {}
  <2> HIDE DEF back
  <2>1. Path[m] \cap kids = {}
    BY <1>3, <1>4, KidsOffPath, Zenon
  <2> QED
    BY <1>2, <1>4, <2>1, Zenon DEF Parked
<1>5. /\ csMain = None /\ UNCHANGED <<tip, mostWork>>
      /\ \A q \in Proc : pc'[q] # pc[q] => pc'[q] \notin {"loop", "select", "step"}
  BY <1>1, Zenon DEF ReconsiderBlock, Call, ThenActivateBestChain, TypeOK
<1> QED
  BY <1>4, <1>5, ParkedGrows, Zenon

\* FindMostWorkChain parks only blocks above one that is off the active
\* chain.
LEMMA SkipParking ==
  ASSUME ParkingInv, NEW p \in Proc, FindMostWorkSkip(p)
  PROVE  ActiveChainNotParked' /\ CachedTargetNotParked'
<1> DEFINE bad   == Unusable(BestCandidate)
           test  == CHOOSE x \in bad : bad \subseteq Path[x]
           above == Path[BestCandidate] \ Path[test]
<1>1. TypeOK /\ candidates # {} /\ bad # {}
  BY Zenon DEF ParkingInv, FindMostWorkSkip
<1>2. BestCandidate \in Block /\ tip \in Block
  BY <1>1, BestCandidateIn, Zenon DEF TypeOK
<1>3. test \in Block /\ test \in Path[BestCandidate] /\ test \notin Path[tip]
  BY <1>1, HighestUnusable, Zenon
<1>4. parked' = parked /\ parkedChild' \in {parkedChild, parkedChild \cup above}
  BY Zenon DEF FindMostWorkSkip
<1>5. tip' = tip /\ mostWork' = None
  BY Zenon DEF FindMostWorkSkip
<1> HIDE DEF test
<1>6. ASSUME NEW x \in above, x \in Path[tip] PROVE FALSE
  <2>1. test \in Path[x]
    BY <1>2, <1>3, <1>6, TreeAssumption, Zenon
  <2> QED
    BY <1>2, <1>3, <1>6, <2>1, TreeAssumption, Zenon
<1>7. Path[tip] \cap Parked' = {}
  BY <1>4, <1>6, Zenon DEF ParkingInv, ActiveChainNotParked, Parked
<1> QED
  BY <1>5, <1>7, Zenon DEF ActiveChainNotParked, CachedTargetNotParked

\* FindMostWorkChain returns a block with no parked one between it and the
\* active chain.
LEMMA PickParking ==
  ASSUME ParkingInv, NEW p \in Proc, FindMostWorkPick(p)
  PROVE  ActiveChainNotParked' /\ CachedTargetNotParked'
<1>1. Path[BestCandidate] \cap Parked \subseteq Path[tip]
  BY Zenon DEF FindMostWorkPick, Unusable
<1>2. Path[BestCandidate] \cap Parked = {}
  BY <1>1, Zenon DEF ParkingInv, ActiveChainNotParked
<1>3. mostWork' = BestCandidate /\ UNCHANGED <<tip, parked, parkedChild>>
  BY Zenon DEF FindMostWorkPick
<1> QED
  BY <1>2, <1>3, Zenon
  DEF ParkingInv, ActiveChainNotParked, CachedTargetNotParked, Parked

LEMMA ConnectParking ==
  ASSUME ParkingInv, NEW p \in Proc, ConnectTip(p)
  PROVE  ActiveChainNotParked' /\ CachedTargetNotParked'
<1> DEFINE n == NextToward(tip, mostWork)
<1>1. /\ TypeOK /\ pc[p] = "step"
      /\ mostWork \in Block /\ tip \in Path[mostWork] \ {mostWork}
  BY Zenon DEF ParkingInv, LocksHeld, ConnectTip, TypeOK
<1>2. n \in Block /\ n \in Path[mostWork]
  BY <1>1, NextIsChild, Zenon
<1>3. tip' = n /\ UNCHANGED <<mostWork, parked, parkedChild>>
  BY Zenon DEF ConnectTip
<1>4. Path[mostWork] \cap Parked = {}
  BY <1>1, TreeAssumption, Zenon DEF ParkingInv, CachedTargetNotParked
<1>5. Path[n] \subseteq Path[mostWork]
  BY <1>1, <1>2, TreeAssumption, Zenon
<1> HIDE DEF n
<1> QED
  BY <1>3, <1>4, <1>5, Zenon DEF ActiveChainNotParked, CachedTargetNotParked, Parked

\* Disconnecting a block leaves a shorter chain, and no other thread has a
\* cached target while InvalidateBlock holds m_chainstate_mutex.
LEMMA InvalidateParking ==
  ASSUME ParkingInv, NEW p \in Proc, InvalidateBlock(p)
  PROVE  ActiveChainNotParked' /\ CachedTargetNotParked'
<1>1. TypeOK /\ LocksHeld /\ tip \in Block /\ Path[tip] \cap Parked = {}
  BY Zenon DEF ParkingInv, TypeOK, ActiveChainNotParked
<1>2. pc[p] = "inv" /\ csMain = None
  BY Zenon DEF InvalidateBlock, InvalidateDisconnect, InvalidateFail, InvalidateEnd
<1>3. CachedTargetNotParked'
  <2>1. \A q \in Proc : pc[q] \notin {"loop", "select", "step"}
    BY <1>1, <1>2, Zenon DEF LocksHeld
  <2>2. \A q \in Proc : pc'[q] # pc[q] => pc'[q] = "abc"
    BY <1>1, Zenon DEF InvalidateBlock, InvalidateDisconnect, InvalidateFail, InvalidateEnd,
                ThenActivateBestChain, TypeOK
  <2>3. \A q \in Proc : pc'[q] \notin {"loop", "select", "step"}
    BY <2>1, <2>2, Zenon
  <2> QED
    BY <2>3, Zenon DEF CachedTargetNotParked
<1>4. CASE InvalidateDisconnect(p)
  <2> DEFINE new  == Parent[tip]
             back == {c \in byWork : ~Worse(seqId, c, new)}
             kids == ParkedByAncestor(back, new, Parked)
  <2>1. tip' = new /\ parked' = parked /\ parkedChild' = parkedChild \cup kids
    BY <1>4, Zenon DEF InvalidateDisconnect
  <2>2. target # Genesis /\ target \in Path[tip]
    BY <1>1, <1>2, <1>4, Zenon DEF InvalidateDisconnect, LocksHeld
  <2>3. tip # Genesis
    BY <2>2, TreeAssumption
  <2>4. new \in Block /\ Path[new] \subseteq Path[tip]
    BY <1>1, <2>3, TreeAssumption, Zenon
  <2>5. back \in SUBSET Block
    BY <1>1, Zenon DEF TypeOK
  <2> HIDE DEF new, back
  <2>6. Path[new] \cap kids = {}
    BY <1>1, <2>4, <2>5, KidsOffPath, Zenon
  <2>7. ActiveChainNotParked'
    BY <1>1, <2>1, <2>4, <2>6, Zenon DEF ActiveChainNotParked, Parked
  <2> QED
    BY <1>3, <2>7, Zenon
<1>5. CASE InvalidateFail(p)
  BY <1>1, <1>3, <1>5, Zenon DEF InvalidateFail, ActiveChainNotParked, Parked
<1>6. CASE InvalidateEnd(p)
  <2> DEFINE new  == IF wasInChain THEN {} ELSE {target} \ Failed
             late == LateCandidates(Failed \cup new)
             kids == ParkedByAncestor(late, tip, Parked)
  <2>1. tip' = tip /\ parked' = parked /\ parkedChild' = parkedChild \cup kids
    BY <1>6, Zenon DEF InvalidateEnd
  <2>2. late \in SUBSET Block
    BY <1>1, Zenon DEF LateCandidates, Connectable, TypeOK
  <2> HIDE DEF late
  <2>3. Path[tip] \cap kids = {}
    BY <1>1, <2>2, KidsOffPath, Zenon
  <2>4. ActiveChainNotParked'
    BY <1>1, <2>1, <2>3, Zenon DEF ActiveChainNotParked, Parked
  <2> QED
    BY <1>3, <2>4, Zenon
<1> QED
  BY <1>4, <1>5, <1>6, Zenon DEF InvalidateBlock

\* Steps that park nothing and keep the tip and the target.
LEMMA NothingParked ==
  ASSUME ParkingInv, Parked' \subseteq Parked, tip' = tip,
         mostWork' \in {mostWork, None},
         \A p \in Proc : pc'[p] \in {"loop", "select", "step"} /\ mostWork' # None
                         => pc[p] \in {"loop", "select", "step"}
  PROVE  ActiveChainNotParked' /\ CachedTargetNotParked'
  BY Zenon DEF ParkingInv, ActiveChainNotParked, CachedTargetNotParked

LEMMA NextParking ==
  ASSUME ParkingInv, [Next]_vars
  PROVE  ActiveChainNotParked' /\ CachedTargetNotParked'
<1> DEFINE Goal == ActiveChainNotParked' /\ CachedTargetNotParked'
<1>1. TypeOK /\ LocksHeld
  BY Zenon DEF ParkingInv
<1>2. ASSUME NEW p \in Proc, ABCEnter(p) \/ ABCLock(p) \/ ABCStep(p) \/ FatalError(p)
      PROVE  Goal
  <2>1. /\ Parked' = Parked /\ tip' = tip /\ mostWork' \in {mostWork, None}
        /\ \A q \in Proc : pc'[q] \in {"loop", "select", "step"} /\ mostWork' # None
                           => pc[q] \in {"loop", "select", "step"}
    BY <1>1, <1>2, Zenon DEF ABCEnter, ABCLock, ABCStep, FatalError, Parked, TypeOK
  <2> QED
    BY <2>1, NothingParked, Zenon
<1>3. ASSUME NEW p \in Proc, ABCBreak(p) PROVE Goal
  <2>1. /\ Parked' = Parked /\ tip' = tip /\ mostWork' = mostWork
        /\ \A q \in Proc : pc'[q] \in {"loop", "select", "step"}
                           => pc[q] \in {"loop", "select", "step"}
    BY <1>1, <1>3, Zenon DEF ABCBreak, Release, Parked, TypeOK
  <2> QED
    BY <2>1, NothingParked, Zenon
<1>4. ASSUME NEW p \in Proc, DisconnectTip(p) PROVE Goal
  <2>1. /\ UNCHANGED <<parked, parkedChild, mostWork, pc>> /\ tip' = Parent[tip]
        /\ pc[p] = "step" /\ tip \notin Path[mostWork]
    BY <1>4, Zenon DEF DisconnectTip
  <2>2. mostWork \in Block /\ tip \in Block
    BY <1>1, <2>1, Zenon DEF LocksHeld, TypeOK
  <2>3. tip # Genesis
    BY <2>1, <2>2, TreeAssumption, Zenon
  <2>4. Path[Parent[tip]] \subseteq Path[tip]
    BY <2>2, <2>3, TreeAssumption, Zenon
  <2> QED
    BY <2>1, <2>4, Zenon DEF ParkingInv, ActiveChainNotParked, CachedTargetNotParked, Parked
<1>5. ASSUME NEW p \in Proc, ConnectInvalid(p) PROVE Goal
  <2>1. Parked' = Parked /\ tip' = tip /\ mostWork' = None
    BY <1>5, Zenon DEF ConnectInvalid, Parked
  <2> QED
    BY <2>1, NothingParked, Zenon
<1>6. ASSUME NEW p \in Proc, ActivateBestChain(p) PROVE Goal
  BY <1>2, <1>3, <1>4, <1>5, <1>6, SkipParking, PickParking, ConnectParking, Zenon
  DEF ActivateBestChain
<1>7. ASSUME NEW p \in Proc, NEW b \in Block, Receive(p, b) PROVE Goal
  <2>1. ASSUME ProcessNewBlockHeaders(p, b) \/ RejectFailedBranch(p, b)
               \/ AcceptWithoutStoring(p, b) \/ AcceptBadBody(p, b)
        PROVE  Goal
    <3>1. /\ Parked' = Parked /\ tip' = tip /\ mostWork' = mostWork
          /\ \A q \in Proc : pc'[q] \in {"loop", "select", "step"}
                             => pc[q] \in {"loop", "select", "step"}
      BY <1>1, <2>1, Zenon DEF ProcessNewBlockHeaders, RejectFailedBranch, AcceptWithoutStoring,
                        AcceptBadBody, ThenActivateBestChain, Parked, TypeOK
    <3> QED
      BY <3>1, NothingParked, Zenon
  <2> QED
    BY <1>7, <2>1, AcceptParking, Zenon DEF Receive
<1>8. ASSUME NEW p \in Proc, NEW b \in Block, ParkBlock(p, b) PROVE Goal
  <2>1. /\ parked' = parked \cup {b} /\ b \notin Path[tip] /\ chainMutex = None
        /\ UNCHANGED <<parkedChild, tip, mostWork, pc>>
    BY <1>8, Zenon DEF ParkBlock
  <2>2. \A q \in Proc : pc[q] \notin {"loop", "select", "step"}
    BY <1>1, <2>1, ConfigAssumption, Zenon DEF LocksHeld
  <2> QED
    BY <2>1, <2>2, Zenon DEF ParkingInv, ActiveChainNotParked, CachedTargetNotParked, Parked
<1>9. ASSUME NEW p \in Proc, NEW b \in Block,
             InvalidateBegin(p, b) \/ UnparkBlock(p, b) \/ PreciousBlock(p, b)
      PROVE  Goal
  <2>1. /\ Parked' \subseteq Parked /\ tip' = tip /\ mostWork' = mostWork
        /\ \A q \in Proc : pc'[q] \in {"loop", "select", "step"}
                           => pc[q] \in {"loop", "select", "step"}
    BY <1>1, <1>9, Zenon DEF InvalidateBegin, UnparkBlock, PreciousBlock, ThenActivateBestChain,
                      Parked, TypeOK
  <2> QED
    BY <2>1, NothingParked, Zenon
<1>10. ASSUME NEW p \in Proc, NEW b \in Block, Operate(p, b) PROVE Goal
  BY <1>8, <1>9, <1>10, ReconsiderParking, Zenon DEF Operate
<1>11. ASSUME NEW S \in SUBSET Prunable, PruneBlockFiles(S) \/ UNCHANGED vars PROVE Goal
  BY <1>11, Zenon DEF PruneBlockFiles, vars, ParkingInv, ActiveChainNotParked,
               CachedTargetNotParked, Parked
<1>12. CASE UNCHANGED vars
  BY <1>11, <1>12, Zenon
<1> QED
  BY <1>6, <1>7, <1>10, <1>11, <1>12, InvalidateParking, Zenon DEF Next

-----------------------------------------------------------------------------
\* ParkingInv is inductive.
LEMMA InitParking == Init => ParkingInv
<1> SUFFICES ASSUME Init PROVE ParkingInv
  BY Zenon
<1>1. TypeOK
  BY InitType, Zenon
<1>2. LocksHeld
  BY ConfigAssumption, Zenon DEF Init, LocksHeld
<1>3. ActiveChainNotParked /\ CachedTargetNotParked
  BY Zenon DEF Init, ActiveChainNotParked, CachedTargetNotParked, Parked
<1> QED
  BY <1>1, <1>2, <1>3, Zenon DEF ParkingInv

LEMMA ParkingInvariant == Spec => []ParkingInv
<1>1. ParkingInv /\ [Next]_vars => ParkingInv'
  <2> SUFFICES ASSUME ParkingInv, [Next]_vars PROVE ParkingInv'
    BY Zenon
  <2>1. TypeOK /\ LocksHeld
    BY Zenon DEF ParkingInv
  <2>2. TypeOK' /\ LocksHeld' /\ ActiveChainNotParked' /\ CachedTargetNotParked'
    BY <2>1, NextType, NextLocks, NextParking, Zenon
  <2> QED
    BY <2>2, Zenon DEF ParkingInv
<1> QED
  BY <1>1, InitParking, PTL DEF Spec

\* Every variable keeps its type for every tree, set of threads and number
\* of operator calls; in particular FindMostWorkChain, FindFork and
\* GetAncestor always return a block.
THEOREM TypeCorrect == Spec => []TypeOK
<1>1. ParkingInv => TypeOK
  BY Zenon DEF ParkingInv
<1> QED
  BY <1>1, ParkingInvariant, PTL

\* No block of the active chain is ever parked, by AcceptBlock, by parkblock
\* or by the marks that FindMostWorkChain and TryAddBlockIndexCandidate leave.
THEOREM ActiveChainNeverParked == Spec => []ActiveChainNotParked
<1>1. ParkingInv => ActiveChainNotParked
  BY Zenon DEF ParkingInv
<1> QED
  BY <1>1, ParkingInvariant, PTL

\* The pindexMostWork that ActivateBestChain keeps from one iteration to the
\* next never leads through a parked block.
THEOREM CachedTargetNeverParked == Spec => []CachedTargetNotParked
<1>1. ParkingInv => CachedTargetNotParked
  BY Zenon DEF ParkingInv
<1> QED
  BY <1>1, ParkingInvariant, PTL

-----------------------------------------------------------------------------
(* Validation of the active chain *)

LEMMA NextValidated ==
  ASSUME ParkingInv, ActiveChainValidated, [Next]_vars
  PROVE  ActiveChainValidated'
<1>1. TypeOK /\ LocksHeld /\ tip \in Block
  BY Zenon DEF ParkingInv, TypeOK
<1>2. ASSUME NEW p \in Proc, ConnectTip(p) PROVE ActiveChainValidated'
  <2> DEFINE n == NextToward(tip, mostWork)
  <2>1. mostWork \in Block /\ tip \in Path[mostWork] \ {mostWork}
    BY <1>1, <1>2, Zenon DEF LocksHeld, ConnectTip, TypeOK
  <2>2. Path[n] = Path[tip] \cup {n}
    BY <1>1, <2>1, NextIsChild, Zenon
  <2>3. tip' = n /\ scripts' = scripts \cup {n}
    BY <1>2, Zenon DEF ConnectTip
  <2> HIDE DEF n
  <2> QED
    BY <2>2, <2>3, Zenon DEF ActiveChainValidated
<1>3. ASSUME scripts' = scripts, tip' \in Block, Path[tip'] \subseteq Path[tip]
      PROVE  ActiveChainValidated'
  BY <1>3, Zenon DEF ActiveChainValidated
<1>4. tip # Genesis => Parent[tip] \in Block /\ Path[Parent[tip]] \subseteq Path[tip]
  BY <1>1, TreeAssumption, Zenon
<1>5. ASSUME NEW p \in Proc, DisconnectTip(p) PROVE ActiveChainValidated'
  <2>1. /\ scripts' = scripts /\ tip' = Parent[tip]
        /\ pc[p] = "step" /\ tip \notin Path[mostWork]
    BY <1>5, Zenon DEF DisconnectTip
  <2>2. mostWork \in Block
    BY <1>1, <2>1, Zenon DEF LocksHeld, TypeOK
  <2>3. tip # Genesis
    BY <2>1, <2>2, TreeAssumption, Zenon
  <2> QED
    BY <1>3, <1>4, <2>1, <2>3, Zenon
<1>6. ASSUME NEW p \in Proc, InvalidateDisconnect(p) PROVE ActiveChainValidated'
  <2>1. /\ scripts' = scripts /\ tip' = Parent[tip]
        /\ pc[p] = "inv" /\ target \in Path[tip]
    BY <1>6, Zenon DEF InvalidateDisconnect
  <2>2. tip # Genesis
    BY <1>1, <2>1, TreeAssumption DEF LocksHeld
  <2> QED
    BY <1>3, <1>4, <2>1, <2>2, Zenon
<1>7. ASSUME UNCHANGED <<scripts, tip>> PROVE ActiveChainValidated'
  BY <1>7, Zenon DEF ActiveChainValidated
<1>8. ASSUME NEW p \in Proc, ActivateBestChain(p) PROVE ActiveChainValidated'
  BY <1>2, <1>5, <1>7, <1>8, Zenon
  DEF ActivateBestChain, ABCEnter, ABCLock, FindMostWorkSkip, FindMostWorkPick, ABCBreak,
      ABCStep, FatalError, ConnectInvalid
<1>9. ASSUME NEW p \in Proc, InvalidateBlock(p) PROVE ActiveChainValidated'
  BY <1>6, <1>7, <1>9, Zenon DEF InvalidateBlock, InvalidateFail, InvalidateEnd
<1>10. ASSUME NEW p \in Proc, NEW b \in Block, Receive(p, b) PROVE ActiveChainValidated'
  BY <1>7, <1>10, Zenon
  DEF Receive, ProcessNewBlockHeaders, RejectFailedBranch, AcceptWithoutStoring,
      AcceptBadBody, AcceptBlock
<1>11. ASSUME NEW p \in Proc, NEW b \in Block, Operate(p, b) PROVE ActiveChainValidated'
  BY <1>7, <1>11, Zenon
  DEF Operate, InvalidateBegin, ReconsiderBlock, ParkBlock, UnparkBlock, PreciousBlock
<1>12. ASSUME NEW S \in SUBSET Prunable, PruneBlockFiles(S) PROVE ActiveChainValidated'
  BY <1>7, <1>12, Zenon DEF PruneBlockFiles
<1>13. CASE UNCHANGED vars
  BY <1>7, <1>13, Zenon DEF vars
<1> QED
  BY <1>8, <1>9, <1>10, <1>11, <1>12, <1>13, Zenon DEF Next

\* The active chain consists of blocks that ConnectBlock has accepted, each
\* of them after its predecessor.
THEOREM ActiveChainAlwaysValidated == Spec => []ActiveChainValidated
<1>1. Init => ActiveChainValidated
  BY TreeAssumption, ConfigAssumption, Zenon DEF Init, ActiveChainValidated
<1>2. ParkingInv /\ ActiveChainValidated /\ [Next]_vars => ActiveChainValidated'
  BY NextValidated, Zenon
<1> QED
  BY <1>1, <1>2, ParkingInvariant, PTL DEF Spec

=============================================================================
