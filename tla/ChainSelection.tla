--------------------------- MODULE ChainSelection ---------------------------
(***************************************************************************)
(* Chain selection with deep-reorganisation parking, as implemented by     *)
(* Chainstate and ChainstateManager in src/src/validation.cpp for one      *)
(* (non-snapshot) chainstate of a non-Signet network.                      *)
(*                                                                         *)
(* A process is a thread of the node that handles one P2P message or one   *)
(* RPC at a time.  cs_main (csMain) protects the block index; every        *)
(* handler that takes it once is one action.  ActivateBestChain and        *)
(* InvalidateBlock take it once per iteration and give it up in between,   *)
(* holding only m_chainstate_mutex (chainMutex): their iterations are      *)
(* separate actions, and the work that ActivateBestChain does inside one   *)
(* hold of cs_main is a sequence of actions during which csMain is set.    *)
(*                                                                         *)
(* The bits of CBlockIndex::nStatus are sets of blocks.  Left out as       *)
(* reporting only: m_best_invalid and the fork warnings, notifications,    *)
(* IBD status.  The mempool is another component.                          *)
(***************************************************************************)
EXTENDS BlockTree, FiniteSets

CONSTANTS
  Proc,              \* threads
  InitTip,           \* tip of the chain the node has loaded at the start
  ParkEnabled,       \* -parkdeepreorg
  ParkDepth,         \* -parkreorgdepth
  KeepBlocks,        \* MIN_BLOCKS_TO_KEEP
  MinimumChainWork,  \* nMinimumChainWork
  InvalidBlock,      \* blocks that ConnectBlock rejects
  BadBody,           \* blocks that pass CheckBlock, not ContextualCheckBlock
  Rpc,               \* operator calls that may happen in this instance
  MaxRpc             \* bound on the number of operator calls and prunings

ASSUME ConfigAssumption ==
  /\ IsFiniteSet(Block)
  /\ None \notin Proc
  /\ InitTip \in Block
  /\ ParkEnabled \in BOOLEAN
  /\ ParkDepth \in Nat \ {0}
  /\ KeepBlocks \in Nat \ {0}
  /\ MinimumChainWork \in Nat
  /\ InvalidBlock \subseteq Block
  /\ BadBody \subseteq Block
  /\ Path[InitTip] \cap (InvalidBlock \cup BadBody) = {}
  /\ MaxRpc \in Nat

VARIABLES
  known,         \* m_block_index
  nTx,           \* blocks with nTx > 0, i.e. at least VALID_TRANSACTIONS
  scripts,       \* blocks raised to VALID_SCRIPTS
  haveData,      \* BLOCK_HAVE_DATA
  haveUndo,      \* BLOCK_HAVE_UNDO
  chainTx,       \* HaveNumChainTxs(): m_chain_tx_count is set
  unlinked,      \* second components of m_blocks_unlinked
  failedValid,   \* BLOCK_FAILED_VALID
  failedChild,   \* BLOCK_FAILED_CHILD
  failedBlocks,  \* m_failed_blocks
  parked,        \* BLOCK_PARKED
  parkedChild,   \* BLOCK_PARKED_CHILD
  bestHeader,    \* m_best_header
  seqId,         \* nSequenceId
  nextSeq,       \* nBlockSequenceId
  reverseSeq,    \* nBlockReverseSequenceId
  lastPrecious,  \* nLastPreciousChainwork
  tip,           \* m_chain.Tip()
  candidates,    \* setBlockIndexCandidates
  pc,            \* where each thread is
  chainMutex,    \* holder of m_chainstate_mutex
  csMain,        \* holder of cs_main across actions
  mostWork,      \* ActivateBestChain: pindexMostWork
  startTip,      \* ActivateBestChain: starting_tip
  oldTip,        \* ActivateBestChainStep: pindexOldTip
  connected,     \* ActivateBestChain: blocks_connected
  target,        \* InvalidateBlock: pindex
  toMark,        \* InvalidateBlock: to_mark_failed
  wasInChain,    \* InvalidateBlock: pindex_was_in_chain
  byWork,        \* InvalidateBlock: candidate_blocks_by_work
  rpcLeft        \* operator calls and prunings to come (a bound of the model)

dataVars   == <<nTx, scripts, haveData, haveUndo, chainTx, unlinked>>
failVars   == <<failedValid, failedChild, failedBlocks>>
parkVars   == <<parked, parkedChild>>
seqVars    == <<seqId, nextSeq, reverseSeq, lastPrecious>>
lockVars   == <<chainMutex, csMain>>
abcVars    == <<mostWork, startTip, oldTip, connected>>
invVars    == <<target, toMark, wasInChain, byWork>>
vars == <<known, dataVars, failVars, parkVars, bestHeader, seqVars, tip,
          candidates, pc, lockVars, abcVars, invVars, rpcLeft>>

Failed == failedValid \cup failedChild
Parked == parked \cup parkedChild

-----------------------------------------------------------------------------
(* Helpers of the handlers *)

\* The ancestors that TryAddBlockIndexCandidate(b) looks at: up to and
\* including the first one in the active chain ending in t.
Walk(b, t) ==
  {a \in Path[b] \ {b} : a \notin Path[t] \/ a = FindFork(t, Parent[b])}

\* Faulty variant of ParkedByAncestor: no ancestor is looked at.
ParkedByAncestorNone(S, t, mask) == {}

\* BLOCK_PARKED_CHILD marks that TryAddBlockIndexCandidate leaves on the
\* blocks of S when mask is parked already.  A block of S that is marked
\* makes no difference to another one: both see the same parked ancestor.
ParkedByAncestor(S, t, mask) == {b \in S : Walk(b, t) \cap mask # {}}

\* setBlockIndexCandidates after TryAddBlockIndexCandidate on all of S.
TryAdd(S, cand, t, seq, mask) ==
  (cand \ (S \cap mask)) \cup {b \in S \ mask : ~Worse(seq, b, t)}

\* Faulty variant of PruneCandidates: nothing is pruned.
PruneCandidatesNever(cand, t, seq) == cand

\* PruneBlockIndexCandidates.
PruneCandidates(cand, t, seq) == {c \in cand : ~Worse(seq, c, t)}

\* Faulty variant of RecalculateBestHeader: the walk over the index is left out.
RecalculateBestHeaderTip(t, ok) == {t}

\* RecalculateBestHeader: the outcomes it may have when ok are the entries
\* that are not failed (the walk over the index is in hash order).
RecalculateBestHeader(t, ok) ==
  LET best == {h \in ok \cup {t} : \A x \in ok \cup {t} : Work[x] <= Work[h]}
  IN  IF t \in best THEN {t} ELSE best

\* Faulty variant of FailureFlagged: ancestors are marked as well.
FailureFlaggedBelow(b) == {x \in known : b \in Path[x] \/ x \in Path[b]} \ {b}


\* The blocks that SetBlockFailureFlags(b) marks as children of b.
FailureFlagged(b) == Descendants(b, known) \ {b}

\* Faulty variant of AddUnlinkedBlock: nothing is added.
AddUnlinkedBlockNot(S) == unlinked

\* AddUnlinkedBlock on all of S, which keeps m_blocks_unlinked free of
\* duplicates.
AddUnlinkedBlock(S) == unlinked \cup S

\* Faulty variant of Linkable: the queue ignores m_blocks_unlinked.
LinkableAlone(b) == {b}

\* ReceivedBlockTransactions(b): the blocks its queue reaches.
Linkable(b) ==
  {b} \cup {x \in unlinked : b \in Path[x] /\ Path[x] \ Path[b] \subseteq unlinked}

\* Faulty variant of ThenActivateBestChain: the call is left out.
ActivateBestChainNot(p) == UNCHANGED pc

\* ActivateBestChain is called next.
ThenActivateBestChain(p) == pc' = [pc EXCEPT ![p] = "abc"]

\* Sequence ids that the queue may hand out to S, counting up from first:
\* it is breadth first, so lower blocks come first; the order of siblings is
\* the insertion order of m_blocks_unlinked, which is not modelled.
SequenceOrders(S, first) ==
  {s \in [S -> first .. first + Cardinality(S) - 1] :
     \A x, y \in S : /\ x # y => s[x] # s[y]
                     /\ Height[x] < Height[y] => s[x] < s[y]}

-----------------------------------------------------------------------------
(* Initial state: LoadBlockIndex and LoadChainTip found the chain that ends *)
(* in InitTip and nothing else.                                             *)
Init ==
  /\ known = Path[InitTip]
  /\ nTx = Path[InitTip]
  /\ scripts = Path[InitTip]
  /\ haveData = Path[InitTip]
  /\ haveUndo = Path[InitTip] \ {Genesis}
  /\ chainTx = Path[InitTip]
  /\ unlinked = {}
  /\ failedValid = {} /\ failedChild = {} /\ failedBlocks = {}
  /\ parked = {} /\ parkedChild = {}
  /\ bestHeader = InitTip
  /\ seqId = [b \in Block |-> IF b \in Path[InitTip] THEN 0 ELSE 1]
  /\ nextSeq = 2 /\ reverseSeq = -1 /\ lastPrecious = 0
  /\ tip = InitTip
  /\ candidates = {InitTip}
  /\ pc = [p \in Proc |-> "idle"]
  /\ chainMutex = None /\ csMain = None
  /\ mostWork = None /\ startTip = None /\ oldTip = None /\ connected = FALSE
  /\ target = None /\ toMark = None /\ wasInChain = FALSE /\ byWork = {}
  /\ rpcLeft = MaxRpc

-----------------------------------------------------------------------------
(* Headers and blocks from the network: ProcessNewBlockHeaders and          *)
(* ProcessNewBlock.                                                         *)

\* The loop over m_failed_blocks in AcceptBlockHeader finds these.
FailedAncestors(prev) ==
  IF prev \in scripts THEN {} ELSE failedBlocks \cap Path[prev]

\* AcceptBlockHeader returns true.
HeaderAccepted(b) ==
  \/ b \in known \ Failed
  \/ /\ b \notin known
     /\ Parent[b] \in known
     /\ Parent[b] \notin Failed
     /\ FailedAncestors(Parent[b]) = {}

\* Faulty variant of AddToBlockIndex: m_best_header is lost.
AddToBlockIndexNull(b) ==
  /\ known' = known \cup {b}
  /\ bestHeader' = IF Work[b] > Work[bestHeader] THEN b ELSE None

\* AddToBlockIndex, which does nothing for an entry that exists.
AddToBlockIndex(b) ==
  /\ known' = known \cup {b}
  /\ bestHeader' = IF b \notin known /\ Work[b] > Work[bestHeader] THEN b
                                                                ELSE bestHeader

\* A new header is added to the block index.
ProcessNewBlockHeaders(p, b) ==
  /\ csMain = None /\ pc[p] = "idle"
  /\ b \notin known /\ HeaderAccepted(b)
  /\ AddToBlockIndex(b)
  /\ UNCHANGED <<dataVars, failVars, parkVars, seqVars, tip, candidates, pc,
                 lockVars, abcVars, invVars, rpcLeft>>

\* A header whose predecessor descends from a block of m_failed_blocks is
\* refused, and the blocks between them are marked.
RejectFailedBranch(p, b) ==
  /\ csMain = None /\ pc[p] = "idle"
  /\ b \notin known /\ Parent[b] \in known /\ Parent[b] \notin Failed
  /\ \E f \in FailedAncestors(Parent[b]) :
       failedChild' = failedChild \cup (Path[Parent[b]] \ Path[f])
  /\ UNCHANGED <<known, dataVars, failedValid, failedBlocks, parkVars,
                 bestHeader, seqVars, tip, candidates, pc, lockVars, abcVars,
                 invVars, rpcLeft>>

\* AcceptBlock drops a block that it did not ask for.
Unwanted(b) ==
  \/ b \in nTx
  \/ Work[b] < Work[tip]
  \/ Height[b] > Height[tip] + KeepBlocks
  \/ Work[b] < MinimumChainWork

\* AcceptBlock succeeds without storing the block: only the header counts.
AcceptWithoutStoring(p, b) ==
  /\ csMain = None /\ pc[p] = "idle"
  /\ HeaderAccepted(b)
  /\ b \in haveData \/ Unwanted(b)
  /\ AddToBlockIndex(b)
  /\ ThenActivateBestChain(p)
  /\ UNCHANGED <<dataVars, failVars, parkVars, seqVars, tip, candidates,
                 lockVars, abcVars, invVars, rpcLeft>>

\* ContextualCheckBlock in AcceptBlock finds the body invalid.  A block that
\* fails CheckBlock never gets here: ProcessNewBlock drops it unmarked.
AcceptBadBody(p, b) ==
  /\ csMain = None /\ pc[p] = "idle"
  /\ HeaderAccepted(b)
  /\ b \in BadBody \ haveData
  /\ AddToBlockIndex(b)
  /\ failedValid' = failedValid \cup {b}
  /\ UNCHANGED <<dataVars, failedChild, failedBlocks, parkVars, seqVars, tip,
                 candidates, pc, lockVars, abcVars, invVars, rpcLeft>>

\* Faulty variant of ParkRoot: off by one.
ParkRootLate(b) ==
  IF ParkEnabled /\ b \notin Path[tip] /\ Rewind(tip, b) > ParkDepth + 1
  THEN {GetAncestor(b, Height[FindFork(tip, b)] + 1)} \ Parked
  ELSE {}

\* Faulty variant of ParkRoot: the fork point instead of its successor.
ParkRootFork(b) ==
  IF ParkEnabled /\ b \notin Path[tip] /\ Rewind(tip, b) > ParkDepth
  THEN {FindFork(tip, b)} \ Parked
  ELSE {}

\* The parking decision of AcceptBlock: the first block of the competing
\* branch, when switching to b would rewind too much.
ParkRoot(b) ==
  IF /\ ParkEnabled
     /\ b \notin Path[tip]
     /\ Rewind(tip, b) > ParkDepth
  THEN {GetAncestor(b, Height[FindFork(tip, b)] + 1)} \ Parked
  ELSE {}

\* ReceivedBlockTransactions, after root has been parked.  A block that is
\* downloaded again gets a new nSequenceId, also while it is a candidate.  The
\* std::set then holds a key that changed in place; candidates is a plain set,
\* read in the order of the present ids.
ReceivedBlockTransactions(b, root) ==
  /\ nTx' = nTx \cup {b}
  /\ haveData' = haveData \cup {b}
  /\ parked' = parked \cup root
  /\ IF b = Genesis \/ Parent[b] \in chainTx
     THEN LET S    == Linkable(b)
              mask == Parked \cup root
              kids == ParkedByAncestor(S, tip, mask)
          IN  \E order \in SequenceOrders(S, nextSeq) :
                /\ seqId' = [x \in Block |-> IF x \in S THEN order[x] ELSE seqId[x]]
                /\ nextSeq' = nextSeq + Cardinality(S)
                /\ chainTx' = chainTx \cup S
                /\ unlinked' = unlinked \ S
                /\ parkedChild' = parkedChild \cup kids
                /\ candidates' = TryAdd(S, candidates \ root, tip, seqId', mask \cup kids)
     ELSE /\ unlinked' = IF Parent[b] \in Failed THEN unlinked
                                                ELSE AddUnlinkedBlock({b})
          /\ candidates' = candidates \ root
          /\ UNCHANGED <<chainTx, seqId, nextSeq, parkedChild>>

\* AcceptBlock stores the block; ActivateBestChain follows.
AcceptBlock(p, b) ==
  /\ csMain = None /\ pc[p] = "idle"
  /\ HeaderAccepted(b)
  /\ b \notin haveData \cup BadBody
  /\ AddToBlockIndex(b)
  /\ ReceivedBlockTransactions(b, ParkRoot(b))
  /\ ThenActivateBestChain(p)
  /\ UNCHANGED <<scripts, haveUndo, failVars, reverseSeq, lastPrecious, tip,
                 lockVars, abcVars, invVars, rpcLeft>>

-----------------------------------------------------------------------------
(* ActivateBestChain *)

\* LOCK(m_chainstate_mutex).
ABCEnter(p) ==
  /\ pc[p] = "abc" /\ chainMutex = None
  /\ chainMutex' = p
  /\ pc' = [pc EXCEPT ![p] = "loop"]
  /\ mostWork' = None
  /\ UNCHANGED <<known, dataVars, failVars, parkVars, bestHeader, seqVars, tip,
                 candidates, csMain, startTip, oldTip, connected, invVars,
                 rpcLeft>>

\* LOCK(cs_main) at the top of the outer loop.
ABCLock(p) ==
  /\ pc[p] = "loop" /\ csMain = None
  /\ csMain' = p
  /\ pc' = [pc EXCEPT ![p] = "select"]
  /\ startTip' = tip
  /\ connected' = FALSE
  /\ UNCHANGED <<known, dataVars, failVars, parkVars, bestHeader, seqVars, tip,
                 candidates, chainMutex, mostWork, oldTip, invVars, rpcLeft>>

\* setBlockIndexCandidates.rbegin()
BestCandidate ==
  CHOOSE c \in candidates : \A x \in candidates \ {c} : Worse(seqId, x, c)

\* The blocks between the active chain and c that rule c out.
Unusable(c) ==
  {x \in Path[c] \ Path[tip] : x \in Failed \cup Parked \/ x \notin haveData}

\* Faulty variant of EraseChain: the last erase is left out.
EraseChainAbove(c, test) == candidates \ (Path[c] \ Path[test])

\* "Remove the entire chain from the set": c, down to and including test.
EraseChain(c, test) == candidates \ ((Path[c] \ Path[test]) \cup {test})

\* FindMostWorkChain drops the best candidate: the highest unusable block on
\* its path decides what becomes of the blocks above it.
FindMostWorkSkip(p) ==
  /\ pc[p] = "select" /\ mostWork = None
  /\ candidates # {} /\ Unusable(BestCandidate) # {}
  /\ LET bad   == Unusable(BestCandidate)
         test  == CHOOSE x \in bad : bad \subseteq Path[x]
         above == Path[BestCandidate] \ Path[test]
     IN  /\ candidates' = EraseChain(BestCandidate, test)
         /\ \/ /\ test \in Failed
               /\ failedChild' = failedChild \cup above
               /\ UNCHANGED <<parkedChild, unlinked>>
            \/ /\ test \in Parked \ Failed
               /\ parkedChild' = parkedChild \cup above
               /\ UNCHANGED <<failedChild, unlinked>>
            \/ /\ test \notin Failed \cup Parked
               /\ unlinked' = AddUnlinkedBlock(above)
               /\ UNCHANGED <<failedChild, parkedChild>>
  /\ UNCHANGED <<known, nTx, scripts, haveData, haveUndo, chainTx, failedValid,
                 failedBlocks, parked, bestHeader, seqVars, tip, pc, lockVars,
                 abcVars, invVars, rpcLeft>>

\* FindMostWorkChain returns the best candidate.
FindMostWorkPick(p) ==
  /\ pc[p] = "select" /\ mostWork = None
  /\ candidates # {} /\ Unusable(BestCandidate) = {}
  /\ mostWork' = BestCandidate
  /\ UNCHANGED <<known, dataVars, failVars, parkVars, bestHeader, seqVars, tip,
                 candidates, pc, lockVars, startTip, oldTip, connected, invVars,
                 rpcLeft>>

\* Faulty variant of Release: the outer loop runs once.
ReleaseOnce(p, t, m) ==
  /\ csMain' = None
  /\ pc' = [pc EXCEPT ![p] = "idle"]
  /\ chainMutex' = None

\* End of a hold of cs_main with the tip at t and pindexMostWork at m: the
\* outer loop goes on until the two are the same.
Release(p, t, m) ==
  /\ csMain' = None
  /\ IF t = m
     THEN pc' = [pc EXCEPT ![p] = "idle"] /\ chainMutex' = None
     ELSE pc' = [pc EXCEPT ![p] = "loop"] /\ UNCHANGED chainMutex

\* There is nothing (more) to do: break out of the inner loop.
ABCBreak(p) ==
  /\ pc[p] = "select"
  /\ mostWork = tip \/ (mostWork = None /\ candidates = {})
  /\ IF connected THEN Release(p, tip, mostWork) ELSE Release(p, tip, tip)
  /\ UNCHANGED <<known, dataVars, failVars, parkVars, bestHeader, seqVars, tip,
                 candidates, abcVars, invVars, rpcLeft>>

\* ActivateBestChainStep begins.
ABCStep(p) ==
  /\ pc[p] = "select" /\ mostWork \notin {None, tip}
  /\ oldTip' = tip
  /\ pc' = [pc EXCEPT ![p] = "step"]
  /\ UNCHANGED <<known, dataVars, failVars, parkVars, bestHeader, seqVars, tip,
                 candidates, lockVars, mostWork, startTip, connected, invVars,
                 rpcLeft>>

\* ReadBlock and ReadBlockUndo find what DisconnectTip needs of b.  A block
\* that was pruned and downloaded again has its data and no undo data.
Disconnectable(b) == b \in haveData \cap haveUndo

\* Disconnect one block that is not on the way to pindexMostWork.
DisconnectTip(p) ==
  /\ pc[p] = "step" /\ tip \notin Path[mostWork]
  /\ Disconnectable(tip)
  /\ tip' = Parent[tip]
  /\ UNCHANGED <<known, dataVars, failVars, parkVars, bestHeader, seqVars,
                 candidates, pc, lockVars, abcVars, invVars, rpcLeft>>

\* DisconnectTip or ConnectTip cannot read its block or the undo data, which
\* have been pruned: FatalError, the node stops.
FatalError(p) ==
  /\ pc[p] = "step" /\ tip # mostWork
  /\ IF tip \in Path[mostWork] THEN NextToward(tip, mostWork) \notin haveData
                               ELSE ~Disconnectable(tip)
  /\ pc' = [pc EXCEPT ![p] = "stopped"]
  /\ UNCHANGED <<known, dataVars, failVars, parkVars, bestHeader, seqVars, tip,
                 candidates, lockVars, abcVars, invVars, rpcLeft>>

\* Faulty variant of StepDone: the inner loop runs once.
StepDoneAlways(p, t, m) == connected' = TRUE /\ Release(p, t, m)

\* The inner loop of ActivateBestChain goes on while the tip t is worse than
\* the one it started from.
StepDone(p, t, m) ==
  /\ connected' = TRUE
  /\ IF Worse(seqId, t, startTip)
     THEN pc' = [pc EXCEPT ![p] = "select"] /\ UNCHANGED lockVars
     ELSE Release(p, t, m)

\* ActivateBestChainStep ends once n is the tip: "We're in a better position
\* than we were", or there is nothing left to connect.
StepEnds(n) == Work[n] > Work[oldTip] \/ n = mostWork

\* ConnectTip succeeds: ConnectBlock has written the undo data.  The step ends
\* when the chain has become better.
ConnectTip(p) ==
  /\ pc[p] = "step" /\ tip \in Path[mostWork] \ {mostWork}
  /\ LET n == NextToward(tip, mostWork)
     IN  /\ n \in haveData \ InvalidBlock
         /\ tip' = n
         /\ scripts' = scripts \cup {n}
         /\ haveUndo' = haveUndo \cup {n}
         /\ candidates' = PruneCandidates(candidates, n, seqId)
         /\ IF StepEnds(n)
            THEN StepDone(p, n, mostWork)
            ELSE UNCHANGED <<pc, lockVars, connected>>
  /\ UNCHANGED <<known, nTx, haveData, chainTx, unlinked, failVars, parkVars,
                 bestHeader, seqVars, mostWork, startTip, oldTip, invVars,
                 rpcLeft>>

\* ConnectBlock finds the next block invalid: InvalidBlockFound and
\* InvalidChainFound mark it and everything above it.
ConnectInvalid(p) ==
  /\ pc[p] = "step" /\ tip \in Path[mostWork] \ {mostWork}
  /\ LET n == NextToward(tip, mostWork)
         D == FailureFlagged(n)
     IN  /\ n \in haveData \cap InvalidBlock
         /\ failedValid' = (failedValid \cup {n}) \ D
         /\ failedChild' = failedChild \cup D
         /\ failedBlocks' = (failedBlocks \cup {n}) \ D
         /\ candidates' = candidates \ {n}
         /\ IF n \in Path[bestHeader]
            THEN bestHeader' \in
                   RecalculateBestHeader(tip, known \ (failedValid' \cup failedChild'))
            ELSE UNCHANGED bestHeader
  /\ mostWork' = None
  /\ StepDone(p, tip, None)
  /\ UNCHANGED <<known, dataVars, parkVars, seqVars, tip, startTip, oldTip,
                 invVars, rpcLeft>>

\* A step of a thread inside ActivateBestChain.
ActivateBestChain(p) ==
  \/ ABCEnter(p) \/ ABCLock(p)
  \/ FindMostWorkSkip(p) \/ FindMostWorkPick(p)
  \/ ABCBreak(p) \/ ABCStep(p)
  \/ DisconnectTip(p) \/ FatalError(p)
  \/ ConnectTip(p) \/ ConnectInvalid(p)

-----------------------------------------------------------------------------
(* InvalidateBlock, called by the RPC of that name, which goes on to        *)
(* ActivateBestChain.                                                       *)

\* A call of the operator, of which there are boundedly many.
Call(p, name) ==
  /\ name \in Rpc /\ rpcLeft > 0 /\ pc[p] = "idle"
  /\ rpcLeft' = rpcLeft - 1

\* IsValid(BLOCK_VALID_TRANSACTIONS) && HaveNumChainTxs(), when the failed
\* blocks are those of bad.
Connectable(bad) == (nTx \cap chainTx) \ bad

\* Faulty variant of LateCandidates: the second look is left out.
LateCandidatesNone(bad) == {}

\* "add any missing entries to setBlockIndexCandidates": these are looked at.
LateCandidates(bad) == {c \in Connectable(bad) : ~Worse(seqId, c, tip)}

\* Faulty variant of StepBack: the new tip is not inserted.
StepBackErase(old) == candidates \ {old}

\* setBlockIndexCandidates loses the tip old and gains its predecessor.
StepBack(old) == (candidates \ {old}) \cup {Parent[old]}

\* Take m_chainstate_mutex and collect the blocks that may become candidates.
\* The lock on cs_main for this is not the one of the first iteration.
InvalidateBegin(p, b) ==
  /\ Call(p, "invalidate")
  /\ b \in known \ {Genesis}
  /\ chainMutex = None /\ csMain = None
  /\ chainMutex' = p
  /\ pc' = [pc EXCEPT ![p] = "inv"]
  /\ target' = b /\ toMark' = b /\ wasInChain' = FALSE
  /\ byWork' = {c \in Connectable(Failed) \ Path[tip] : ~Worse(seqId, c, Parent[b])}
  /\ UNCHANGED <<known, dataVars, failVars, parkVars, bestHeader, seqVars, tip,
                 candidates, csMain, abcVars>>

\* One iteration: disconnect the tip, mark it, restore candidates.
InvalidateDisconnect(p) ==
  /\ pc[p] = "inv" /\ csMain = None
  /\ target \in Path[tip] /\ Disconnectable(tip)
  /\ LET new  == Parent[tip]
         back == {c \in byWork : ~Worse(seqId, c, new)}
         kids == ParkedByAncestor(back, new, Parked)
         demote == {toMark} \cap failedValid \cap {x \in Block : Parent[x] = tip}
     IN  /\ tip' = new
         /\ failedValid' = (failedValid \cup {tip}) \ demote
         /\ failedChild' = failedChild \cup demote
         /\ parkedChild' = parkedChild \cup kids
         /\ candidates' =
              TryAdd(back, StepBack(tip), new, seqId, Parked \cup kids)
         /\ byWork' = byWork \ back
  /\ toMark' = tip
  /\ wasInChain' = TRUE
  /\ UNCHANGED <<known, dataVars, failedBlocks, parked, bestHeader, seqVars, pc,
                 lockVars, abcVars, target, rpcLeft>>

\* The tip or its undo data has been pruned, it cannot be disconnected: give
\* up.
InvalidateFail(p) ==
  /\ pc[p] = "inv" /\ csMain = None
  /\ target \in Path[tip] /\ ~Disconnectable(tip)
  /\ chainMutex' = None
  /\ ThenActivateBestChain(p)
  /\ UNCHANGED <<known, dataVars, failVars, parkVars, bestHeader, seqVars, tip,
                 candidates, csMain, abcVars, invVars, rpcLeft>>

\* The last hold of cs_main: mark a block that never was in the chain, add
\* the candidates that were missed, InvalidChainFound.
InvalidateEnd(p) ==
  /\ pc[p] = "inv" /\ csMain = None
  /\ target \notin Path[tip]
  /\ LET new  == IF wasInChain THEN {} ELSE {target} \ Failed
         late == LateCandidates(Failed \cup new)
         kids == ParkedByAncestor(late, tip, Parked)
         D    == FailureFlagged(toMark)
     IN  /\ candidates' =
              TryAdd(late, candidates \ new, tip, seqId, Parked \cup kids)
         /\ parkedChild' = parkedChild \cup kids
         /\ failedValid' = (failedValid \cup new) \ D
         /\ failedChild' = failedChild \cup D
         /\ failedBlocks' = (failedBlocks \cup new) \ D
  /\ IF toMark \in Path[bestHeader]
     THEN bestHeader' \in
            RecalculateBestHeader(tip, known \ (failedValid' \cup failedChild'))
     ELSE UNCHANGED bestHeader
  /\ chainMutex' = None
  /\ ThenActivateBestChain(p)
  /\ UNCHANGED <<known, dataVars, parked, seqVars, tip, csMain, abcVars,
                 invVars, rpcLeft>>

InvalidateBlock(p) ==
  InvalidateDisconnect(p) \/ InvalidateFail(p) \/ InvalidateEnd(p)

-----------------------------------------------------------------------------
(* The other RPCs and pruning.                                              *)

\* Faulty variant of SiblingRoots: siblings keep an orphaned child flag.
SiblingRootsNone(b, cleared) == {}

\* "Sibling branches remain invalid when their shared ancestor is
\* reconsidered": the blocks that become failure roots of their own.
SiblingRoots(b, cleared) ==
  {x \in (failedChild \ failedValid) \ cleared : Parent[x] \in Path[b]}

\* Faulty variant of ResetFailedBlocks: the erase is left out.
ResetFailedBlocksAdd(cleared, roots) == failedBlocks \cup roots

\* m_failed_blocks after the flags of cleared are reset.
ResetFailedBlocks(cleared, roots) == (failedBlocks \ cleared) \cup roots

\* ResetBlockFailureFlags, then RecalculateBestHeader; ActivateBestChain
\* follows.
ReconsiderBlock(p, b) ==
  /\ Call(p, "reconsider")
  /\ b \in known /\ csMain = None
  /\ LET cleared == {x \in Failed : b \in Path[x] \/ x \in Path[b]}
         roots   == SiblingRoots(b, cleared)
         back    == {x \in cleared \cap nTx \cap chainTx : Worse(seqId, tip, x)}
         kids    == ParkedByAncestor(back, tip, Parked)
     IN  /\ failedValid' = (failedValid \ cleared) \cup roots
         /\ failedChild' = (failedChild \ cleared) \ roots
         /\ failedBlocks' = ResetFailedBlocks(cleared, roots)
         /\ parkedChild' = parkedChild \cup kids
         /\ candidates' = TryAdd(back, candidates, tip, seqId, Parked \cup kids)
  /\ bestHeader' \in
       RecalculateBestHeader(tip, known \ (failedValid' \cup failedChild'))
  /\ ThenActivateBestChain(p)
  /\ UNCHANGED <<known, dataVars, parked, seqVars, tip, lockVars, abcVars, invVars>>

\* Faulty variant of ParkBlock: m_chainstate_mutex is not taken.
ParkBlockUnlocked(p, b) ==
  /\ Call(p, "park")
  /\ b \in known /\ csMain = None
  /\ b \notin Path[tip]
  /\ parked' = parked \cup {b}
  /\ candidates' = candidates \ {b}
  /\ UNCHANGED <<known, dataVars, failVars, parkedChild, bestHeader, seqVars,
                 tip, pc, lockVars, abcVars, invVars>>

\* ParkBlock, which refuses a block of the active chain and keeps
\* ActivateBestChain out.
ParkBlock(p, b) ==
  /\ Call(p, "park")
  /\ b \in known /\ chainMutex = None /\ csMain = None
  /\ b \notin Path[tip]
  /\ parked' = parked \cup {b}
  /\ candidates' = candidates \ {b}
  /\ UNCHANGED <<known, dataVars, failVars, parkedChild, bestHeader, seqVars,
                 tip, pc, lockVars, abcVars, invVars>>

\* UnparkBlock, then RecalculateBestHeader; ActivateBestChain follows.
UnparkBlock(p, b) ==
  /\ Call(p, "unpark")
  /\ b \in known /\ csMain = None
  /\ LET cleared == {x \in Parked : b \in Path[x] \/ x \in Path[b]}
     IN  /\ parked' = parked \ cleared
         /\ parkedChild' = parkedChild \ cleared
         /\ candidates' = TryAdd(cleared \cap chainTx, candidates, tip, seqId,
                                 Parked \ cleared)
  /\ bestHeader' \in RecalculateBestHeader(tip, known \ Failed)
  /\ ThenActivateBestChain(p)
  /\ UNCHANGED <<known, dataVars, failVars, seqVars, tip, lockVars, abcVars, invVars>>

\* PreciousBlock; ActivateBestChain follows.
PreciousBlock(p, b) ==
  /\ Call(p, "precious")
  /\ b \in known /\ csMain = None
  /\ Work[b] >= Work[tip]
  /\ LET rs == IF Work[tip] > lastPrecious THEN -1 ELSE reverseSeq
     IN  /\ seqId' = [seqId EXCEPT ![b] = rs]
         /\ reverseSeq' = rs - 1
  /\ lastPrecious' = Work[tip]
  /\ candidates' =
       IF b \in Connectable(Failed)
       THEN PruneCandidates(candidates \cup {b}, tip, seqId')
       ELSE candidates \ {b}
  /\ ThenActivateBestChain(p)
  /\ UNCHANGED <<known, dataVars, failVars, parkVars, bestHeader, nextSeq, tip,
                 lockVars, abcVars, invVars>>

\* Faulty variant of PruneUnlinked: the erase is left out.
PruneUnlinkedNot(S) == unlinked

\* m_blocks_unlinked without the pruned blocks.
PruneUnlinked(S) == unlinked \ S

\* PruneOneBlockFile on files that hold the blocks of S, all of them within
\* GetPruneRange.  Pruning is part of FlushStateToDisk: callers that find
\* cs_main free, and ConnectTip and DisconnectTip before they set the new tip.
PruneBlockFiles(S) ==
  /\ "prune" \in Rpc /\ rpcLeft > 0 /\ rpcLeft' = rpcLeft - 1
  /\ csMain # None => pc[csMain] = "step"
  /\ S # {}
  /\ haveData' = haveData \ S
  /\ haveUndo' = haveUndo \ S
  /\ unlinked' = PruneUnlinked(S)
  /\ UNCHANGED <<known, nTx, scripts, chainTx, failVars, parkVars, bestHeader,
                 seqVars, tip, candidates, pc, lockVars, abcVars, invVars>>

\* Faulty variant of Prunable: MIN_BLOCKS_TO_KEEP is forgotten.
PrunableAll == {b \in haveData : Height[b] <= Height[tip]}

\* Blocks that FindFilesToPrune may touch.
Prunable == {b \in haveData : Height[b] + KeepBlocks <= Height[tip]}

-----------------------------------------------------------------------------
Receive(p, b) ==
  \/ ProcessNewBlockHeaders(p, b)
  \/ RejectFailedBranch(p, b)
  \/ AcceptWithoutStoring(p, b)
  \/ AcceptBadBody(p, b)
  \/ AcceptBlock(p, b)

Operate(p, b) ==
  \/ InvalidateBegin(p, b)
  \/ ReconsiderBlock(p, b)
  \/ ParkBlock(p, b)
  \/ UnparkBlock(p, b)
  \/ PreciousBlock(p, b)

Next ==
  \/ \E p \in Proc : ActivateBestChain(p) \/ InvalidateBlock(p)
  \/ \E p \in Proc, b \in Block : Receive(p, b) \/ Operate(p, b)
  \/ \E S \in SUBSET Prunable : PruneBlockFiles(S)

\* A thread that has begun ActivateBestChain or InvalidateBlock runs on: it
\* only ever waits for locks that the other threads give up.
Fairness == \A p \in Proc : WF_vars(ActivateBestChain(p) \/ InvalidateBlock(p))

Spec == Init /\ [][Next]_vars
FairSpec == Spec /\ Fairness

-----------------------------------------------------------------------------
(* Properties *)

Places == {"idle", "abc", "loop", "select", "step", "inv", "stopped"}

\* Every variable has the type of the C++ member it stands for.
TypeOK ==
  /\ known \in SUBSET Block
  /\ nTx \in SUBSET Block /\ scripts \in SUBSET Block
  /\ haveData \in SUBSET Block /\ haveUndo \in SUBSET Block
  /\ chainTx \in SUBSET Block
  /\ unlinked \in SUBSET Block
  /\ failedValid \in SUBSET Block /\ failedChild \in SUBSET Block
  /\ failedBlocks \in SUBSET Block
  /\ parked \in SUBSET Block /\ parkedChild \in SUBSET Block
  /\ bestHeader \in Block
  /\ seqId \in [Block -> Int]
  /\ nextSeq \in Nat /\ reverseSeq \in Int /\ lastPrecious \in Nat
  /\ tip \in Block
  /\ candidates \in SUBSET Block
  /\ pc \in [Proc -> Places]
  /\ chainMutex \in Proc \cup {None} /\ csMain \in Proc \cup {None}
  /\ mostWork \in Block \cup {None} /\ startTip \in Block \cup {None}
  /\ oldTip \in Block \cup {None} /\ connected \in BOOLEAN
  /\ target \in Block \cup {None} /\ toMark \in Block \cup {None}
  /\ wasInChain \in BOOLEAN /\ byWork \in SUBSET Block
  /\ rpcLeft \in Nat

\* Parking never touches the active chain: no block of it is parked, whoever
\* parks what while ActivateBestChain works towards a cached pindexMostWork.
ActiveChainNotParked == Path[tip] \cap Parked = {}

\* The pindexMostWork that ActivateBestChain keeps while it gives up cs_main
\* leads through no parked block when it is used again, whatever was received,
\* parked or reconsidered in between.
CachedTargetNotParked ==
  \A p \in Proc : pc[p] \in {"loop", "select", "step"} /\ mostWork # None =>
    Path[mostWork] \cap Parked = {}

\* What the threads know of the locks and of the tip at each place, on which
\* the two properties above rest.
LocksHeld ==
  \A p \in Proc :
    /\ pc[p] \in {"loop", "select", "step", "inv", "stopped"} => chainMutex = p
    /\ pc[p] \in {"select", "step", "stopped"} <=> csMain = p
    /\ pc[p] = "step" => mostWork # None
    /\ pc[p] = "loop" /\ mostWork # None => tip \in Path[mostWork]
    /\ pc[p] = "inv" => target \notin {None, Genesis}

ParkingInv ==
  TypeOK /\ LocksHeld /\ ActiveChainNotParked /\ CachedTargetNotParked

\* The active chain holds no block that is marked failed (InvalidateBlock
\* disconnects a block before it marks it, in one hold of cs_main).
ActiveChainNotFailed == Path[tip] \cap Failed = {}

\* CheckBlockIndex: whenever cs_main is free, setBlockIndexCandidates holds
\* only blocks at least as good as the tip that are linked to genesis.
CandidatesSound ==
  csMain = None => \A c \in candidates : c \in chainTx /\ ~Worse(seqId, c, tip)

\* CheckBlockIndex: whenever cs_main is free and no InvalidateBlock is under
\* way, every usable block at least as good as the tip is a candidate.  The
\* assertion asks it even of a block above a mark without a root, which is
\* what FailedHaveRoot is about.
CandidatesComplete ==
  csMain = None /\ (\A p \in Proc : pc[p] # "inv") =>
    \A b \in chainTx :
      /\ ~Worse(seqId, b, tip)
      /\ Path[b] \cap Failed = {}
      /\ b \notin Parked
      /\ Path[b] \subseteq haveData \/ b = tip
      => b \in candidates

\* CheckBlockIndex: m_chain_tx_count is set exactly when the block and all
\* its ancestors have been received.
LinkedIffReceived == chainTx = {b \in known : Path[b] \subseteq nTx}

\* CheckBlockIndex: "The failed mask cannot be set for blocks without invalid
\* parents."
FailedHaveRoot == \A b \in Failed : Path[b] \cap failedValid # {}

\* AcceptBlockHeader asserts that every entry of m_failed_blocks carries
\* BLOCK_FAILED_VALID.
FailedBlocksMarked == failedBlocks \subseteq failedValid

\* CheckBlockIndex: a stored block that waits for the body of an ancestor and
\* has no failed ancestor is in m_blocks_unlinked.
UnlinkedComplete ==
  \A b \in haveData \ {Genesis} :
    ~(Path[b] \subseteq nTx) /\ Path[b] \cap failedValid = {} => b \in unlinked

\* CheckBlockIndex: an entry of m_blocks_unlinked has its data, and some
\* ancestor of it has not.
UnlinkedSound ==
  \A b \in unlinked : b \in haveData /\ ~(Path[b] \subseteq haveData)

\* CheckBlockIndex: "if this block is itself better than any m_chain.Tip() and
\* it wasn't in setBlockIndexCandidates, then it must be in m_blocks_unlinked",
\* of a block that has its data while that of an ancestor has been pruned.
MissingDataUnlinked ==
  csMain = None =>
    \A b \in (haveData \cap chainTx) \ (candidates \cup {Genesis}) :
      /\ ~(Path[b] \subseteq haveData)
      /\ ~Worse(seqId, b, tip)
      /\ Path[b] \cap failedValid = {}
      => b \in unlinked

\* A block that ActivateBestChain should switch to.
Eligible(b) ==
  b \in chainTx /\ Worse(seqId, tip, b) /\ Unusable(b) = {}

\* When no thread has work left, no usable block is better than the tip: no
\* candidate is lost between the threads.
QuiescentBest ==
  (\A p \in Proc : pc[p] = "idle") => \A b \in Block : ~Eligible(b)

\* PruneBlockIndexCandidates asserts: "Either the current tip or a successor
\* of it we're working towards is left in setBlockIndexCandidates."
CandidatesLeft == candidates # {}

\* No header that is not marked failed has more work than m_best_header.
BestHeaderDominates == \A h \in known \ Failed : Work[h] <= Work[bestHeader]


\* TryAddBlockIndexCandidate: "Candidate restoration may visit descendants
\* before their parked ancestors": no block becomes a candidate while it or an
\* ancestor is parked.  preciousblock, which lowers the sequence id, inserts
\* its block without looking and leaves it to FindMostWorkChain.
NoParkedCandidateAdded ==
  [][\A c \in candidates' \ candidates :
       seqId'[c] >= seqId[c] => Path[c] \cap (parked' \cup parkedChild') = {}]_vars

\* ActivateBestChain: "We absolutely may not unlock cs_main until we've made
\* forward progress": when it gives up cs_main, the tip is not worse than the
\* one it started from.
ForwardProgress ==
  [][csMain # None /\ csMain' = None => ~Worse(seqId, tip', startTip)]_vars

\* Only ConnectTip raises a block to VALID_SCRIPTS, after its ancestors, and
\* the active chain consists of such blocks.
ActiveChainValidated ==
  Path[tip] \subseteq scripts /\ \A b \in scripts : Path[b] \subseteq scripts

\* Without a call of the operator, ActivateBestChain never leaves more than
\* ParkDepth blocks of the chain it started from.
DeepReorgNeverAutomatic ==
  ParkEnabled =>
    \A p \in Proc : pc[p] = "step" => Rewind(startTip, mostWork) <= ParkDepth

\* A node that keeps more blocks than it reorganises never needs a pruned one.
NeverStops == \A p \in Proc : pc[p] # "stopped"

\* A usable block better than the tip is connected, overtaken or found
\* unusable: it does not stay eligible for ever.
EligibleResolved == \A b \in Block : Eligible(b) ~> ~Eligible(b)

\* A thread that has entered ActivateBestChain or InvalidateBlock gets out.
MutexReleased ==
  \A p \in Proc : chainMutex = p ~> chainMutex # p

=============================================================================
