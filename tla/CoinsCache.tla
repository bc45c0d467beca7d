----------------------------- MODULE CoinsCache ------------------------------
(***************************************************************************)
(* The stack of coins caches: the view of one block over CoinsTip() over   *)
(* the database (src/src/coins.h, src/src/coins.cpp).  A cache holds, for  *)
(* some outpoints, a coin with two flags.  DIRTY: it may differ from the   *)
(* layer below.  FRESH: the layer below has no unspent coin there, so that *)
(* spending it may simply drop the entry.  FRESH saves most database       *)
(* writes, and a wrong flag silently changes the set of unspent outputs.   *)
(*                                                                         *)
(* Outpoints do not interact, so two of them show all there is.  Memory    *)
(* accounting and the linked list of flagged entries are left out.         *)
(***************************************************************************)
CONSTANTS
  Outpoint,
  Coin,     \* contents of an unspent coin
  Spent,    \* a coin that IsSpent(), and an outpoint without a coin
  None      \* no entry in cacheCoins

VARIABLES
  db,    \* CCoinsViewDB
  tip,   \* cacheCoins of CoinsTip()
  view   \* cacheCoins of the view on which a block is worked

vars == <<db, tip, view>>

Value == Coin \cup {Spent}
Entry == [coin : Value, dirty : BOOLEAN, fresh : BOOLEAN]

ASSUME CoinAssumption == Spent \notin Coin /\ None \notin Entry

Clean(c) == [coin |-> c, dirty |-> FALSE, fresh |-> FALSE]

NoEntry == [o \in Outpoint |-> None]

-----------------------------------------------------------------------------
(* One entry *)

\* GetCoin of a cache over the answers of base.
Lookup(cache, base) ==
  [o \in Outpoint |-> IF cache[o] = None THEN base[o] ELSE cache[o].coin]

TipCoins == Lookup(tip, db)
ViewCoins == Lookup(view, TipCoins)

\* FetchCoin: the entry e after a lookup that finds c below.
Fetched(e, c) == IF e = None /\ c # Spent THEN Clean(c) ELSE e

\* Faulty variant of Added: a coin re-added over its DIRTY spent entry
\* becomes FRESH.
AddedFresh(e, c, possible_overwrite) ==
  [coin  |-> c,
   dirty |-> TRUE,
   fresh |-> ~possible_overwrite \/ (e # None /\ e.fresh)]

\* AddCoin on the entry e.
Added(e, c, possible_overwrite) ==
  [coin  |-> c,
   dirty |-> TRUE,
   fresh |-> \/ ~possible_overwrite /\ (e = None \/ ~e.dirty)
             \/ e # None /\ e.fresh]

\* Faulty variant of Removed: the entry is dropped whatever its flags.
RemovedAlways(e) == None

\* SpendCoin on an entry that exists.
Removed(e) ==
  IF e.fresh THEN None ELSE [coin |-> Spent, dirty |-> TRUE, fresh |-> FALSE]

\* Faulty variant of Merged: FRESH is taken over in a normal modification.
MergedFresh(c, p) ==
  IF c = None \/ ~c.dirty THEN p
  ELSE IF p # None /\ p.fresh /\ c.coin = Spent THEN None
  ELSE [coin |-> c.coin, dirty |-> TRUE, fresh |-> c.fresh]

\* BatchWrite into a cache: the entry p after the entry c of the child.
Merged(c, p) ==
  IF c = None \/ ~c.dirty
  THEN p
  ELSE IF p = None
       THEN IF c.fresh /\ c.coin = Spent
            THEN None
            ELSE [coin |-> c.coin, dirty |-> TRUE, fresh |-> c.fresh]
       ELSE IF p.fresh /\ c.coin = Spent
            THEN None
            ELSE [coin |-> c.coin, dirty |-> TRUE, fresh |-> p.fresh]

\* Faulty variant of Written: the coins spent are not erased.
WrittenUnspent(e, d) ==
  IF e # None /\ e.dirty /\ e.coin # Spent THEN e.coin ELSE d

\* What CCoinsViewDB::BatchWrite leaves of the stored coin d.
Written(e, d) == IF e # None /\ e.dirty THEN e.coin ELSE d

\* Faulty variant of Synced: the spent entries stay, unflagged.
SyncedSpent(e) == IF e = None THEN None ELSE Clean(e.coin)

\* NextAndMaybeErase without will_erase: what Sync leaves of an entry.
Synced(e) ==
  IF e # None /\ (e.dirty \/ e.fresh)
  THEN IF e.coin = Spent THEN None ELSE Clean(e.coin)
  ELSE e

-----------------------------------------------------------------------------
(* The operations *)

Init ==
  /\ db \in [Outpoint -> Value]
  /\ tip = NoEntry
  /\ view = NoEntry

\* GetCoin, HaveCoin or AccessCoin on CoinsTip(), by the mempool or an RPC:
\* cs_main keeps them out while a block is worked.
FetchTip(o) ==
  /\ view = NoEntry
  /\ tip' = [tip EXCEPT ![o] = Fetched(@, db[o])]
  /\ UNCHANGED <<db, view>>

\* The same on the view, which asks CoinsTip() for what it does not have.
FetchView(o) ==
  /\ view' = [view EXCEPT ![o] = Fetched(@, TipCoins[o])]
  /\ tip' = [tip EXCEPT ![o] = IF view[o] = None THEN Fetched(@, db[o]) ELSE @]
  /\ UNCHANGED db

\* Uncache, when the mempool refuses or evicts a transaction that spends o.
Uncache(o) ==
  /\ view = NoEntry
  /\ tip[o] # None /\ ~tip[o].dirty /\ ~tip[o].fresh
  /\ tip' = [tip EXCEPT ![o] = None]
  /\ UNCHANGED <<db, view>>

\* AddCoin on the view.  Callers pass possible_overwrite unless there is no
\* such coin: ApplyTxInUndo asks HaveCoin, AddCoins asks it or passes it for
\* every coinbase, and BIP30 keeps the outputs of other transactions apart.
\* An unspendable output is not added, which changes nothing.
AddCoin(o, c, possible_overwrite) ==
  /\ possible_overwrite \/ ViewCoins[o] = Spent
  /\ view' = [view EXCEPT ![o] = Added(@, c, possible_overwrite)]
  /\ UNCHANGED <<db, tip>>

\* SpendCoin on the view.
SpendCoin(o) ==
  /\ tip' = [tip EXCEPT ![o] = IF view[o] = None THEN Fetched(@, db[o]) ELSE @]
  /\ LET e == Fetched(view[o], TipCoins[o])
     IN  view' = [view EXCEPT ![o] = IF e = None THEN None ELSE Removed(e)]
  /\ UNCHANGED db

\* Flush of the view when the block is connected or disconnected.
FlushView ==
  /\ tip' = [o \in Outpoint |-> Merged(view[o], tip[o])]
  /\ view' = NoEntry
  /\ UNCHANGED db

\* ConnectBlock failed: the view goes out of scope.
DropView ==
  /\ view' = NoEntry
  /\ UNCHANGED <<db, tip>>

\* CoinsTip().Flush() in FlushStateToDisk.
Flush ==
  /\ view = NoEntry
  /\ db' = [o \in Outpoint |-> Written(tip[o], db[o])]
  /\ tip' = NoEntry
  /\ UNCHANGED view

\* CoinsTip().Sync() in FlushStateToDisk: the entries stay.
Sync ==
  /\ view = NoEntry
  /\ db' = [o \in Outpoint |-> Written(tip[o], db[o])]
  /\ tip' = [o \in Outpoint |-> Synced(tip[o])]
  /\ UNCHANGED view

Next ==
  \/ \E o \in Outpoint :
       \/ FetchTip(o) \/ FetchView(o) \/ Uncache(o) \/ SpendCoin(o)
       \/ \E c \in Coin, possible_overwrite \in BOOLEAN :
            AddCoin(o, c, possible_overwrite)
  \/ FlushView \/ DropView \/ Flush \/ Sync

Spec == Init /\ [][Next]_vars

-----------------------------------------------------------------------------
(* Properties *)

\* The flags of a cache say the truth about the layer below: an entry that is
\* not DIRTY has its unspent coin, and under one that is FRESH there is none.
FlagsTrue(cache, base) ==
  \A o \in Outpoint :
    cache[o] # None =>
      /\ ~cache[o].dirty => /\ cache[o].coin = base[o]
                            /\ cache[o].coin # Spent
                            /\ ~cache[o].fresh
      /\ cache[o].fresh => base[o] = Spent /\ cache[o].coin # Spent

\* The maps keep their types, and the DIRTY and FRESH flags of both caches
\* say the truth about the layer below at every moment: AddCoin, SpendCoin,
\* BatchWrite and Sync each rely on it and each could break it.
FlagsTruthful ==
  /\ db \in [Outpoint -> Value]
  /\ tip \in [Outpoint -> Entry \cup {None}]
  /\ view \in [Outpoint -> Entry \cup {None}]
  /\ FlagsTrue(tip, db)
  /\ FlagsTrue(view, TipCoins)

\* The assertion of CCoinsViewCache::SanityCheck, "Only 5 combinations are
\* possible": no entry is FRESH alone and unspent, spent without a flag, or
\* spent with both.
SanityCheck ==
  \A cache \in {tip, view} : \A o \in Outpoint :
    cache[o] # None =>
      /\ ~(cache[o].coin # Spent /\ ~cache[o].dirty /\ cache[o].fresh)
      /\ ~(cache[o].coin = Spent /\ ~cache[o].dirty /\ ~cache[o].fresh)
      /\ ~(cache[o].coin = Spent /\ cache[o].dirty /\ cache[o].fresh)

\* When a block's view is flushed, BatchWrite never throws "FRESH flag
\* misapplied to coin that exists in parent cache".
FreshNotMisapplied ==
  \A o \in Outpoint :
    /\ view[o] # None /\ view[o].dirty /\ view[o].fresh
    /\ tip[o] # None
    => tip[o].coin = Spent

Plain == INSTANCE CoinsView
           WITH stored <- db, utxo <- TipCoins, work <- ViewCoins

\* Nobody can tell that there are caches: whatever is fetched, uncached,
\* flushed, synced or dropped, the three layers answer as three plain maps
\* on which Flush of the view, and Flush or Sync of CoinsTip(), copy one map
\* onto the next.
CachesInvisible == Plain!Spec

\* Each operation has its whole effect on the answers, whichever layers hold
\* the coin and with whichever flags: AddCoin and SpendCoin change that coin
\* in the view and no other, Flush of the view hands all of its answers to
\* CoinsTip(), a dropped view leaves none, and Flush and Sync of CoinsTip()
\* leave the database with all of its answers.
Exact ==
  /\ \A o \in Outpoint :
       /\ SpendCoin(o) => ViewCoins' = [ViewCoins EXCEPT ![o] = Spent]
       /\ \A c \in Coin, possible_overwrite \in BOOLEAN :
            AddCoin(o, c, possible_overwrite)
              => ViewCoins' = [ViewCoins EXCEPT ![o] = c]
  /\ FlushView => TipCoins' = ViewCoins
  /\ DropView => ViewCoins' = TipCoins
  /\ Flush \/ Sync => db' = TipCoins

\* Every step of coins.cpp is Exact.
OperationsExact == [][Exact]_vars

=============================================================================
