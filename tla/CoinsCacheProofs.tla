-------------------------- MODULE CoinsCacheProofs --------------------------
(***************************************************************************)
(* For every set of outpoints and coins, the flags of the coins caches are *)
(* truthful and the caches implement three plain maps.  An outpoint never  *)
(* touches another, so the argument is about one entry over one coin:      *)
(* Good(e, b) is FlagsTrue for the entry e over the coin b.                *)
(***************************************************************************)
EXTENDS CoinsCache, TLAPS

Slot == Entry \cup {None}

Good(e, b) ==
  /\ e \in Slot
  /\ e # None /\ ~e.dirty => e.coin = b /\ e.coin # Spent /\ ~e.fresh
  /\ e # None /\ e.fresh => b = Spent /\ e.coin # Spent

See(e, b) == IF e = None THEN b ELSE e.coin

\* An entry flagged DIRTY is truthful if FRESH, when set, is.
LEMMA DirtyGood ==
  ASSUME NEW v \in Value, NEW f \in BOOLEAN, NEW b,
         f => b = Spent /\ v # Spent
  PROVE  LET e == [coin |-> v, dirty |-> TRUE, fresh |-> f]
         IN  e # None /\ Good(e, b) /\ See(e, b) = v
<1> DEFINE e == [coin |-> v, dirty |-> TRUE, fresh |-> f]
<1>1. e \in Entry
  BY DEF Entry
<1>2. e # None
  BY <1>1, CoinAssumption
<1>3. e.coin = v /\ e.dirty = TRUE /\ e.fresh = f
  OBVIOUS
<1> HIDE DEF e
<1>4. Good(e, b) /\ See(e, b) = v
  BY <1>1, <1>2, <1>3 DEF Good, See, Slot
<1> QED BY <1>2, <1>4 DEF e

\* The parts of an entry that is there.
LEMMA EntryParts ==
  ASSUME NEW e, NEW b, Good(e, b), e # None
  PROVE  /\ e \in Entry
         /\ e.coin \in Value /\ e.dirty \in BOOLEAN /\ e.fresh \in BOOLEAN
BY DEF Good, Slot, Entry

\* No entry is truthful over any coin.
LEMMA NoneGood ==
  ASSUME NEW b
  PROVE  Good(None, b) /\ See(None, b) = b
BY DEF Good, See, Slot

\* A fetch keeps the flags truthful and what the cache answers.
LEMMA FetchedGood ==
  ASSUME NEW e, NEW b \in Value, Good(e, b)
  PROVE  Good(Fetched(e, b), b) /\ See(Fetched(e, b), b) = See(e, b)
BY CoinAssumption DEF Good, See, Fetched, Clean, Slot, Entry, Value

\* What a cache answers over a coin is a coin or Spent.
LEMMA SeeType ==
  ASSUME NEW e, NEW b \in Value, Good(e, b)
  PROVE  See(e, b) \in Value
BY DEF Good, See, Slot, Entry, Value

\* AddCoin under its callers' contract keeps the flags truthful.
LEMMA AddedGood ==
  ASSUME NEW e, NEW b \in Value, Good(e, b), NEW c \in Coin,
         NEW ow \in BOOLEAN, ow \/ See(e, b) = Spent
  PROVE  Good(Added(e, c, ow), b) /\ See(Added(e, c, ow), b) = c
<1>1. Added(e, c, ow) \in Entry
  BY DEF Added, Entry, Value
<1>2. Added(e, c, ow) # None
  BY <1>1, CoinAssumption
<1>3. Added(e, c, ow).fresh => b = Spent
  BY DEF Added, Good, See, Slot, Entry
<1> QED BY <1>1, <1>2, <1>3, CoinAssumption DEF Good, See, Added, Slot

\* SpendCoin on an entry keeps the flags truthful and leaves Spent.
LEMMA RemovedGood ==
  ASSUME NEW e, NEW b \in Value, Good(e, b), e # None
  PROVE  Good(Removed(e), b) /\ See(Removed(e), b) = Spent
<1>1. CASE e.fresh
  BY <1>1, NoneGood DEF Removed, Good
<1>2. CASE ~e.fresh
  <2>1. Spent \in Value
    BY DEF Value
  <2> QED BY <1>2, <2>1, DirtyGood DEF Removed
<1> QED BY <1>1, <1>2

\* BatchWrite into a cache keeps its flags truthful, and it then answers what
\* the child answered.
LEMMA MergedGood ==
  ASSUME NEW d \in Value, NEW p, Good(p, d), NEW c, Good(c, See(p, d))
  PROVE  Good(Merged(c, p), d) /\ See(Merged(c, p), d) = See(c, See(p, d))
<1>1. CASE c = None \/ ~c.dirty
  BY <1>1 DEF Merged, Good, See
<1>2. CASE c # None /\ c.dirty /\ p = None
  <2>1. c.coin \in Value /\ c.fresh \in BOOLEAN
    BY <1>2, EntryParts
  <2>2. c.fresh => d = Spent /\ c.coin # Spent
    BY <1>2 DEF Good, See
  <2>3. Merged(c, p) = [coin |-> c.coin, dirty |-> TRUE, fresh |-> c.fresh]
    BY <1>2, <2>2 DEF Merged
  <2>4. See(c, See(p, d)) = c.coin
    BY <1>2 DEF See
  <2> QED BY <2>1, <2>2, <2>3, <2>4, DirtyGood
<1>3. CASE c # None /\ c.dirty /\ p # None
  <2>1. /\ c.coin \in Value
        /\ p.fresh \in BOOLEAN
    BY <1>3, EntryParts
  <2>2. See(c, See(p, d)) = c.coin
    BY <1>3 DEF See
  <2>3. p.fresh => d = Spent
    BY <1>3 DEF Good
  <2>4. CASE p.fresh /\ c.coin = Spent
    <3>1. Merged(c, p) = None
      BY <1>3, <2>4 DEF Merged
    <3> QED BY <2>2, <2>3, <2>4, <3>1, NoneGood
  <2>5. CASE ~(p.fresh /\ c.coin = Spent)
    <3>1. Merged(c, p) = [coin |-> c.coin, dirty |-> TRUE, fresh |-> p.fresh]
      BY <1>3, <2>5 DEF Merged
    <3> QED BY <2>1, <2>2, <2>3, <2>5, <3>1, DirtyGood
  <2> QED BY <2>4, <2>5
<1> QED BY <1>1, <1>2, <1>3

\* The database receives what the cache answers.
LEMMA WrittenSee ==
  ASSUME NEW d \in Value, NEW e, Good(e, d)
  PROVE  Written(e, d) = See(e, d)
BY DEF Written, Good, See

\* After Sync an entry is truthful over the coin just written.
LEMMA SyncedGood ==
  ASSUME NEW d \in Value, NEW e, Good(e, d)
  PROVE  /\ Good(Synced(e), See(e, d))
         /\ See(Synced(e), See(e, d)) = See(e, d)
BY CoinAssumption DEF Synced, Clean, Good, See, Slot, Entry, Value

-----------------------------------------------------------------------------
(* All outpoints *)

\* What CoinsTip() and the view answer for one outpoint.
TipSee(o) == See(tip[o], db[o])
ViewSee(o) == See(view[o], TipSee(o))

\* The invariant, outpoint by outpoint.
Local ==
  /\ db \in [Outpoint -> Value]
  /\ tip \in [Outpoint -> Slot]
  /\ view \in [Outpoint -> Slot]
  /\ \A o \in Outpoint : Good(tip[o], db[o]) /\ Good(view[o], TipSee(o))

\* What TipCoins and ViewCoins are, outpoint by outpoint.
LEMMA Answers ==
  /\ TipCoins = [o \in Outpoint |-> TipSee(o)]
  /\ ViewCoins = [o \in Outpoint |-> ViewSee(o)]
BY DEF TipCoins, ViewCoins, Lookup, TipSee, ViewSee, See

\* FlagsTruthful, outpoint by outpoint.
LEMMA LocalFlags == Local <=> FlagsTruthful
<1>1. \A o \in Outpoint : TipCoins[o] = TipSee(o)
  BY Answers
<1>2. Local => FlagsTruthful
  BY <1>1 DEF Local, FlagsTruthful, FlagsTrue, Good, Slot
<1>3. FlagsTruthful => Local
  BY <1>1 DEF Local, FlagsTruthful, FlagsTrue, Good, Slot
<1> QED BY <1>2, <1>3

\* Every layer answers a coin or Spent.
LEMMA SeeTypes ==
  ASSUME Local, NEW o \in Outpoint
  PROVE  db[o] \in Value /\ TipSee(o) \in Value /\ ViewSee(o) \in Value
<1>1. db[o] \in Value
  BY DEF Local
<1>2. TipSee(o) \in Value
  BY <1>1, SeeType DEF Local, TipSee
<1> QED BY <1>1, <1>2, SeeType DEF Local, ViewSee

\* Empty caches are truthful.
LEMMA InitLocal == Init => Local
<1> SUFFICES ASSUME Init PROVE Local
  OBVIOUS
<1>1. tip \in [Outpoint -> Slot] /\ view \in [Outpoint -> Slot]
  BY DEF Init, NoEntry, Slot
<1>2. \A o \in Outpoint : tip[o] = None /\ view[o] = None
  BY DEF Init, NoEntry
<1> QED BY <1>1, <1>2, NoneGood DEF Local, Init

-----------------------------------------------------------------------------
(* The steps *)

\* A step on one outpoint that leaves the answer of CoinsTip() alone.
LEMMA OneOutpoint ==
  ASSUME Local, NEW o \in Outpoint, NEW t, NEW v,
         Good(t, db[o]), See(t, db[o]) = TipSee(o), Good(v, TipSee(o)),
         tip' = [tip EXCEPT ![o] = t], view' = [view EXCEPT ![o] = v],
         db' = db
  PROVE  /\ Local'
         /\ TipCoins' = TipCoins
         /\ ViewCoins' = [ViewCoins EXCEPT ![o] = See(v, TipSee(o))]
<1>1. t \in Slot /\ v \in Slot
  BY DEF Good
<1>2. /\ tip' \in [Outpoint -> Slot] /\ tip'[o] = t
      /\ \A x \in Outpoint : x # o => tip'[x] = tip[x]
  BY <1>1 DEF Local
<1>3. /\ view' \in [Outpoint -> Slot] /\ view'[o] = v
      /\ \A x \in Outpoint : x # o => view'[x] = view[x]
  BY <1>1 DEF Local
<1>4. \A x \in Outpoint : TipSee(x)' = TipSee(x)
  BY <1>2 DEF TipSee
<1>5. \A x \in Outpoint :
        ViewSee(x)' = IF x = o THEN See(v, TipSee(o)) ELSE ViewSee(x)
  BY <1>3, <1>4 DEF ViewSee
<1>6. \A x \in Outpoint : Good(tip'[x], db'[x]) /\ Good(view'[x], TipSee(x)')
  BY <1>2, <1>3, <1>4 DEF Local
<1>7. Local'
  BY <1>2, <1>3, <1>6 DEF Local
<1>8. TipCoins' = [x \in Outpoint |-> TipSee(x)']
      /\ ViewCoins' = [x \in Outpoint |-> ViewSee(x)']
  BY DEF TipCoins, ViewCoins, Lookup, TipSee, ViewSee, See
<1> QED BY <1>4, <1>5, <1>7, <1>8, Answers

\* Writing back an entry changes nothing.
LEMMA SameEntry ==
  ASSUME Local, NEW o \in Outpoint
  PROVE  /\ Good(tip[o], db[o]) /\ Good(view[o], TipSee(o))
         /\ See(tip[o], db[o]) = TipSee(o) /\ See(view[o], TipSee(o)) = ViewSee(o)
         /\ tip = [tip EXCEPT ![o] = tip[o]]
         /\ view = [view EXCEPT ![o] = view[o]]
         /\ TipCoins[o] = TipSee(o) /\ ViewCoins[o] = ViewSee(o)
         /\ ViewCoins = [ViewCoins EXCEPT ![o] = ViewSee(o)]
         /\ db[o] \in Value /\ TipSee(o) \in Value /\ ViewSee(o) \in Value
<1>1. /\ tip = [tip EXCEPT ![o] = tip[o]]
      /\ view = [view EXCEPT ![o] = view[o]]
  BY DEF Local
<1>2. TipCoins[o] = TipSee(o) /\ ViewCoins[o] = ViewSee(o)
  BY Answers
<1>3. ViewCoins = [ViewCoins EXCEPT ![o] = ViewSee(o)]
  BY Answers
<1> QED BY <1>1, <1>2, <1>3, SeeTypes DEF Local, TipSee, ViewSee

\* A lookup through the view fetches into CoinsTip() what the view lacks.
TipFetched(o) == IF view[o] = None THEN Fetched(tip[o], db[o]) ELSE tip[o]

\* Such a fetch keeps CoinsTip() truthful and its answer.
LEMMA TipFetchedGood ==
  ASSUME Local, NEW o \in Outpoint
  PROVE  Good(TipFetched(o), db[o]) /\ See(TipFetched(o), db[o]) = TipSee(o)
BY SameEntry, FetchedGood DEF TipFetched

\* A lookup in CoinsTip() changes no answer.
LEMMA FetchTipStep ==
  ASSUME Local, NEW o \in Outpoint, FetchTip(o)
  PROVE  Local' /\ db' = db /\ TipCoins' = TipCoins /\ ViewCoins' = ViewCoins
<1> DEFINE t == Fetched(tip[o], db[o])
<1>1. Good(t, db[o]) /\ See(t, db[o]) = TipSee(o)
  BY SameEntry, FetchedGood
<1>2. tip' = [tip EXCEPT ![o] = t] /\ db' = db /\ view' = [view EXCEPT ![o] = view[o]]
  BY SameEntry DEF FetchTip
<1> HIDE DEF t
<1>9. /\ Local' /\ TipCoins' = TipCoins
      /\ ViewCoins' = [ViewCoins EXCEPT ![o] = See(view[o], TipSee(o))]
  BY <1>1, <1>2, SameEntry, OneOutpoint
<1>10. ViewCoins = [ViewCoins EXCEPT ![o] = See(view[o], TipSee(o))]
  BY SameEntry
<1> QED BY <1>2, <1>9, <1>10

\* A lookup in the view changes no answer.
LEMMA FetchViewStep ==
  ASSUME Local, NEW o \in Outpoint, FetchView(o)
  PROVE  Local' /\ db' = db /\ TipCoins' = TipCoins /\ ViewCoins' = ViewCoins
<1> DEFINE v == Fetched(view[o], TipSee(o))
<1>1. Good(v, TipSee(o)) /\ See(v, TipSee(o)) = ViewSee(o)
  BY SameEntry, FetchedGood
<1>2. view' = [view EXCEPT ![o] = v] /\ db' = db
  BY SameEntry DEF FetchView
<1>3. tip' = [tip EXCEPT ![o] = TipFetched(o)]
  BY DEF FetchView, TipFetched
<1> HIDE DEF v
<1>9. /\ Local' /\ TipCoins' = TipCoins
      /\ ViewCoins' = [ViewCoins EXCEPT ![o] = See(v, TipSee(o))]
  BY <1>1, <1>2, <1>3, TipFetchedGood, OneOutpoint
<1>10. ViewCoins = [ViewCoins EXCEPT ![o] = See(v, TipSee(o))]
  BY <1>1, SameEntry
<1> QED BY <1>2, <1>9, <1>10

\* Uncache changes no answer.
LEMMA UncacheStep ==
  ASSUME Local, NEW o \in Outpoint, Uncache(o)
  PROVE  Local' /\ db' = db /\ TipCoins' = TipCoins /\ ViewCoins' = ViewCoins
<1>1. Good(None, db[o]) /\ See(None, db[o]) = db[o]
  BY NoneGood
<1>2. TipSee(o) = db[o]
  BY SameEntry DEF Uncache, Good, See
<1>3. tip' = [tip EXCEPT ![o] = None] /\ db' = db /\ view' = [view EXCEPT ![o] = view[o]]
  BY SameEntry DEF Uncache
<1>4. Good(view[o], TipSee(o)) /\ See(None, db[o]) = TipSee(o)
  BY <1>1, <1>2, SameEntry
<1>9. /\ Local' /\ TipCoins' = TipCoins
      /\ ViewCoins' = [ViewCoins EXCEPT ![o] = See(view[o], TipSee(o))]
  BY <1>1, <1>3, <1>4, OneOutpoint
<1>10. ViewCoins = [ViewCoins EXCEPT ![o] = See(view[o], TipSee(o))]
  BY SameEntry
<1> QED BY <1>3, <1>9, <1>10

\* AddCoin changes one answer of the view.
LEMMA AddCoinStep ==
  ASSUME Local, NEW o \in Outpoint, NEW c \in Coin, NEW ow \in BOOLEAN,
         AddCoin(o, c, ow)
  PROVE  /\ Local' /\ db' = db /\ TipCoins' = TipCoins
         /\ ViewCoins' = [ViewCoins EXCEPT ![o] = c]
<1> DEFINE v == Added(view[o], c, ow)
<1>1. ow \/ See(view[o], TipSee(o)) = Spent
  BY SameEntry DEF AddCoin
<1>2. Good(v, TipSee(o)) /\ See(v, TipSee(o)) = c
  BY <1>1, SameEntry, AddedGood
<1>3. view' = [view EXCEPT ![o] = v] /\ db' = db /\ tip' = [tip EXCEPT ![o] = tip[o]]
  BY SameEntry DEF AddCoin
<1> HIDE DEF v
<1>4. Good(tip[o], db[o]) /\ See(tip[o], db[o]) = TipSee(o)
  BY SameEntry
<1>5. /\ Local' /\ TipCoins' = TipCoins
      /\ ViewCoins' = [ViewCoins EXCEPT ![o] = See(v, TipSee(o))]
  BY <1>2, <1>3, <1>4, OneOutpoint
<1> QED BY <1>2, <1>3, <1>5

\* SpendCoin leaves one coin spent in the view, and nothing else.
LEMMA SpendCoinStep ==
  ASSUME Local, NEW o \in Outpoint, SpendCoin(o)
  PROVE  /\ Local' /\ db' = db /\ TipCoins' = TipCoins
         /\ ViewCoins' = [ViewCoins EXCEPT ![o] = Spent]
<1> DEFINE e == Fetched(view[o], TipSee(o))
           v == IF e = None THEN None ELSE Removed(e)
<1>1. Good(e, TipSee(o))
  BY SameEntry, FetchedGood
<1>2. e = None => TipSee(o) = Spent
  <2>1. TipSee(o) # Spent => Clean(TipSee(o)) \in Entry
    BY SameEntry DEF Clean, Entry
  <2> QED BY <2>1, CoinAssumption DEF Fetched
<1>3. /\ view' = [view EXCEPT ![o] = v] /\ db' = db
      /\ tip' = [tip EXCEPT ![o] = TipFetched(o)]
  BY SameEntry DEF SpendCoin, TipFetched
<1> HIDE DEF e
<1>4. Good(v, TipSee(o)) /\ See(v, TipSee(o)) = Spent
  BY <1>1, <1>2, SameEntry, NoneGood, RemovedGood
<1> HIDE DEF v
<1> QED BY <1>3, <1>4, SameEntry, TipFetchedGood, OneOutpoint

\* An empty view answers what CoinsTip() answers.
LEMMA EmptyView ==
  ASSUME view = NoEntry, NEW o \in Outpoint
  PROVE  view[o] = None /\ ViewSee(o) = TipSee(o)
BY DEF NoEntry, ViewSee, See

\* The primed answers, outpoint by outpoint.
LEMMA AnswersNext ==
  /\ TipCoins' = [o \in Outpoint |-> TipSee(o)']
  /\ ViewCoins' = [o \in Outpoint |-> ViewSee(o)']
BY DEF TipCoins, ViewCoins, Lookup, TipSee, ViewSee, See

\* A step that leaves the view empty.
LEMMA EmptyViewStep ==
  ASSUME Local, view' = NoEntry,
         db' \in [Outpoint -> Value], tip' \in [Outpoint -> Slot],
         \A o \in Outpoint : Good(tip'[o], db'[o])
  PROVE  Local' /\ ViewCoins' = TipCoins'
<1>1. view' \in [Outpoint -> Slot] /\ \A o \in Outpoint : view'[o] = None
  BY DEF NoEntry, Slot
<1>2. \A o \in Outpoint : Good(view'[o], TipSee(o)') /\ ViewSee(o)' = TipSee(o)'
  BY <1>1, NoneGood DEF ViewSee
<1>3. Local'
  BY <1>1, <1>2 DEF Local
<1> QED BY <1>2, <1>3, AnswersNext

\* Flush of the view gives CoinsTip() the answers of the view.
LEMMA FlushViewStep ==
  ASSUME Local, FlushView
  PROVE  /\ Local' /\ db' = db
         /\ TipCoins' = ViewCoins /\ ViewCoins' = ViewCoins
<1>1. \A o \in Outpoint :
        /\ Good(Merged(view[o], tip[o]), db[o])
        /\ See(Merged(view[o], tip[o]), db[o]) = ViewSee(o)
  BY SeeTypes, MergedGood DEF Local, TipSee, ViewSee
<1>2. \A o \in Outpoint : tip'[o] = Merged(view[o], tip[o])
  BY DEF FlushView
<1>3. tip' \in [Outpoint -> Slot]
  BY <1>1 DEF FlushView, Good
<1>4. db' = db /\ view' = NoEntry /\ db' \in [Outpoint -> Value]
  BY DEF FlushView, Local
<1>5. Local' /\ ViewCoins' = TipCoins'
  BY <1>1, <1>2, <1>3, <1>4, EmptyViewStep
<1>6. \A o \in Outpoint : TipSee(o)' = ViewSee(o)
  BY <1>1, <1>2, <1>4 DEF TipSee
<1>7. TipCoins' = ViewCoins
  BY <1>6, Answers, AnswersNext
<1> QED BY <1>4, <1>5, <1>7

\* Dropping the view forgets its changes and nothing else.
LEMMA DropViewStep ==
  ASSUME Local, DropView
  PROVE  /\ Local' /\ db' = db
         /\ TipCoins' = TipCoins /\ ViewCoins' = TipCoins
<1>1. db' = db /\ tip' = tip /\ view' = NoEntry
  BY DEF DropView
<1>2. Local' /\ ViewCoins' = TipCoins'
  BY <1>1, EmptyViewStep DEF Local
<1>3. TipCoins' = TipCoins
  BY <1>1 DEF TipCoins, Lookup
<1> QED BY <1>1, <1>2, <1>3

\* Flush and Sync of CoinsTip() leave the database with the answers.
LEMMA WrittenStep ==
  ASSUME Local, db' = [o \in Outpoint |-> Written(tip[o], db[o])]
  PROVE  /\ db' \in [Outpoint -> Value] /\ db' = TipCoins
         /\ \A o \in Outpoint : db'[o] = TipSee(o)
<1>1. \A o \in Outpoint : Written(tip[o], db[o]) = TipSee(o)
  BY SeeTypes, WrittenSee DEF Local, TipSee
<1>2. \A o \in Outpoint : TipSee(o) \in Value
  BY SeeTypes
<1> QED BY <1>1, <1>2, Answers

\* Flush of CoinsTip() stores its answers, and they stay.
LEMMA FlushStep ==
  ASSUME Local, Flush
  PROVE  /\ Local' /\ db' = TipCoins
         /\ TipCoins' = TipCoins /\ ViewCoins' = ViewCoins
<1>1. /\ db' \in [Outpoint -> Value] /\ db' = TipCoins
      /\ \A o \in Outpoint : db'[o] = TipSee(o)
  BY WrittenStep DEF Flush
<1>2. tip' \in [Outpoint -> Slot] /\ \A o \in Outpoint : tip'[o] = None
  BY DEF Flush, NoEntry, Slot
<1>3. view' = NoEntry /\ view = NoEntry
  BY DEF Flush
<1>4. Local' /\ ViewCoins' = TipCoins'
  BY <1>1, <1>2, <1>3, NoneGood, EmptyViewStep
<1>5. \A o \in Outpoint : TipSee(o)' = TipSee(o) /\ ViewSee(o) = TipSee(o)
  BY <1>1, <1>2, <1>3, EmptyView DEF TipSee, See
<1> QED BY <1>1, <1>4, <1>5, Answers, AnswersNext

\* Sync of CoinsTip() stores its answers, and they stay.
LEMMA SyncStep ==
  ASSUME Local, Sync
  PROVE  /\ Local' /\ db' = TipCoins
         /\ TipCoins' = TipCoins /\ ViewCoins' = ViewCoins
<1>1. /\ db' \in [Outpoint -> Value] /\ db' = TipCoins
      /\ \A o \in Outpoint : db'[o] = TipSee(o)
  BY WrittenStep DEF Sync
<1>2. \A o \in Outpoint :
        /\ Good(Synced(tip[o]), TipSee(o))
        /\ See(Synced(tip[o]), TipSee(o)) = TipSee(o)
  BY SeeTypes, SyncedGood DEF Local, TipSee
<1>3. /\ tip' \in [Outpoint -> Slot]
      /\ \A o \in Outpoint : tip'[o] = Synced(tip[o])
  BY <1>2 DEF Sync, Good
<1>4. view' = NoEntry /\ view = NoEntry
  BY DEF Sync
<1>5. Local' /\ ViewCoins' = TipCoins'
  BY <1>1, <1>2, <1>3, <1>4, EmptyViewStep
<1>6. \A o \in Outpoint : TipSee(o)' = TipSee(o) /\ ViewSee(o) = TipSee(o)
  <2>1. \A o \in Outpoint : TipSee(o)' = See(tip'[o], db'[o])
    BY DEF TipSee
  <2> QED BY <1>1, <1>2, <1>3, <1>4, <2>1, EmptyView
<1> QED BY <1>1, <1>5, <1>6, Answers, AnswersNext

-----------------------------------------------------------------------------
(* The theorems *)

\* One step keeps Local and is a step of the plain maps, or none.
LEMMA NextStep ==
  ASSUME Local, [Next]_vars
  PROVE  Local' /\ [Plain!Next]_(Plain!vars)
<1>1. CASE UNCHANGED vars
  <2>1. db' = db /\ tip' = tip /\ view' = view
    BY <1>1 DEF vars
  <2>2. TipCoins' = TipCoins /\ ViewCoins' = ViewCoins
    BY <2>1 DEF TipCoins, ViewCoins, Lookup
  <2>3. Local'
    BY <2>1 DEF Local, TipSee
  <2> QED BY <2>1, <2>2, <2>3 DEF Plain!vars
<1>2. CASE \E o \in Outpoint : FetchTip(o) \/ FetchView(o) \/ Uncache(o)
  BY <1>2, FetchTipStep, FetchViewStep, UncacheStep DEF Plain!vars
<1>3. CASE \E o \in Outpoint : SpendCoin(o)
  <2>1. PICK o \in Outpoint : SpendCoin(o)
    BY <1>3
  <2>2. Local' /\ Plain!Put(o, Spent)
    BY <2>1, SpendCoinStep DEF Plain!Put
  <2>3. Spent \in Plain!Value
    BY DEF Plain!Value
  <2> QED BY <2>2, <2>3 DEF Plain!Next
<1>4. CASE \E o \in Outpoint, c \in Coin, ow \in BOOLEAN : AddCoin(o, c, ow)
  <2>1. PICK o \in Outpoint, c \in Coin, ow \in BOOLEAN : AddCoin(o, c, ow)
    BY <1>4
  <2>2. Local' /\ Plain!Put(o, c)
    BY <2>1, AddCoinStep DEF Plain!Put
  <2>3. c \in Plain!Value
    BY DEF Plain!Value
  <2> QED BY <2>2, <2>3 DEF Plain!Next
<1>5. CASE FlushView
  BY <1>5, FlushViewStep DEF Plain!Next, Plain!Commit
<1>6. CASE DropView
  BY <1>6, DropViewStep DEF Plain!Next, Plain!Discard
<1>7. CASE Flush
  BY <1>7, FlushStep DEF Plain!Next, Plain!Store
<1>8. CASE Sync
  BY <1>8, SyncStep DEF Plain!Next, Plain!Store
<1> QED BY <1>1, <1>2, <1>3, <1>4, <1>5, <1>6, <1>7, <1>8 DEF Next

\* Local holds at every moment.
LEMMA AlwaysLocal == Spec => []Local
<1>1. Local /\ [Next]_vars => Local'
  BY NextStep
<1> QED BY <1>1, InitLocal, PTL DEF Spec

\* The DIRTY and FRESH flags of CoinsTip() and of the view of a block are
\* truthful after any sequence of coins operations.
THEOREM FlagsAlwaysTruthful == Spec => []FlagsTruthful
BY AlwaysLocal, LocalFlags, PTL

\* BatchWrite never finds a FRESH coin that exists in the parent cache.
THEOREM FreshNeverMisapplied == Spec => []FreshNotMisapplied
<1>1. Local => FreshNotMisapplied
  BY DEF Local, FreshNotMisapplied, Good, TipSee, See
<1> QED BY <1>1, AlwaysLocal, PTL

\* The assertions of CCoinsViewCache::SanityCheck on the flags never fail.
THEOREM SanityCheckHolds == Spec => []SanityCheck
<1>1. Local => SanityCheck
  <2> SUFFICES ASSUME Local, NEW cache \in {tip, view}, NEW o \in Outpoint,
                      cache[o] # None
               PROVE  /\ ~(cache[o].coin # Spent /\ ~cache[o].dirty /\ cache[o].fresh)
                      /\ ~(cache[o].coin = Spent /\ ~cache[o].dirty /\ ~cache[o].fresh)
                      /\ ~(cache[o].coin = Spent /\ cache[o].dirty /\ cache[o].fresh)
    BY DEF SanityCheck
  <2>1. PICK b : Good(cache[o], b)
    BY DEF Local
  <2> QED BY <2>1 DEF Good
<1> QED BY <1>1, AlwaysLocal, PTL

\* The stack of caches implements three plain maps: caching, flushing,
\* syncing and uncaching never change what a view answers.
THEOREM CachesRefine == Spec => CachesInvisible
<1>1. Init => Plain!Init
  <2> SUFFICES ASSUME Init PROVE Plain!Init
    OBVIOUS
  <2>1. \A o \in Outpoint : tip[o] = None /\ view[o] = None
    BY DEF Init, NoEntry
  <2>2. \A o \in Outpoint : TipSee(o) = db[o] /\ ViewSee(o) = db[o]
    BY <2>1 DEF TipSee, ViewSee, See
  <2>3. TipCoins = db /\ ViewCoins = db
    BY <2>2, Answers DEF Init
  <2> QED BY <2>3 DEF Init, Plain!Init, Plain!Value, Value
<1>2. Local /\ [Next]_vars => [Plain!Next]_(Plain!vars)
  BY NextStep
<1> QED BY <1>1, <1>2, AlwaysLocal, PTL DEF Spec, CachesInvisible, Plain!Spec

\* Every operation has its whole effect on the answers of the layers, and a
\* spend, an addition or a flush is never lost to a flag.
THEOREM OperationsAreExact == Spec => OperationsExact
<1>1. Local => Exact
  <2> SUFFICES ASSUME Local PROVE Exact
    OBVIOUS
  <2>1. \A o \in Outpoint :
          SpendCoin(o) => ViewCoins' = [ViewCoins EXCEPT ![o] = Spent]
    BY SpendCoinStep
  <2>2. \A o \in Outpoint : \A c \in Coin, ow \in BOOLEAN :
          AddCoin(o, c, ow) => ViewCoins' = [ViewCoins EXCEPT ![o] = c]
    BY AddCoinStep
  <2>3. FlushView => TipCoins' = ViewCoins
    BY FlushViewStep
  <2>4. DropView => ViewCoins' = TipCoins
    BY DropViewStep
  <2>5. Flush \/ Sync => db' = TipCoins
    BY FlushStep, SyncStep
  <2> QED BY <2>1, <2>2, <2>3, <2>4, <2>5 DEF Exact
<1> QED BY <1>1, AlwaysLocal, PTL DEF OperationsExact

=============================================================================
