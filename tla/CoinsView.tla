------------------------------ MODULE CoinsView ------------------------------
(***************************************************************************)
(* What the coins views of src/src/coins.h promise their callers, without  *)
(* any cache: three maps from outpoints to coins.  stored is the coins     *)
(* database, utxo the set of unspent outputs at the tip of the active      *)
(* chain (what CoinsTip() answers), and work the copy of it on which one   *)
(* block is being connected or disconnected (the CCoinsViewCache of        *)
(* ConnectTip and DisconnectTip).  A spent or missing coin is Spent.       *)
(***************************************************************************)
CONSTANTS Outpoint, Coin, Spent

VARIABLES stored, utxo, work

Value == Coin \cup {Spent}

Init ==
  /\ stored \in [Outpoint -> Value]
  /\ utxo = stored
  /\ work = stored

\* A coin is added, replaced or spent in the working copy.
Put(o, v) ==
  /\ work' = [work EXCEPT ![o] = v]
  /\ UNCHANGED <<stored, utxo>>

\* The working copy becomes the state of the tip, all at once.
Commit ==
  /\ utxo' = work
  /\ UNCHANGED <<stored, work>>

\* The working copy is dropped: the block was not valid.
Discard ==
  /\ work' = utxo
  /\ UNCHANGED <<stored, utxo>>

\* The state of the tip becomes the stored one.
Store ==
  /\ stored' = utxo
  /\ UNCHANGED <<utxo, work>>

Next ==
  \/ \E o \in Outpoint, v \in Value : Put(o, v)
  \/ Commit \/ Discard \/ Store

vars == <<stored, utxo, work>>

Spec == Init /\ [][Next]_vars

=============================================================================
