----------------------------- MODULE CoinsCache -----------------------------
(***************************************************************************)
(* The stack of coins views (coins.cpp, txdb.cpp): the chainstate database, *)
(* pcoinsTip on top of it, and the view ConnectTip, DisconnectTip or        *)
(* TestBlockValidity puts on top of that.  A cache entry is DIRTY if it may *)
(* differ from the view below, FRESH if the view below has no unspent       *)
(* outputs there, and an entry that is FRESH and spent is forgotten.        *)
(*                                                                          *)
(* Every operation runs under cs_main.  A CCoinsModifier lives for one      *)
(* statement: taking it, the change and its destructor are one step.  The   *)
(* outputs of a transaction are one value, Pruned when none is left.        *)
(***************************************************************************)
CONSTANTS
    Txids, Unspent,     \* transactions; outputs a transaction may have left
    Pruned, Missing,    \* no output left; no row in the database
    Blocks, NoHash      \* block hashes; uint256()

ASSUME CoinsConstants ==
    /\ Pruned \notin Unspent /\ Missing \notin Unspent /\ Pruned # Missing
    /\ NoHash \notin Blocks

VARIABLES
    db,         \* CCoinsViewDB: rows and DB_BEST_BLOCK
    tip,        \* pcoinsTip: cacheCoins and hashBlock
    child,      \* the view on top of it
    open        \* does it exist?

coinVars == <<db, tip, child, open>>

Outputs == Unspent \cup {Pruned}
Entry == [here : BOOLEAN, coins : Outputs, dirty : BOOLEAN, fresh : BOOLEAN]
View == [cache : [Txids -> Entry], best : Blocks \cup {NoHash}]

NoEntry == [here |-> FALSE, coins |-> Pruned, dirty |-> FALSE, fresh |-> FALSE]
NoCache == [t \in Txids |-> NoEntry]

\* What a caller reads through each view.
InDb(t) == IF db.coins[t] = Missing THEN Pruned ELSE db.coins[t]
InTip(t) == IF tip.cache[t].here THEN tip.cache[t].coins ELSE InDb(t)
InChild(t) == IF child.cache[t].here THEN child.cache[t].coins ELSE InTip(t)

\* GetBestBlock: the own hash, or the one below.
TipBest == IF tip.best = NoHash THEN db.best ELSE tip.best
ChildBest == IF child.best = NoHash THEN TipBest ELSE child.best

CoinsInit ==
    /\ db = [coins |-> [t \in Txids |-> Missing], best |-> NoHash]
    /\ tip = [cache |-> NoCache, best |-> NoHash]
    /\ child = [cache |-> NoCache, best |-> NoHash]
    /\ open = FALSE
-----------------------------------------------------------------------------
(* FetchCoins.                                                              *)

\* An entry as the view below has it; an empty one is fresh.
Copied(c) == [here |-> TRUE, coins |-> c, dirty |-> FALSE, fresh |-> c = Pruned]

TipFetched(t) ==
    IF tip.cache[t].here \/ db.coins[t] = Missing THEN tip.cache
    ELSE [tip.cache EXCEPT ![t] = Copied(db.coins[t])]

\* The child asks the tip, which keeps what it had to read.
TipAsked(t) == IF child.cache[t].here THEN tip.cache ELSE TipFetched(t)

ChildFetched(t) ==
    IF child.cache[t].here \/ ~TipFetched(t)[t].here THEN child.cache
    ELSE [child.cache EXCEPT ![t] = Copied(TipFetched(t)[t].coins)]

\* A reader of pcoinsTip: the mempool, RPC.
AccessTip(t) ==
    /\ ~open
    /\ tip' = [tip EXCEPT !.cache = TipFetched(t)]
    /\ UNCHANGED <<db, child, open>>

AccessChild(t) ==
    /\ open
    /\ tip' = [tip EXCEPT !.cache = TipAsked(t)]
    /\ child' = [child EXCEPT !.cache = ChildFetched(t)]
    /\ UNCHANGED <<db, open>>

Unmodified(e) == e.here     \* slip: a changed entry is dropped too
Clean(e) == e.here /\ ~e.dirty /\ ~e.fresh

Uncache(t) ==
    /\ ~open
    /\ Clean(tip.cache[t])
    /\ tip' = [tip EXCEPT !.cache[t] = NoEntry]
    /\ UNCHANGED <<db, child, open>>
-----------------------------------------------------------------------------
(* A block is connected or disconnected.                                    *)

\* The view, and the best block both functions assert about first.
BeginView ==
    /\ ~open /\ open' = TRUE
    /\ tip' = [tip EXCEPT !.best = TipBest]
    /\ child' = [cache |-> NoCache, best |-> TipBest]
    /\ UNCHANGED db

\* ~CCoinsModifier
Cleaned(e) == IF e.fresh /\ e.coins = Pruned THEN NoEntry ELSE e

\* ModifyCoins and what is done through the modifier: outputs spent, restored
\* or removed.
ModifiedEntry(t, v) ==
    LET e == ChildFetched(t)[t]
    IN  Cleaned([here |-> TRUE, coins |-> v, dirty |-> TRUE, fresh |-> e.fresh \/ ~e.here])

ModifyCoins(t, v) ==
    /\ open
    /\ tip' = [tip EXCEPT !.cache = TipAsked(t)]
    /\ child' = [child EXCEPT !.cache[t] = ModifiedEntry(t, v)]
    /\ UNCHANGED <<db, open>>

\* ModifyNewCoins does not ask the view below.
NewEntry(t, v, coinbase) ==
    LET e == child.cache[t]
    IN  Cleaned([here |-> TRUE, coins |-> v, dirty |-> TRUE,
                 fresh |-> e.fresh \/ (~coinbase /\ ~e.dirty)])

\* BIP30: a block's transactions do not overwrite unspent outputs.  A duplicate
\* coinbase may, where ConnectBlock leaves the check to BIP34.
ModifyNewCoins(t, v, coinbase) ==
    /\ open
    /\ coinbase \/ InChild(t) = Pruned
    /\ child' = [child EXCEPT !.cache[t] = NewEntry(t, v, coinbase)]
    /\ UNCHANGED <<db, tip, open>>

\* BatchWrite of a child's entry c over the tip's entry p.
MergedKeepsFresh(c, p) ==           \* slip: FRESH is copied to an entry that exists
    IF ~c.dirty THEN p
    ELSE IF ~p.here THEN Cleaned([here |-> TRUE, coins |-> c.coins, dirty |-> TRUE, fresh |-> c.fresh])
    ELSE Cleaned([p EXCEPT !.coins = c.coins, !.dirty = TRUE, !.fresh = p.fresh \/ c.fresh])

Merged(c, p) ==
    IF ~c.dirty THEN p
    ELSE IF ~p.here THEN Cleaned([here |-> TRUE, coins |-> c.coins, dirty |-> TRUE, fresh |-> c.fresh])
    ELSE Cleaned([p EXCEPT !.coins = c.coins, !.dirty = TRUE])

\* SetBestBlock ends ConnectBlock and DisconnectBlock; Flush follows.
FlushView(b) ==
    /\ open /\ open' = FALSE
    /\ tip' = [cache |-> [t \in Txids |-> Merged(child.cache[t], tip.cache[t])], best |-> b]
    /\ child' = [cache |-> NoCache, best |-> NoHash]
    /\ UNCHANGED db

\* The block is invalid, or was only tested: the view is destroyed.
DropView ==
    /\ open /\ open' = FALSE
    /\ child' = [cache |-> NoCache, best |-> NoHash]
    /\ UNCHANGED <<db, tip>>
-----------------------------------------------------------------------------
(* The database.                                                            *)

\* CCoinsViewDB::BatchWrite of an entry over a row.
Written(e, row) ==
    IF ~e.dirty THEN row ELSE IF e.coins = Pruned THEN Missing ELSE e.coins

FlushTip ==
    /\ ~open
    /\ db' = [coins |-> [t \in Txids |-> Written(tip.cache[t], db.coins[t])],
              best |-> IF tip.best = NoHash THEN db.best ELSE tip.best]
    /\ tip' = [tip EXCEPT !.cache = NoCache]
    /\ UNCHANGED <<child, open>>

\* The process dies; LoadBlockIndexDB reads the best block through pcoinsTip.
Restart ==
    /\ tip' = [cache |-> NoCache, best |-> db.best]
    /\ child' = [cache |-> NoCache, best |-> NoHash]
    /\ open' = FALSE
    /\ UNCHANGED db

CoinsNext ==
    \/ \E t \in Txids : AccessTip(t) \/ AccessChild(t) \/ Uncache(t)
    \/ \E t \in Txids, v \in Outputs :
        \/ ModifyCoins(t, v)
        \/ \E coinbase \in BOOLEAN : ModifyNewCoins(t, v, coinbase)
    \/ \E b \in Blocks : FlushView(b)
    \/ BeginView \/ DropView \/ FlushTip \/ Restart

CoinsSpec == CoinsInit /\ [][CoinsNext]_coinVars
-----------------------------------------------------------------------------
(* Properties.                                                              *)

\* Type correctness.  No row of the database is a spent transaction: CCoins
\* serialization asserts that.
CoinsTypeOK ==
    /\ db \in [coins : [Txids -> Unspent \cup {Missing}], best : Blocks \cup {NoHash}]
    /\ tip \in View /\ child \in View /\ open \in BOOLEAN

\* FRESH is never misapplied: below a fresh entry nothing is unspent, so that
\* forgetting it loses nothing and BatchWrite's logic_error is never thrown.
FreshSound ==
    \A t \in Txids :
        /\ tip.cache[t].fresh => InDb(t) = Pruned
        /\ child.cache[t].fresh => InTip(t) = Pruned

\* An entry that is not DIRTY is what the view below says, so that leaving it
\* out of a flush loses nothing either.
CleanIsCopy ==
    \A t \in Txids :
        /\ tip.cache[t].here /\ ~tip.cache[t].dirty => tip.cache[t].coins = InDb(t)
        /\ child.cache[t].here /\ ~child.cache[t].dirty => child.cache[t].coins = InTip(t)

\* The flags of every entry mean what a flush takes them to mean.
FlagsSound == CoinsTypeOK /\ FreshSound /\ CleanIsCopy

\* The caches are invisible: the views behave like plain maps that are copied,
\* written, kept, dropped, saved and restored as a whole.
Store == INSTANCE CoinsStore WITH
    saved <- [coins |-> [t \in Txids |-> InDb(t)], best |-> db.best],
    current <- [coins |-> [t \in Txids |-> InTip(t)], best |-> TipBest],
    scratch <- IF open THEN [coins |-> [t \in Txids |-> InChild(t)], best |-> ChildBest]
               ELSE [coins |-> [t \in Txids |-> Pruned], best |-> NoHash]
ImplementsStore == Store!Spec
=============================================================================
