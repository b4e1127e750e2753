--------------------------- MODULE UsdsoqRestart ---------------------------
(***************************************************************************)
(* UsdsoqChain on a node that can die.  The asset rows are written to       *)
(* LevelDB at the moment the globals change (db.Write in txdb.cpp); the     *)
(* UTXO set and the best block stay in the cache pcoinsTip until            *)
(* FlushStateToDisk writes them in one batch.  A process that dies at any   *)
(* point of any block operation starts again from the flushed chain and     *)
(* coins, and from the asset rows as they were when it died (AppInitMain).  *)
(* Nothing relates the two.                                                 *)
(***************************************************************************)
EXTENDS UsdsoqChain

VARIABLES
    diskChain,  \* the chain below DB_BEST_BLOCK
    diskCoins,  \* DB_COINS
    touched,    \* ghost: asset rows were written since the last flush
    lost        \* ghost: the node has died while touched

disk == <<diskChain, diskCoins>>
rvars == <<vars, disk, touched, lost>>

RInit ==
    /\ Init
    /\ diskChain = chain /\ diskCoins = coins
    /\ touched = FALSE /\ lost = FALSE

\* A step of a block operation; the disk copy of the chain does not move.
BlockStep ==
    /\ Next
    /\ touched' = (touched \/ asset' # asset)
    /\ UNCHANGED <<disk, lost>>

\* FlushStateToDisk with fDoFullFlush, or the flush of an orderly Shutdown:
\* coins and best block in one batch.
FlushWithoutCoins ==        \* slip: the best block is written, the coins are not
    /\ pc = "idle"
    /\ diskChain' = chain /\ touched' = FALSE
    /\ UNCHANGED <<vars, diskCoins, lost>>

Flush ==
    /\ pc = "idle"
    /\ diskChain' = chain /\ diskCoins' = coins
    /\ touched' = FALSE
    /\ UNCHANGED <<vars, lost>>

\* The process dies and AppInitMain runs: the tip is the block of the coins
\* database, the cache is empty, the asset globals are read back from their
\* rows.  Blocks above the tip are still on disk and may be connected again.
RestartEmptyAssets ==       \* slip: the supply row is not read back
    /\ chain' = diskChain /\ coins' = diskCoins
    /\ supply' = NewSupply /\ UNCHANGED <<authOutpoint, frozen>>
    /\ pc' = "idle" /\ job' = <<>>
    /\ lost' = (lost \/ touched) /\ touched' = FALSE
    /\ UNCHANGED <<disk, plain>>

CrashRestart ==
    /\ chain' = diskChain /\ coins' = diskCoins
    /\ UNCHANGED asset
    /\ pc' = "idle" /\ job' = <<>>
    /\ lost' = (lost \/ touched) /\ touched' = FALSE
    /\ UNCHANGED <<disk, plain>>

RNext == BlockStep \/ Flush \/ CrashRestart

RSpec == RInit /\ [][RNext]_rvars
-----------------------------------------------------------------------------
(* The UTXO set that connecting the blocks one after the other gives.       *)

ConnectedCoins(blk, view) ==
    LET r[k \in 0..Len(blk)] == IF k = 0 THEN view ELSE Spend(blk[k], r[k - 1])
    IN  r[Len(blk)]

CoinsOf(blocks) ==
    LET r[h \in 0..Len(blocks)] ==
            IF h = 0 THEN GenesisCoins ELSE ConnectedCoins(blocks[h], r[h - 1])
    IN  r[Len(blocks)]

\* Between block operations, however often the node has died, the UTXO set is
\* the one of the active chain, and the flushed one of the flushed chain.
CoinsAreReplay ==
    /\ pc = "idle" => coins = CoinsOf(chain)
    /\ diskCoins = CoinsOf(diskChain)

\* A node that only ever died with no asset row written since the last flush
\* has, between block operations, the asset state of its active chain.  Excepted
\* are blocks that are not plain, as for AssetsAreReplay.
AssetsSurviveQuietCrash ==
    ~lost => SupplyIsReplay /\ OutpointIsReplay /\ FrozenIsReplay
=============================================================================
