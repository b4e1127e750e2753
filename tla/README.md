# Verification of the soqucoin node

soqucoin is a full node derived from Dogecoin Core.  Its own additions are
post-quantum signatures, two native assets beside the native coin (USDSOQ, a
fiat-backed asset with one issuing authority, and BTCSOQ, a bridged asset),
witness compaction of block files, and merged mining.  This directory holds TLA+
models of the parts of the node that keep state, the TLC runs that check them
and TLAPS proofs.  `PROJECT.json` lists every component, run, hazard, finding and
theorem, and maps every definition to the lines it models.

## 1. Inventory

| Component | State | Operations | What is hard | What makes it correct |
|---|---|---|---|---|
| Asset supply counters (`consensus/usdsoq.cpp`, `btcsoq.cpp`) | minted, burned | Mint, Burn, UndoMint, UndoBurn | ceilings; the order of two reversals | counter sane after any sequence of calls |
| USDSOQ consensus (`validation.cpp`) | supply, authority outpoint, frozen set; pending copies in ConnectBlock | ConnectBlock, DisconnectBlock, TestBlockValidity, VerifyDB | two passes, commit after the script verdict, field by field reversal, dry runs, height gates | asset state is a function of the active chain |
| BTCSOQ consensus (`validation.cpp`) | supply, outpoint, frozen set, minted deposits | as above | deposit replay in one block, across blocks and reorganisations | a deposit is minted at most once |
| Asset persistence and restart (`init.cpp`, `txdb.cpp`) | LevelDB rows, memory copies | FlushStateToDisk, load at start | asset rows are written through, coins and blocks later | after a restart assets still match the chain |
| Chain selection (`validation.cpp`) | block index, candidate set, failure flags, tip | AcceptBlock, ActivateBestChain, InvalidateBlock, ReconsiderBlock | missing data, failed descendants, pruning of candidates | tip has most work among valid candidates |
| Script check queue (`checkqueue.h`) | queue, counters, verdict | Add, Loop of master and workers | lost wake-ups, a late failure | the master sees the verdict of all checks and always returns |
| Witness compaction (`validation.cpp`) | block files, index positions | rewrite, swap, update of the index | a crash between two steps | every index entry reads its own block |
| Versionbits (`versionbits.cpp`) | cached threshold state | GetStateFor | period boundaries, cache | state agrees with its definition; final states stay |
| Merged mining (`auxpow.cpp`) | none | check | header uniqueness, index | one parent block pays one chain once |
| PAT attestation (`consensus/pat_attestation.cpp`) | commitment of a block | check, create | presence rules | miner's block passes the check |
| Mempool (`txmempool.cpp`) | entries, ancestors, descendants, spent map | add, remove, reorganisation | cached sums | cached sums equal recomputation |
| Coins cache (`coins.cpp`) | dirty and fresh flags | fetch, modify, batch write | stacks of views | a stack behaves as one map |
| Transaction requests (`txrequest.cpp`) | announcements | received, requested, expired | peers that vanish | one request in flight |
| Scheduler (`scheduler.cpp`) | task queue, stop flags, pending callbacks | schedule, serviceQueue, stop, AddToProcessQueue, EmptyQueue | waits with the mutex released, interruption, draining | callbacks run once, in order, one at a time; threads end |
| Validation interface (`validationinterface.cpp`) | list of interfaces with reference counts | Register, Unregister, Clear, Iterate | entries leave during a dispatch | no iterator dangles, nobody registered is missed |
| Mining RPCs (`rpc/mining.cpp`, `rpc/auxpow.cpp`, `init.cpp`) | locks, catchers, watched tips, shutdown phase | submitblock, submitauxblock, createauxblock, getblocktemplate, Shutdown | four locks, two condition variables, objects on stacks | calls return and shutdown ends but for two known cycles of waiting, a verdict reaches the call that waits for it |
| Address manager, network, wallet, RPC | - | - | - | see `components` in PROJECT.json |

**How they interact.**  ActivateBestChainStep calls DisconnectTip and ConnectTip
under `cs_main`; these call DisconnectBlock and ConnectBlock with a scratch view
over `pcoinsTip`.  ConnectBlock hands its scripts to the check queue and waits for the
verdict (`control.Wait`).  The mempool and the miner read the same asset globals;
the miner calls TestBlockValidity, a ConnectBlock that must not commit.  At start
VerifyDB disconnects, and at check level 4 reconnects, the last blocks in a
scratch view.  ActivateBestChain announces blocks and tips through the validation
interface; submitblock and the message thread both drive it and meet at `cs_main`.  The
scheduler thread runs callbacks and the compaction passes, which
share the block files and the index with everybody who stores or flushes blocks.

## 2. Plan

Done, in this order:

1. `AssetSupply`, `AssetTxs`: the counters, and what the asset code reads off a transaction.
2. `UsdsoqChain`: the USDSOQ state under block operations; all five properties of its run proved.
3. `UsdsoqRestart`: extends 2 with flushes and process death; all properties of its run proved.
4. `BtcsoqChain`: the BTCSOQ state; all four properties of its run proved.
5. `CheckVerdict`, `CheckQueue`: the verdict of the script checks, as a sequential
   controller and as threads; the implementation proved, its liveness model-checked.
6. `WitnessCompaction`: block files, index and compaction passes, with failing writes and death; that
   index, database and files fit together proved.
7. `CoinsStore`, `CoinsCache`: plain maps, and the stack of cached views; the implementation proved.
8. `ChainSelection`: the block index, the candidates and the loop that follows the best chain; its invariants
   proved where no operator call and no pruning intervenes, and the ones that survive those proved with them.
9. `TxRequestRules`, `TxRequest`: who may be asked for a transaction, and the tracker with its
   callers; the implementation proved.
10. `Scheduler`, `MainSignals`: tasks and callbacks, dispatch to interfaces; the order of callbacks and the reference counts proved.
11. `MiningRpc`: composes 10 with block processing, the mining calls and shutdown; what it promises of verdicts, interfaces and tips, proved.

Open:

- the asset rules of the mempool against those of ConnectBlock, and its ancestor bookkeeping;
- BTCSOQ rows in the restart model: a death after a disconnection has erased a deposit
  row, before the lower tip was flushed;
- the exceptions that section 6 lists, to be narrowed as the code is.

## 3. Modules

### AssetSupply

The arithmetic of `CUSDSOQSupply`.  An operation that can refuse is a guard `CanX` and a
function `X` that returns its argument when the guard fails.

### AssetTxs

USDSOQ and BTCSOQ run twin code.  Transactions are members of `Txs`; their inputs, outputs,
output classes and values are constants, and an outpoint names one output of one
transaction for ever.  The module holds the value rules of `CheckTxInputs`, the minted and
burned amounts of a transaction, UpdateCoins and its reversal, and the applying and
reversing of a block's delta on a counter.  Sums of amounts are the community modules' `SumFunction` and
`SumFunctionOnSet`.  `OneMarker` and `OneDirection` say of a transaction that it creates one marker at most, of a
block that it does not both mint and burn.

### UsdsoqChain

One activation of a block operation at a time (`cs_main`): `pc` says where it is, `job` holds
its locals.

| Variable | Code |
|---|---|
| `chain`, `coins` | `chainActive` above genesis, `pcoinsTip` |
| `supply`, `authOutpoint`, `frozen` | `g_usdsoq_supply`, `g_usdsoq_authority_outpoint`, the frozen rows of `pcoinsdbview`; memory and LevelDB are written together |
| `job` | the locals of ConnectBlock (view, local outpoint, frozen overlay, pending operations, deltas, pending supply) or of DisconnectBlock (view, fClean) |

| Actions | Code |
|---|---|
| `BeginConnect`, `ConnectInputs`, `InputsDone` | callers' setup and the first loop of ConnectBlock (CheckInputs, UpdateCoins) |
| `ConnectAsset`, `CheckSupply` | the asset loop: authority, freeze operation, marker and frozen guards, supply deltas; then the delta on a copy |
| `ScriptsPass`, `Reject` | `control.Wait()`; every early return |
| `CommitOutpoint`, `CommitFreezeOp`, `CommitSupply`, `ConnectTip` | the commit point, field by field, then the view flush and new tip |
| `BeginDisconnect`, `UndoSupply`, `UndoOutpoint`, `UndoFreezeOp`, `DisconnectTip` | DisconnectBlock and its caller |
| `VerifyDisconnect`, `VerifyReconnect` | the two passes of VerifyDB |

What is abstracted:

- only transparent USDSOQ; no confidential outputs, no BTCSOQ, no coinbase
  transaction (it cannot carry assets), inputs of one transaction are distinct;
- the authority keyset is loaded (`usdsoqsetauthority` on testnet and regtest, `chainparams.cpp` on
  stagenet); `Unwitnessed[t]` are the inputs whose witness is empty, and whether the signatures in the
  witness of the marker's input verify is `AuthoritySigned`.  If that input has no witness neither branch of
  `validation.cpp:4155-4214` is taken: nothing is verified, the tracker stays, the operation is applied
  (`AuthorityOK`, `Advances`);
- memory and LevelDB agree, so the guard that refuses to bootstrap while LevelDB
  holds an outpoint never fires; the bootstrap's look for an authority input in
  the view never finds one, because the first pass has spent all inputs;
- the script verdict is a free choice;
- writing undo data and indexes after the commit point may fail in the code and
  stops the node; that is a crash, left to the restart module.

`ReplayTxs`, `ReplayBlock` and `ReplayChain` are the reference: the asset state computed from a chain, as
recursive functions.  `RulesFromGenesis` (heights of at most 1: regtest and testnet; section 6 for stagenet, and
mainnet has not scheduled the asset) is what the theorems on reorganisations assume.  `Plain(b)` says of a block that it does not mint and burn, nor freeze
and thaw one outpoint, that none of its transactions creates two markers, and that marker inputs have a witness.  ConnectBlock enforces
none of it.  The history variable `plain` is true as long as every block that passed the commit point was plain, and the properties
that need it name it (`Settled`); blocks that are refused, templates included, need not be plain.

`MCUsdsoq` gives a universe of 13 transactions, of which all blocks of one or two are offered, and asserts `RulesFromGenesis` (`TheoremsApply`).

### UsdsoqRestart

Extends `UsdsoqChain` with the flushed chain and coins (`diskChain`, `diskCoins`).  The asset rows need
no second copy: the code writes them when it changes the globals, and reads them back
at start.  `Flush` is FlushStateToDisk (one LevelDB batch); `CrashRestart` may happen at every step,
inside a block operation too.  It models the death of the process, not of the machine:
what LevelDB was given survives.  `touched` and `lost` are history variables for the property.
`CoinsOf` recomputes the coins of a chain from genesis.

### BtcsoqChain

| Variable | Code |
|---|---|
| `chain`, `coins`, `supply`, `authOutpoint`, `frozen` | as for USDSOQ, with the BTCSOQ globals and rows |
| `mintedDeposits` | the DB_BTCSOQ_MINTED rows |
| `job` | ConnectBlock: view, local outpoint, frozen overlay, deposits and freezes pending, deltas; DisconnectBlock: view, fClean |

| Actions | Code |
|---|---|
| `BeginConnect` | the callers' setup and the first pass of ConnectBlock (CheckInputs, UpdateCoins) |
| `ConnectAsset`, `CheckSupply` | the BTCSOQ loop: marker and frozen guards, authority, the operation and what it declares; then the delta on a copy |
| `ScriptsPass`, `Reject` | `control.Wait()` and the gates before it; every early return |
| `CommitDeposit`, `DepositsDone`, `CommitFreezeOp`, `CommitOutpoint`, `CommitSupply`, `ConnectTip` | the commit point, one row at a time |
| `UndoSupply`, `UndoOutpoint`, `UndoRegistry`, `DisconnectTip` | DisconnectBlock and its caller |

`Op[t]` is the parsed OP_RETURN of an authority transaction.  Abstracted: the authority key set is
initialised; `Witness[t]` stands for the equality of the witness tag with the signed one and for
M-of-N valid signatures; the recipient commitment is a boolean; the gates between the
supply check and `control.Wait()` can only refuse the block, which `Reject` does at "scripts"; VerifyDB
is left to `UsdsoqChain`, whose code path is the same.  `RulesFromGenesis` holds on every network of `chainparams.cpp` that
schedules the deployment; `PlainBlocks` says that every block is `OneWay`, as `Plain` for USDSOQ but for the witness, which BTCSOQ requires (`:4973`).
`MCBtcsoq` asserts both for `btcsoq_reorg`.

### CheckQueue and CheckVerdict

`CheckVerdict` is what a `CCheckQueueControl` promises: open, collect checks, ask, be told whether
all of them succeed, close.  `CheckQueue` has the threads.  A critical section under the queue's
mutex is one step, which ends where the thread returns, sleeps or leaves with a batch:

| Actions | Code |
|---|---|
| `Begin`, `Add`, `CallWait`, `End` | constructor, Add, Wait (or the destructor's), destructor of the controller |
| `LoopReturn`, `LoopWait`, `LoopTake` | the three ways out of a critical section of Loop, merge of the previous batch included |
| `Run` | the evaluation outside the mutex |
| `SpuriousWake`, `Interrupt` | boost: a wait ends without notification; `interrupt_all` at shutdown makes it throw |

The queue is a set (its order does not matter, as a comment there says); `nNow` is the size of
`batch[t]`; `fQuit` is never set in the code.  A notified thread stays "woken" until it has the mutex.
An interruption reaches a boost thread once; a worker ends by it, the import thread unwinds
into the controller's destructor, which waits again.  If it was already the
destructor's Wait that threw, the process ends, which is left out.  The refinement maps the owner to
the holder of `ControlMutex` and the phase (`Phase`) to the place where that master is.

### WitnessCompaction

Blocks are appended to `blk` files and their undo data to `rev` files of the same number; the index
(`index`, `info`, `last`) says where, and `disk` is its copy in the database.  A `rev` name points to an inode, since a
pass gives the undo file a second name by a hard link.

| Actions | Code |
|---|---|
| `AcceptBlockHeader`, `AcceptBlock`, `LeaveInitialDownload` | header and block arrive; FindBlockPos, the removal of a stray file under a new number |
| `BeginActivate`, `DisconnectTip`, `ConnectTip` | a reorganisation, `cs_main` held throughout |
| `WriteIndex`, `WriteCoins` | the two writes of FlushStateToDisk, in their order |
| `BeginPass`, `Sweep`, `Reserve`, `Rewrite`, `LinkUndo`, `Commit`, `PassWritesIndex`, `PassWritesCoins`, `DeleteBlk`, `DeleteRev`, `EndPass` | CompactWitnessFiles, which releases `cs_main` between most of them |
| `CrashRestart` | the process dies at any step and loads what is on disk |

A variable `setting`, chosen by Init among `Settings` and then constant, says what a start finds and what
the node will meet, so that one run covers several situations: a node that dies, one
whose writes fail, one that leaves its initial download, one with a fork, and two with a rival chain whose headers fork off below the
horizon.  `overlooked` is a history variable: a pass began while a header chain with more work than the tip forked off below the horizon
and was not behind the best header, the only one the code asks about (`HeadersSettled`).  Abstractions: positions
count blocks; process death, not power loss; an unreadable block ends a pass, and is no step where
the node stops; a header without data has file number 0, as in the code.  Of the durable
reservation of a number and the removal of stray files each alone would suffice for `ReadsResolve`;
the code has both.  A death between the two deletions of a sweep leaves only a `rev` name, which
`Leftover` does not count.  `NoGap` says of a setting that above the append file no number is free below one in use; the theorem assumes it (section 5),
`MCWitnessCompaction` asserts it.

### CoinsStore and CoinsCache

`CoinsStore` has three plain maps: saved, current and a scratch copy that is committed or dropped.  `CoinsCache` has the
database, `pcoinsTip` and one view on top, each with DIRTY and FRESH flags and a cached best block.

| Actions | Code |
|---|---|
| `AccessTip`, `AccessChild`, `Uncache` | FetchCoins through one or two caches; Uncache |
| `BeginView`, `ModifyCoins`, `ModifyNewCoins` | a view is made; a modifier and its destructor |
| `FlushView`, `DropView` | BatchWrite into the view below, or destruction |
| `FlushTip`, `Restart` | BatchWrite into LevelDB; the caches are lost |

A transaction's outputs are one value, `Pruned` when all are spent.  The guard of `ModifyNewCoins` is ConnectBlock's BIP30
test, which only a duplicate coinbase escapes.

### ChainSelection

| Variable | Code |
|---|---|
| `idx`, `linked`, `seq`, `nextSeq` | the entries of `mapBlockIndex`: flags, `nChainTx`, `nSequenceId` |
| `cand`, `pairs`, `failedSet` | `setBlockIndexCandidates`; how many copies of a block's pair `mapBlocksUnlinked`, a multimap, has (`unlinked`: at least one); `gFailedBlocks` |
| `tip`, `thr`, `sec` | `chainActive.Tip()`; each thread's `pindexMostWork`; who holds `cs_main` inside ActivateBestChain |
| `dirty`, `disk` | `setDirtyBlockIndex`; the index database and the coins' best block |
| `fault` | the assert that failed, or why the node stopped |

| Actions | Code |
|---|---|
| `AcceptBlockHeader`, `ProcessNewBlock` | headers, blocks, the cascade of ReceivedBlockTransactions |
| `EnterRound`, `FindMostWorkChain`, `DisconnectTip`, `ConnectTip`, `ConnectTipFails` | ActivateBestChain, its steps and its release of `cs_main` |
| `InvalidateBlock`, `ReconsiderBlock`, `PreciousBlock` | the three RPCs |
| `WriteIndex`, `FlushAll`, `PruneOneBlockFile`, `Restart` | flushes, pruning, LoadBlockIndexDB |

A block whose header is unknown arrives as `AcceptBlockHeader` and then `ProcessNewBlock`.  `Addr` is the order of the entries' addresses,
the last tie-break.  A cascade visits a block once for every copy of its pair and the last visit numbers it (`Visits`, `Numberings`); the order inside a level is free,
which allows more than the code's.  When a member of the candidates is renumbered in place, the model orders the set by the new ids; what `std::set` does with a
broken order is not modelled.  The disconnections of
InvalidateBlock are one step.  Each pruned block has a file of its own.  Left out: a block still in memory when it is connected,
fork warnings, `pindexBestInvalid`, blocks that may be corrupted in transit, and invalidation back to a
pruned height (288 blocks at least).  A block received while its parent is failed does not enter
`mapBlocksUnlinked`, in the code and in the model, and is not found again after reconsiderblock.
`ChainAssumption` asks for a finite tree in which every block descends from Genesis, which is received and valid.

### TxRequestRules and TxRequest

`TxRequestRules` states who may be asked: an announcement waits, is a candidate, is requested or has failed; at most one request
per transaction is open; among the candidates whose time has come the one with the highest priority is asked.
`TxRequest` has the tracker's five states and the selection it keeps up to date, and every caller in
`net_processing.cpp`.

| Actions | Code |
|---|---|
| `InitializeNode`, `FinalizeNode` | a peer comes and goes; a NodeId is not used again |
| `InvMessage`, `NotFound`, `TxAccepted`, `TxOrphan`, `TxRefused` | messages of a peer |
| `NewTip`, `Submitted`, `Evicted` | blocks, the wallet, the mempool's limits |
| `SendMessages`, `TimePassed`, `NoMorePassed`, `Demoted`, `GetRequestable`, `GetData`, `Sent` | SetTimePoint's two loops, the answer, and its use entry by entry, all under `cs_main` (`send`) |
| `Tick`, `ClockBack` | time, which may be set back |

Times are relative to the clock and clamped at `-MaxBack`; the per-peer counts are computed; the sequence
number, which only orders the requests inside one answer, is left out; a transaction has one unknown parent
at most; the guards for blocks-only mode, initial download and import are left out.

### Scheduler

`taskQueue` holds tasks with the time still to wait; a service thread is awake, waits, waits for a time, or runs a task
or a callback.  `Interrupt` is the thread group's interruption, `stop` the two ways of `CScheduler::stop`.
AddToProcessQueue, ProcessQueue and EmptyQueue are SingleThreadedSchedulerClient.  A callback that is itself
interrupted is left out; getQueueInfo and CallbacksPending only read.  `setting` is the node (one thread, a periodic task,
interrupted at shutdown) or a pool of two threads that is stopped or drained.  `SchedulerConstants` says that a pool that is drained
has threads and is not interrupted: `stop(true)` is called by `test/scheduler_tests.cpp:100` on a running pool and nowhere else, and an
interrupted thread leaves whatever is queued.

### MainSignals

A list of entries with counts, a map from interfaces to entries, and walks (`Iterate`) that stand on an entry while
the mutex is released for the call.  `due` is a history variable.  A nested dispatch is another walk.
Callers never register what is registered (line 52 assigns the count), which the guard says.

### MiningRpc

Extends `MainSignals` and `Scheduler`, whose actions are conjuncts of its steps (`MiningConstants` ties their constants to the calls), and adds the locks `cs_main`, `cs_blocktemplate`, `cs_auxpowrpc`, `csBestBlock`.

| Actions | Code |
|---|---|
| `Broadcast`, `BroadcastDone` | the message thread walks the list without a block: Broadcast in SendMessages (`net_processing.cpp:3129`), SyncTransaction of a transaction (`validation.cpp:1699`), both under `cs_main` |
| `NetBlock`, `AcceptBlock`, `BlockRefused`, `ActivateBestChain`, `ConnectTip`, `UpdatedBlockTip`, `TipNotified` | ProcessNewBlock for whichever thread runs it |
| `SubmitCalled` to `Return`, `AuxLock`, `AuxUnknown` | submitblock and submitauxblock |
| `CreateCalled`, `CreateBlock`, `TemplateCalled`, `Longpoll...`, `Recache`, `MakeTemplate` | createauxblock, getblocktemplate with longpoll |
| `SchedulerThread` | the steps of the scheduler thread |
| `InterruptNode`, `JoinAll`, `StopRPC`, `StopHTTPServer`, `DropPeerLogic`, `StopNet`, `FlushBackgroundCallbacks` | shutdown, in the order of the code |

`scene`, chosen by Init among `Scenes`, says which calls there are, which blocks fail ConnectBlock and whether the node is stopped.  The chain is a line of at most
two blocks (what happens with more is `ChainSelection`'s); one call per worker.  Left out: the other dispatches of threads that the model has, which also walk the list and
change nothing else here, SetBestChain (`validation.cpp:5851`), NewPoWValidBlock (`:7647`), SyncTransaction of a block's transactions (`:6384`, `:6693`) and UpdatedTransaction
(`:5737`); those of calls that it does not have, ScriptForMining (`rpc/auxpow.cpp:269`, `rpc/mining.cpp:221`) and sendrawtransaction's; the template's contents, proposal mode and
`generate`.  ShutdownRequested and Interrupt are one step.

## 4. Runs

| Run | Question | Result |
|---|---|---|
| `usdsoq_reorg` | does the asset state stay what a replay of the active chain gives, and agree with the coins, through rejected blocks, templates, VerifyDB at level 4 and reorganisations? does authority never fork? | holds, 407 010 states |
| `usdsoq_restart` | after a death at any step, are coins and chain in agreement, and the assets right if no row was written since the last flush? | holds, 1 104 255 states |
| `btcsoq_reorg` | is a deposit minted once, every unit backed by a deposit whose release is not signed, and are tracker and freezes live? | holds, 5 788 states |
| `btcsoq_refused_undo` | the first of these for a block that mints and burns | violated: the tip stays, its deposit row is erased |
| `check_queue` | is the verdict exact, does nothing run on after it, does it always come, do the threads implement `CheckVerdict`? | holds, 191 204 states |
| `witness` | does every index entry, in memory and on disk, read its own block at every instant of a compaction; are discarded witnesses never needed, but for the two exceptions; are leftovers swept? | holds, 95 491 states |
| `coins_cache` | do the flags mean what a flush takes them to mean, and does the stack of views behave like plain maps? | holds, 32 211 states |
| `chain` | is the tip the best valid chain when all is quiet, are index and candidates consistent in between, does ActivateBestChain end, does no assert fail? | holds, 298 870 states |
| `txrequest` | does the tracker ask whom the rules allow, stay sane, and forget everything in the end? | holds, 116 432 states |
| `scheduler` | do callbacks run once, in order, one at a time; do the threads end? | holds, 156 106 states |
| `main_signals` | are reference counts exact and is nobody missed while interfaces come and go? | holds, 13 187 states |
| `mining` | does a mining call return with its verdict, does a longpoll wake, does shutdown end, but for the two cycles of waiting the properties name? | holds, 28 789 states |

An invariant of a run may be the conjunction of named parts (`IndexConsistent`, `QueueOrderly`, `AssetsMatchCoins`...), each with its
own comment.  Where a property has an exception, its comment names it and section 6 says what
happens there.

**Bounds.**  `MaxHeight` 5 admits bootstrap, mint, freeze, thaw and a transfer or burn in
one chain and any reorganisation of it (4 with restarts, 3 where one block suffices); blocks of one
or two transactions give every pair that depends on each other inside a block.  `MaxMoney` 3 lets one
USDSOQ mint of 2 pass and a second one meet the ceiling; 5 lets two BTCSOQ mints of 2 pass and a
third one meet it; the mint without a witness is of 1, so that VerifyDB's second one passes.  `CheckDepth` 1 is the depth at which level 4 can succeed for blocks without
authority transactions.  The blocks of `usdsoq_reorg` are all of one or two transactions; those of `usdsoq_restart` include two
that are not plain; those of `btcsoq_reorg` (`SimpleBlocks`) do not both mint and burn, for which there is `btcsoq_refused_undo`.
`check_queue`: a batch is the queue's length divided by `nTotal + nIdle + 1`, so four checks are the fewest
from which a thread takes two; two workers and a master give a merge in every order; sessions
repeat without bound.  Its master is the import thread, the one master that can be interrupted.
`witness`: files of two blocks, a horizon of one and up to five blocks fill two files, one of which is final, while
a third block is appended; the reindexed layouts put the append pointer behind a populated file.  One death
per behaviour: what it leaves is what a second one would find.  Its two chains that part at genesis have four blocks each, so that the fork is below the horizon and a1's file may be stripped;
`Rivals` has the rival's header arrive before or after the initial download ends, `Hidden` has both headers known, which is where `WitnessesNotNeeded` needs its second exception.  `coins_cache`: two transactions, two values and two
blocks; the hardest case (create, flush, spend, flush, create, spend, flush) needs one of each.  `chain`: one block against a
branch of three, or two against three; `MaxSeq` 8 sequence ids are more than there are arrivals, `MaxPairs` 1 ends the operator's calls once a pair is there twice, `MaxPrecious` 1 is enough to turn a tie.  Nine
settings; in `Racing`, `Torn`, `Refetch` and `Falling` the exceptions of the properties are met, on smaller trees.  Pruning together with deaths has too many states for the run.  `txrequest`:
two transactions, one the parent of the other, and two peers, one preferred and whitelisted, the other always
overloaded and at its cap with one announcement; more peers and changing load are covered by the proofs, which fix
none of these.  `scheduler`: three callbacks, so that one is added while one runs and one waits; two tasks for two threads.  `main_signals`: three
interfaces, two dispatches and five registrations, enough to remove and register again the entry a walk stands
on.  `mining`: nine scenes of one to four processes each, in four of which the node is stopped; one longpoll, since a notification wakes all that wait; blocks 1 and 2, and beside the message thread either of them
invalid: with only the second invalid, the exception `VerdictFound` names never shows.

**Fairness.**  The asset modules, `CoinsCache` and `MainSignals` state safety only.

- `CheckQueue!Spec`: weak fairness of `Loop` and `Run` of each thread (a thread that can run does, and the mutex
  starves nobody; a check is a computation that ends) and of `CallWait` (ConnectBlock's loops over a block end, or it
  returns early and the destructor waits).  Spurious wake-ups, interruptions and the opening of a session are never assumed.
- `WitnessCompaction!Spec`: the scheduler runs a pass again and again (init.cpp schedules it) and its steps end; strong fairness
  where a step needs `cs_main`, which is granted in the end to a thread that keeps asking.  Deaths are bounded, blocks need not come.
- `ChainSelection!Spec`: strong fairness of each thread inside ActivateBestChain, which needs `cs_main` again in every round.
- `TxRequest!RequestsFairSpec`: SendMessages is called for every connected peer again and again (ThreadMessageHandler), its inner loops
  run on, and time passes.  That peers answer is not assumed; `EverythingForgotten` asks that the clock is set back
  only finitely often.
- `Scheduler!FairSpec`: weak fairness of each service thread, of time, and of EmptyQueue once the threads have ended.
- `MiningRpc!MiningFairSpec`: a call goes on if it can again and again (locks are granted in the end, timed waits time
  out); the scheduler thread and shutdown go on.  No call need be made.

Deadlock is checked except in `chain`, `scheduler` and `mining`, where a node that has processed everything, failed an assert or
stopped takes no further step.

## 5. Proofs

All theorems hold for every value of the constants that satisfies the named assumptions: any number of
transactions, blocks, threads, peers, any amounts, heights and behaviours of any length.

### Assets

**`SupplySafe`** (`UsdsoqChain_proofs`): `Spec => [](TypeOK /\ SupplySane)`.  `SupplySane` is not inductive: the
commit point copies `job.pendingSupply`, computed many steps before.  The inductive invariant is
`SafeInv` = `TypeOK` /\ `SupplySane` /\ `PendingSane` (the pending counter is sane from the moment the activation
starts).  Lemmas say that each of the four counter operations preserves `SupplyInvariant`; one step
per action shows preservation of each part.  **`RestartSupplySafe`** (same module, on `UsdsoqRestart`) is the same for a node that
dies at any step and restarts with asset rows that do not match its chain.

**`ReorgIsReplay`**, **`ReorgKeepsAssets`**, **`OneLineage`**, **`DryRunsAreDry`** (`UsdsoqChain_proofs`): the other four properties of
`usdsoq_reorg`, each under `RulesFromGenesis` only; what needs plain blocks says so by `plain`, and `OneLineage` is about all blocks.  The inductive invariant `ReorgInv` has three parts.

- `SafeInv`, as above.
- `CoinsInv`: `coins` are what the chain creates less what it spends (`CoinsAt`), the scratch view of the activation is
  `CoinsAt` of its height with the first transactions of the block applied (`ViewAt`), and the chain is `Linear`: every block
  spends only what exists and creates only what never existed.  This part needs neither assumption.
- `AssetInv`: the chain is `Lawful`, that is, of every block and every prefix of its transactions the checks of ConnectBlock hold
  when read off the chain below it: inputs pay for outputs (`Valued`), an authority transaction spends the tracked
  marker and nothing else touches a marker (`Guarded`), freezes and thaws change the registry and frozen coins are not spent
  (`FreezeSound`).  Where the activation stands, each asset global is either still that of the tip, already that of the next
  chain, or half written (`Locals`, `Committing`, `Undoing`); a pass of VerifyDB has nothing pending (`NothingPending`).

`Tracks(view, o)` says that `o` is the only unspent marker, or null if there is none: with it a reversal that looks for "the first
marker input" finds the right one (lemma `Restored`).  `ReversedIs` says that undoing one direction restores the counter;
the same for both directions is false (section 6).  `FreezeDisjoint` is what makes the inversion of the freeze
operations in block order right.  That supply equals the asset value of the coins (`ChainBacked`) is an induction over
transactions and blocks with sums over finite sets.  `VerifyTx` shows that VerifyDB at level 4 refuses every
authority transaction of a block it reconnects, which is why it writes nothing.

**`CrashKeepsCoins`** (`UsdsoqChain_proofs`, on `UsdsoqRestart`): `CoinsAreReplay` without any assumption; the invariant adds to `CoinsInv` that the flushed chain is linear and
its coins are `CoinsAt`.  **`QuietCrashKeepsAssets`**: `AssetsSurviveQuietCrash` under `RulesFromGenesis`; while no asset row was written since the
flush (`~touched`) the globals are also those of the flushed chain, so that a restart finds them right.

**`DepositMintedOnce`**, **`RegistryIsChain`** (`BtcsoqChain_proofs`): `Spec /\ []DisconnectClean => []MintedOnce`, and the same for `DepositsOfChain`, for
all blocks and heights.  `DisconnectClean` says that the counter refuses no reversal; `btcsoq_refused_undo` shows that the
theorems fail without it.  `MintedOnce` needs a long strengthening (`OnceInv`), because a deposit
travels from a transaction to the job, to the registry row by row, to the chain, and back.  Every mint
of the chain has its row unless the row was already erased by the disconnection under way
(`Registered`); every row belongs to such a mint or was written by the commit under way (`Accounted`,
`RowsWritten`); the pending deposits are those of the block's accepted mints (`Collected`), which differ from each
other and from those of the chain (`Distinct`).

**`ReorgsNotRefused`**, **`EverySatoshiBacked`** (`BtcsoqChain_proofs`): `DisconnectClean` and `AssetsMatchCoins` under `RulesFromGenesis` and `PlainBlocks`, with a `ReorgInv` of
the same design.  BTCSOQ adds to what a block `Passes` that every flow is the one its signed operation declares
(`Declared`); the sum of the declared satoshis over the positions of the chain (`SatsOfChain`) is then the sum of the flows.
**`DepositsSafe`** combines them: on such blocks one deposit backs one mint, with no further hypothesis.

`AssetTxs_proofs` holds what both assets share: induction over finite sets and intervals, sums over finite sets, the counter
operations, coins and views along a chain, values, and the tracked marker.

### Other components

**`VerdictSafe`**, **`NothingRuns`**, **`PoolKept`** and **`QueueImplementsVerdict`** (`Transactions_proofs`): the verdict is exact, nothing is left running, the
counters stay in range and no work is left to sleeping threads; every
step of the threads is a step of `CheckVerdict` or stutters.  The invariant `QInv` says who can be where
(`Owner`), that queue and batches are disjoint (`Batches`), that `nTodo` is the number of checks queued or
in a batch (`Count`, stated as the cardinality of their union so that no sum is needed), that outside
a session nothing is pending and the verdict is reset (`Quiet`), that a false flag has a failing check
of this session behind it, and a true `fAllOk` leaves every failing check among the pending ones
(`Blame`), and that a batch evaluated to true is valid (`Judged`).  For `PoolKept`, `PoolInv` keeps `nTotal` and `nIdle`
at least the numbers of threads they stand for, and says who will wake whom.

**`CoinsSafe`** and **`CoinsImplementStore`** (`Transactions_proofs`): `FlagsSound` always holds, and every step of the views is a step of the plain
maps or changes nothing they can see.  The invariant is `TypeOK`, `FreshSound`, `CleanIsCopy` and `Canonical` (an absent entry has
fixed fields, a view that does not exist is empty); `FreshSound` is what makes a merge into the parent drop nothing.

**`TrackerSane`**, **`TrackerTidy`** and **`TrackerImplementsRules`** (`Transactions_proofs`): the source's own sanity checks hold for any peers, hashes, delays and caps,
times stay in range however the clock is set, and whoever is
asked is whom `TxRequestRules` allows.  The invariant adds to the sanity checks what the loop of GetRequestable has
established so far (`SendOK`) and that what is still to be asked is selected and due (`Offered`).

**`CompactionSound`** (`WitnessCompaction_proofs`): `Safety => []FilesSound` for every block tree, file size, horizon, bound on the numbers and every
`Settings` whose members satisfy `NoGap`; `CompactionSoundFair` says it of `Spec`.  `FilesSound` is far from inductive.  The invariant `IInv` adds:

- `Placing`, of the index in memory and of the one in the database: only stored blocks have a place (`Shape`), the counters of a file bound
  the places of its blocks, no two blocks share one and each undo record has an owner (`Placed`), and above the append file there is no gap (`Gapless`).
  That a file has room for one more undo record is a counting argument over `Placed` (lemma `UndoFits`);
- `Behind`: what the database says is stored is stored in memory too, in the same place unless its file was `Retired` by a pass that has not been flushed.
  A retired file is below the append file, which is why no append, truncation or reservation touches what only the database still points at;
- `Names`: a second name of an undo file is below the durable append pointer, its blocks are stripped, and where it has blocks the first name has
  none.  Undo data is therefore never appended through a shared inode (lemma `UndoPlaceFree`);
- `Sweeping`, `Copying`, `Passing`: what a pass knows at each of its steps, although `cs_main` was released in between; `Connecting`: the blocks ActivateBestChainStep is
  heading through are stored.

`NoGap` is needed.  A pass lists orphans under `cs_main` and removes them without it (`validation.cpp:6254-6258`); if a number above the append file is free and
below one in use, FindBlockPos can start to append to it in between, and the sweep then removes a file in use.  With such a setting TLC violates `FilesSound`.
FindBlockPos and the reservation never leave such a number; a reindex does if a file in the middle holds nothing but blocks that other files hold as well.

**`CandidatesAlwaysLinked`**, **`DiskAlwaysConsistent`**, **`ActiveChainAlwaysValid`**, **`FailedBlocksMarked`**, **`AssertsAlwaysHold`**, **`IndexAlwaysConsistent`**, **`TipAlwaysBest`** and
**`CandidatesAlwaysExact`** (`ChainSelection_proofs`), all of `Safety`, for every finite block tree, work, order of addresses, set of invalid blocks and
any finite number of threads; `ChainSelectionFair` says the main ones of `Spec`.  What a setting allows decides what is proved of it:

| Theorem | Setting | Statement |
|---|---|---|
| `CandidatesAlwaysLinked` | any | `TypeOK` and `CandidatesLinked` |
| `DiskAlwaysConsistent` | any; the property excepts invalidateblock | `DiskConsistent` |
| `ActiveChainAlwaysValid` | without invalidateblock | `ActiveChainValid` |
| `FailedBlocksMarked` | without reconsiderblock | AcceptBlockHeader's assert never fails |
| the other four | `Plain`: no operator call, no pruning; any arrivals, invalid blocks, threads, flushes and deaths | `AssertsHold` (and no read of a block fails), `IndexConsistent`, `TipIsBest`, `CandidatesExact` |

The invariant `IInv` (TLC checks it on the trees of the run) has a part for each row.  `Basic`: linked blocks are received and closed under parents, all that is
chosen (tip, candidates, targets) is linked, the disk is behind memory exactly on `dirty`, and whoever holds `cs_main` is where `sec` says.  `Blame`: every flag has an
invalid ancestor as its cause, in memory and on disk, and no block below the tip or the flushed tip is bad.  `Remembered`: a member of `gFailedBlocks` is marked.  In `Plain`
settings, `Flags`: a flagged block that waits for an ancestor has a flagged ancestor that was never received, and nothing else is lost
between index and disk, so that what LoadBlockIndexDB recomputes is enough; `Waits`: a received block is linked exactly if its ancestors are received, and else in
`mapBlocksUnlinked`, once, unless its parent is failed; `Best1`: no candidate is worse than the tip, there is a valid candidate `h` such that every usable linked block is
a candidate or worse than `h`, and a single thread heads for the best candidate.  The witness `h` is what the assert of PruneBlockIndexCandidates rests on: in the middle of
a reorganisation, or after one that failed, the tip itself need not be a candidate.  Chains, work and the comparator are treated in lemmas about the tree (`TreeInduction`, `ChainLinear`,
`WorkGrows`, `WorseOrder`), the recursive functions through `ChainStep` and `WorkStep`.

The hypotheses are needed, and the properties name what happens without them as exceptions; the run meets each of them.  With two threads, one may connect a block that the other
has just invalidated, and the asserts then fail (`Racing`); a death after invalidateblock with only the index written leaves a failed block in the flushed chain (`Torn`); a candidate
set aside again for a pruned block leaves two copies of a pair, and the block's return renumbers a candidate in place (`Refetch`); a pruned tip that invalidateblock has gone back to,
submitted again, falls behind its rivals (`Falling`).  A block that waits below an invalidated one is not always in `mapBlocksUnlinked`, and a
second preciousblock can give a candidate a worse id than it had.

**`ReferencesCounted`** and **`NobodyMissed`** (`Callbacks_proofs`): counts are exact, no iterator or map entry dangles, nobody is missed, for any interfaces,
any finite set of dispatches and any number of registrations.  `Ahead` is the strengthening: an interface still due to a
walk has an entry that the walk has not reached.

**`SchedulerOrderly`** (`Callbacks_proofs`): `Spec => []QueueOrderly` for any number of threads, tasks and callbacks.  The invariant
replaces the counting of `OneProcessQueue` by sets with at most one member (`OneProcessing`), and ties what a thread holds to where it
is (`Kinds`).  `EmptyQueue` never meets a running callback because it waits for the threads (`Joined`).  A single thread that waits for
a time waits for the first task, because every insertion wakes it (`Punctual`): with two threads an insertion may wake the
other one, which is why `CalledAtOrAfter` speaks of one thread.  `Draining` says that nobody leaves a pool that drains
while there is work, and that what is inserted then comes from a thread that still runs.

**`InterfacesAlwaysServed`** (`Mining_proofs`): `MiningSpec => []InterfacesServed` for any calls of the mining RPCs, any scenes and any invalid
blocks; `InterfacesServedFair` says it of `MiningFairSpec`.  **`SchedulerWellUsed`**: what `MiningRpc` does to the scheduler is a behaviour of `Scheduler!Spec`, so that
`QueueOrderly` holds here too.  **`SignalsWellUsed`**: `Referenced` and `NoneMissed` hold with catchers on the stacks of concurrent calls.  The
invariant `MiningInv` takes over the invariants of the two components and adds:

- `Places`: who can be where and with which locks.  A submitter at work holds the lock of its kind, so with `OneProcessor` at most one thread works on blocks;
- `Registrations`: a catcher is registered exactly during its call, peerLogic until Shutdown drops it, by which time no call is open.
  With the exact counts of `MainSignals`, an interface that is gone keeps its entry only for a dispatch that stands on it (`OnlyBesideAnother`, for any threads);
- `Blocks`: the active chain is of accepted blocks that did not fail, and what a thread is about to connect, has connected or refuses;
- `Scheduling`: a callback of SyncWithValidationInterfaceQueue is queued by the call that waits for it.  A call that came back without waiting because the node stops
  is `Stranded`: its callback is never run;
- `Verdicts`: a verdict dispatched while the catcher was registered has been delivered, or a dispatch has still to deliver it (`Pending`);
- `Hearing`: with one thread at work peerLogic knows the tip or will be told it.

`MiningConstants` bounds the chain by two blocks and the message threads by one, as the model does (section 3).  The proof
attempt corrected `VerdictFound`, which the run had passed with block 2 as the only invalid block (section 6, "Mining calls and shutdown").

### Assumptions and limits

`MaxMoneyAssumption`, `TxConstants`, `OutpointsAssumption` (an outpoint is created by one transaction, genesis has no markers and no assets),
`ChainConstants`, `BtcsoqConstants`, `QueueConstants` and the like of the other modules give the shapes of the constants.  TLC
evaluates them on every run, and evaluates `RulesFromGenesis`, and for BTCSOQ `OneWay`, for the universes of the reorganisation
runs.

The library's induction theorems take an operator, which the installed provers cannot instantiate.  Where a proof needs
induction over data it uses forms about a set (`SubsetInduction`, `IntervalInduction`, `IterationExists` in `AssetTxs_proofs`, `Induction` in `WitnessCompaction_proofs`, `LeastNatural` in `ChainSelection_proofs`), proved from
the least element of a set of numbers; recursion is written as recursive functions.

Only model-checked: what `ChainSelection` says of settings with operator calls and pruning, beyond the first four rows of the table above; `WitnessesNotNeeded`; the BTCSOQ properties on blocks outside
`PlainBlocks` and the asset properties below the enforcement heights; and all liveness (`AlwaysAnswers`, the fairness part of `ImplementsVerdict`,
`LeftoversSwept`, `ActivationEnds`, `EverythingForgotten`, `CallbacksRun`, `ThreadsEnd`, `CallsReturn`, `LongpollWakes`, `ShutdownEnds`), because liveness under
fairness and ENABLED are outside the prover.

## 6. Known departures

Places where the code does something else than a comment or document of the repository says.
A property names the case as its exception, and removing it from the property shows the behaviour; where the passing run does not
meet the case, the change that does is given.  `btcsoq_refused_undo` is kept as a run.

**Assets**

- A block that mints and burns BTCSOQ.  `validation.cpp:5058` "Anti-replay: one Bitcoin deposit backs at most one mint, ever."  Its
  disconnection is refused by UndoMint (`btcsoq.cpp:69`), the tip stays, but the tracked outpoint is nulled (`validation.cpp:3195`) and the
  deposit row erased (`:3245`); the deposit is then minted again on top.  Run `btcsoq_refused_undo`.
- A block that mints and burns USDSOQ.  `:2782` "Correct approach: Count the same deltas ConnectBlock counted, then apply the INVERSE operations".
  UndoMint comes before UndoBurn (`:2847-2861`) and is refused; the half-reversed counter is persisted.
  `AssetsAreReplay` without `plain`.
- A block that freezes and unfreezes one outpoint.  `:4392` "Requiring a real state transition makes every op exactly one change, which makes the
  blind inversion exactly right".  The inversions run in block order (`:3026-3061`): the outpoint stays frozen.  `AssetsAreReplay` without `plain`.
- A block below the enforcement height.  `:4088` "Do NOT persist to g_usdsoq_authority_outpoint or LevelDB."  Disconnecting it does (`:2886-2960`).
  `EnforcementHeight = 3`, `AssetsAreReplay`.  Stagenet has such heights (7700 and 54300, `chainparams.cpp:1552`, `:1559`).
- A transaction with two marker outputs.  `:2903` restores the outpoint from the first marker input of the block's first authority transaction,
  ConnectBlock tracks the first marker output only (`:4038-4047`).  The second marker can be spent by an authority transaction
  as well; listed first in its inputs, it is what a disconnection restores.  The proofs assume `OneMarker`.
- An authority transaction whose marker input has an empty witness.  `:4027` "This indicates a MINT, BURN, FREEZE, or ROTATE operation that requires M-of-N authorization."  The signatures are looked at only if the witness is there (`:4155`), the
  other branch only if no input spends the tracked marker (`:4214`): the mint or freeze is applied, nothing is verified, and the tracker stays on the marker just spent.  Whether the
  script of that input lets it pass is `control.Wait()`'s verdict, a free choice here.  `AssetsMatchCoins` without `plain`; VerifyDB at level 4 does not refuse such a block and commits its mint a
  second time (`DryRunTouchesNothing` without `plain`).  The tracker does not move, so `TrackerNeverForks` holds.
- VerifyDB at check level 4.  `:2699` "A verification pass must touch nothing outside its scratch view."  It reconnects (`:8149`) against the asset
  state of the tip, so that a valid authority block is refused (`VerifyReconnects`), and inside the input-enforcement window it commits
  asset state a second time (`InputEnforcementHeight = 9`, `DryRunTouchesNothing`).
- A death after an authority block and before the next full flush.  `validation.h:604` "Persisted to LevelDB for crash recovery."  The outpoint is written
  at once (`:5654`), the coins later (`:5845`): the restored outpoint is not in the restored UTXO set.  `usdsoq_restart` with `TrackerLive`.

**Witness compaction**

- `doc/PAT_WITNESS_PRUNING.md:39` "so an eligible block's witnesses can never again be needed for validation by this node".  The index is written (`:5826`) before
  the coins (`:5845`); after a death between them stripped blocks are above the tip and must be validated again.
  `WitnessesNotNeeded` without `crashes = 0`.
- `:6179` "Durable index flush, then and only then the destructive step."  FlushStateToDisk returns nothing (`:6180`), a failed flush is
  not noticed and the original is deleted.  `ReadsResolve` without `setting.fail`.
- `doc/PAT_WITNESS_PRUNING.md:245` "so a reorg can never need a witness this node has discarded".  The horizon is not enforced on headers during the initial download,
  and a pass asks only about the best header (`:6223`): a second header chain from that time may win later.  Setting `Hidden`, `WitnessesNotNeeded` without `overlooked`.

**Chain selection**

- `:6640` "The result is either failure or an activated best chain."  With two threads one may resume with a `pindexMostWork` that is out of date (`:6664`)
  and leave a worse chain active.  `TipIsBest` without `OneThread`.
- `:6485` "as we know all blocks in it are valid already".  A block invalidated between two holds of `cs_main` is still connected (`:6677`), and the assert
  of PruneBlockIndexCandidates may then fail.  Setting `Racing`, `ActiveChainValid` and `AssertsHold` without their exception.
- `rpc/blockchain.cpp:1494` "Removes invalidity status of a block and its descendants, reconsider them for activation."  A child of the block reconsidered may not become a
  candidate (`:6847`: `TipIsBest` without its exception); the block stays in `gFailedBlocks`, so that a later header fails the assert at `:7550` (`AssertsHold`); a
  sibling of the block stays BLOCK_FAILED_CHILD, against `:8525` "The failed mask cannot be set for blocks without invalid parents."
  (`FailedBelowInvalid`, on a tree in which the invalid block has two children).
- `:6535` "Either the current tip or a successor of it we're working towards is left in setBlockIndexCandidates."  Not after a restart when
  invalidateblock was followed by a write of the index alone.  Setting `Torn`, `AssertsHold` and `DiskConsistent` without their exception.
- `:6507` "If we're missing data, then add back to mapBlocksUnlinked, so that if the block arrives in the future we can try adding to setBlockIndexCandidates again."  Every candidate set aside inserts
  the blocks up to the missing one again, into a multimap; when the block comes, one visited twice is renumbered while it is a member of setBlockIndexCandidates (`:6917-6922`), whose
  order depends on the number.  Setting `Refetch`, `CandidateKeysFixed` without `~idx[b].tx`.
- `consensus/params.h:101` "Reject any block that builds on a fork more than this many blocks below the active tip, i.e. refuse to reorganize deeper than nMaxReorgDepth."
  The depth is looked at when a header arrives (`:7348`): a branch whose headers came while it was shallow is followed at any depth.
- `:8531` "chainActive.Tip() must also be there even if some data has been pruned."  Not between two rounds of a reorganisation that failed half way
  (`:7570` calls CheckBlockIndex from another thread): `CandidatesChecked` whenever `cs_main` is free.

**Scheduler**

- `scheduler.h:45` "Call func at/after time t".  With several threads a timed-out wait takes whatever is first (`scheduler.cpp:60-70`), before
  its time.  `CalledAtOrAfter` without its condition.  The node runs one thread (`init.cpp:1413`).

**Mining calls and shutdown**

- `doc/developer-notes.md:151` "Deadlocks due to inconsistent lock ordering ... are a problem."  submitblock takes `cs_blocktemplate` (`rpc/mining.cpp:854`) and then `cs_main`,
  getblocktemplate `cs_main` (`:451`) and then `cs_blocktemplate` (`:600`).  Scene {s1, g1}, `CallsReturn` without `OppositeOrder`.
- `rpc/mining.cpp:856` "Wait for all validation interface callbacks to complete", `rpc/mining.h:30` "this is now dispatched through the scheduler".  BlockChecked is called
  synchronously by the thread that processes the block, and the message thread walks the list at every SendMessages too; a thread that already stands on the catcher's entry may call it after
  submitblock has returned.  Scenes {s1, s2} and {s1, net}; `OnlyBesideAnother` says that this is the only way.
- `rpc/mining.cpp:856` again: block 1 is invalid, s1 submits block 2, which fails with block 1 and is never connected, so no verdict on it comes.  While s1 waits for the queue,
  the message thread is offered block 2 again and dispatches its refusal; s1 unregisters before the walk reaches its catcher and returns
  "inconclusive".  Scene {s1, net} with block 1 bad, `VerdictFound` without its second disjunct.
- `validationinterface.cpp:83` "Uses reference counting to safely handle concurrent unregistration."  The count keeps the entry, not the interface: Shutdown deletes
  `peerLogic` (`init.cpp:221`) before the message thread is joined.  Scene {net} with a stop, as above.
- `validationinterface.cpp:39` "Single-threaded scheduler client ensures all callbacks happen in-order".  UpdatedBlockTip is called by whichever thread connected the tip,
  after `cs_main` is released (`validation.cpp:6701`).  Scene {s1, net} with no bad block, `TipHeard` without `OneProcessor`.
- `init.cpp:274` "Flush any remaining background callbacks before cleanup".  StopHTTPServer (`:213`) waits for a submitblock that waits for a callback of the
  scheduler thread, already joined (`bitcoind.cpp:56`).  Scenes {s1, g1} and {s1, l1}, `ShutdownEnds` without `JoinedTooEarly`.

## 7. Not modelled

See `components` for all of them.

- Cryptography (lattice proofs, Dilithium), the script interpreter, merged-mining and PAT checks: stateless functions over
  hashes and algebra; their verdicts are free choices or constants of the models.
- Confidential USDSOQ outputs, whose balance is a lattice proof.
- RewindBlockIndex, which disconnects blocks before the asset globals are restored: it depends on witness flags of
  the index that no module has.
- Versionbits, the address manager, the mempool's bookkeeping, wallet, the network layer beyond
  transaction requests, RPC parsing: left for later; the mempool's asset rules come first (section 2).
- Vendored libraries, the GUI and its translations: the `.ts` files under `src/src/qt/locale` are Qt Linguist
  catalogues, XML data that `lrelease` compiles; no TypeScript is in the repository.
- The stratum bridge, the Go solo miner and the genesis snapshot: programs beside the node.
