# A TLA+ model of GameCredits Core

GameCredits is a proof-of-work cryptocurrency node and wallet in C++, a fork of
Bitcoin Core of the 0.11 generation.  The files that are built are those that
`src/src/Makefile.am` lists; the copies of older files that are still at the top of
`src/src/` (`wallet.cpp`, `script.cpp`, `core.cpp`, `db.cpp`, `gamecreditsd.cpp`, ...) are
not compiled and are left out.  Paths below are relative to `src/src/`.

Modelled are the parts that decide which chain a node believes, what it knows about
coins and unconfirmed transactions, what survives a crash, whom it downloads from and
connects to, and which keys its wallet uses.  Each part has a module, TLC runs
and proofs.

## 1. Inventory

### Threads and locks

The message handler (`ThreadMessageHandler`), the RPC threads, the import thread, the
miner, the scheduler and the GUI call into validation.  One recursive lock, `cs_main`,
protects the block index, the coins, the peers' download state and the orphan maps;
`mempool.cs`, `cs_wallet`, `cs_vNodes` and a lock per node protect the rest.  Most
operations are one critical section of `cs_main`; the exceptions matter most:
`ActivateBestChain` gives up the lock between its steps and reads the tip without it,
script checks run on threads that do not hold it while their master does, the fields of
a `CNode` are shared by three threads, and `KeepKey` and the wallet's lock timer do not
take `cs_wallet`.

### Components

| Component | State | Operations | Hard behaviour | What makes it correct |
|---|---|---|---|---|
| Block index and active chain (`main.cpp`) | `mapBlockIndex` with status flags, `nTx`, `nChainTx`, `nSequenceId`; `setBlockIndexCandidates`; `mapBlocksUnlinked`; `chainActive` | headers and blocks arrive, activation, invalidateblock, reconsiderblock, pruning, load | the lock is released in the middle of an activation; blocks in any order; failed reorganisation; restart loses memory-only state | the active chain is valid, the best usable chain is active when all is quiet, candidates are complete and sound |
| Coin views (`coins.cpp`, `txdb.cpp`) | database, `cacheCoins` with DIRTY and FRESH, `hashBlock`, `cachedCoinsUsage`, on two levels | fetch, modify, flush on each level, drop | flags inferred from what a parent had earlier; crash between two flushes | behaves as three plain maps; coins match the best block named |
| Script check queue (`checkqueue.h`) | queue, counters, condition variables | `Add`, `Loop`, control object | lost wakeups, interruption, leftovers of an earlier block | verdict is the conjunction of the block's checks; `Wait` returns |
| Block connection and undo (`main.cpp`, `undo.h`) | undo records | `UpdateCoins`, `ApplyTxInUndo`, `ConnectBlock`, `DisconnectBlock` | partial spends, creation and spend in one block | disconnecting restores exactly the coins before |
| Flushing, block files (`main.cpp`, `txdb.cpp`) | dirty sets, file sizes, `nLastBlockFile` | `FlushStateToDisk`, `FindBlockPos`, `UnlinkPrunedFiles`, load | crash or power loss between any two writes, a write that fails | what the index names on disk exists; the node starts again |
| Mempool (`txmempool.cpp`) | `mapTx`, `mapNextTx`, `totalTxSize` | add, remove with dependants, removal for a block, for conflicts, for immature coinbases | reorganisations take coins away from under chains of transactions | can be mined on the tip, `mapNextTx` exact (the assertions of `check`) |
| Orphan transactions (`main.cpp`) | `mapOrphanTransactions`, `mapOrphanTransactionsByPrev` | add, erase, per peer, limit, recursive acceptance | eviction and disconnection in between | the two maps agree; orphans are resolved when their parents come |
| Peers and block download (`main.cpp`) | `CNodeState`, `mapBlocksInFlight`, stall timers | announce, request, receive, disconnect, time out | late answers, another peer delivers, peer gone | a block is in flight from one peer; counters exact; download does not stop |
| Connections (`net.cpp`) | `vNodes`, `vNodesDisconnected`, reference counts, `semOutbound` | open, accept, read, disconnect, delete | three threads share a node | no use after delete; slots not lost; nodes do go |
| Address manager (`addrman.cpp`) | `mapInfo`, `mapAddr`, `vRandom`, `vvNew`, `vvTried`, counts | Add, Good, GetAddr, save, load | collisions and eviction | the relations of `Check_`; what is saved loads |
| Key pool, encryption, wallet file (`wallet/`) | `mapKeys`, `setKeyPool`, `vMasterKey`, `wallet.dat` | top up, reserve, keep, return, encrypt, lock, unlock, rewrite, load | crash during encryption; keys returned to a replaced pool; timer | no key in use lost; no key handed out twice; no clear key left |
| Proof of work (`pow.cpp`) | none | four retargeting rules by height, compact encoding | wrapping of unsigned differences, clamps | target within limits |
| Scheduler (`scheduler.cpp`) | task queue, thread count, stop flags | schedule, serviceQueue, stop | stop with and without drain | no due task is forgotten |
| Wallet transactions (`wallet/wallet.cpp`) | `mapWallet`, `mapTxSpends` | sync, spend, rescan | conflicts, reorganisations | balances follow the chain |
| Fee estimation, network time, alerts | samples and maps | add, expire | full buffers | bounded, exact bookkeeping |
| RPC/REST/HTTP, GUI, script interpreter, serialisation, crypto, vendored libraries | | | | see `PROJECT.json` |

Calls between them: `ProcessNewBlock` writes the block file, updates the index and calls
`ActivateBestChain`; its steps `ConnectTip` and `DisconnectTip` open a cache on top of
`pcoinsTip`, run `ConnectBlock` (which uses the check queue) or `DisconnectBlock`, flush the
cache, call `FlushStateToDisk`, update the mempool, move the tip and signal the wallet.
Messages of peers reach these through `ProcessMessage`; `FinalizeNode` is called when the
socket thread deletes a node.

The hazards, each at its line and with the properties about it, are in `PROJECT.json`.

## 2. Modules

| Module | Models |
|---|---|
| `ChainState`, `MCChainState`, `ChainStateProofs` | the block index and the active chain |
| `CoinsStore` | abstract: three versions of the coins, each a plain map |
| `CoinsCache`, `MCCoinsCache`, `CoinsCacheProofs` | the database and the two caches with their flags; implements `CoinsStore` |
| `CheckQueue`, `MCCheckQueue`, `CheckQueueProofs` | `CCheckQueue` and `CCheckQueueControl` |
| `FlushState`, `MCFlushState`, `FlushStateProofs` | block files, index and coin database, in the order they are written |
| `BlockUndo` | operators: what a block does to coins, and its undo record |
| `TxPool`, `MCTxPool`, `TxPoolProofs` | mempool and orphans over `BlockUndo`, with blocks connected and disconnected |
| `BlockDownload`, `MCBlockDownload`, `BlockDownloadProofs` | `CNodeState` and blocks in flight |
| `NodeLifecycle`, `MCNodeLifecycle` | `CNode` between the threads of `net.cpp` |
| `AddrMan`, `MCAddrMan` | the address manager and `peers.dat` |
| `NetProofs` | proofs about the last two |
| `KeyPool`, `MCKeyPool`, `KeyPoolProofs` | key pool, encryption and rewriting of the wallet file |

`MC` modules give the constants of the instances; every comment `mutant` marks an operator
that exists to show that a property can fail (section 3).

### ChainState

The tree of headers that exist is a constant (`Parent`, `Anc`, `Work`, `Height`), as is what
the checks say of a block: `WellFormed` (passes `ContextualCheckBlock`), `Sound`
(`ConnectBlock` accepts it).  Flags are sets of blocks.  `nTx` and `nChainTx` are the sets of
blocks whose counter is positive.  `Addr` is the address of the `CBlockIndex`, which decides
between blocks of equal work after a restart, when all sequence ids are zero.

A critical section of `cs_main` is one action, except inside `ActivateBestChainStep`, where
each `DisconnectTip` and each `ConnectTip` is an action of the thread that holds the lock
(`pc` is `"switch"`; `Free` says that nobody does).  The loop condition of
`ActivateBestChain` is an action without the lock.  `FindMostWorkChain` is a loop in the
code; here it is one step that computes which candidates are dropped, why, and which is
left.  `ReceivedBlockTransactions` gives out sequence ids in any order the breadth-first
walk may take.  `LoadBlockIndexDB` rebuilds what lives in memory only and may lose
FAILED_CHILD marks that were never entered in `setDirtyBlockIndex`.  Pruning is per block
and may hit the middle of a reorganisation, because `DisconnectTip` and `ConnectTip` call
`FlushStateToDisk`.

Bounds: the trees have four to six blocks, with a fork at genesis, a late fork or a long and
a short branch, and equal-work pairs, so that reorganisations by one and by two blocks, ties,
an invalid block at the end of the heavier branch, and a block that waits for its parent all
occur.  `Keep` is 1 instead of the 960 of `MIN_BLOCKS_TO_KEEP`.  `PruneBound` stops pruning
when `nBlockSequenceId` has grown past it: prune and download again would go on for ever.
`Invalidatable` and `Reconsiderable` restrict the operator's calls.

### CoinsCache

`tip` and `view` are the caches of `pcoinsTip` and of the block being connected or
disconnected; a cache is a record of the set of entries, their contents and the two sets of
flags.  `FetchCoins`, `ModifyCoins` (with `~CCoinsModifier`), `BatchWrite` and the LevelDB
batch are operators; the actions apply them.  `stage` says whether a view exists and whether
`SetBestBlock` was called on it.  A `CCoins` is opaque; only whether it is pruned matters, and
its memory usage (`Size`).  What a block does is the constant `UtxoAt`, and a view is sealed
with block h when it shows `UtxoAt[h]`.  Crash forgets both caches at any moment; that a write
of the database fails is in `FlushState`.

`CoinsStore` has no caches: `durable`, `current` and `pending` with the operations Begin,
Update, Seal, Commit, Abandon, Persist and Restart.

The instance has two transactions, two coins and three blocks: one creates x, the next
spends x and creates y, the third creates x anew with other contents, in any order of
connection and disconnection.  With it entries are created, spent, re-created, fetched
pruned, fetched unspent and erased on both levels.  More than one block in one view
(`VerifyDB`) and the temporary view of `AcceptToMemoryPool` are not modelled.

### CheckQueue

One action per critical section of the queue's mutex.  The master constructs a control,
adds checks in portions, and runs `Loop(true)`; workers run `Loop(false)`.  Condition
variables may wake without a notification.  `InterruptAll` is the shutdown: an interrupted
wait throws; a worker dies and leaves the counters as they are, a master unwinds into the
control's destructor and waits again.  Two workers, four checks, batches of two.

### FlushState

Memory (`index`, `dirty`, `info`, the coins of `pcoinsTip`), the two databases and the files are
separate variables; for each file the model has what was written and what was synced.
`AcceptBlock` places a record (`FindBlockPos`, which flushes a file that is full), `ConnectTip`
writes the undo record to the file of the block, and `FlushStateToDisk` is five steps: the
decision with `FindFilesToPrune`, `FlushBlockFile`, the index batch, `UnlinkPrunedFiles`, the
coins.  Between any two the process may die (the system keeps what was written) or the
power may fail (what was not synced may be gone).  `Start` is `LoadBlockIndexDB` with `VerifyDB`.

Every write may fail.  When `WriteBlockToDisk` reports it, `AcceptBlock` calls `AbortNode` but goes
on: the block is entered in the index with a position at which there is nothing
(`main.cpp:2802-2804`), and the flush of `Shutdown` writes that entry; the history variable `lost`
holds these positions.  When it throws, or there is no space, the block is not entered and
its place in the file stays taken (`AcceptBlockFails`).  A failed undo record makes `ConnectTip` give
up (`ConnectTipFails`), a failed database batch leads to `AbortNode`.  A node that is stopping goes on
accepting blocks and flushing until `Shutdown`, but connects nothing.  `top` is the height of the highest
block that was ever connected.

The coins are named by the block they belong to; `coins.shows` is what the cache and the
database really show, `coins.best` the block named.  Four blocks, three files of two
blocks, a target of three blocks, `Keep` 1, `CheckDepth` 0, at most one failing write of any kind
(`MaxFailures`) and one restart: a file can be left before the undo records of its blocks are
written, files are pruned, the space of a lost run is written again, and a hole that a failed write left
is flushed, named and met again by the next start.  Reindexing is not modelled.

### BlockUndo and TxPool

`BlockUndo` is pure: `UpdateCoins` in the order of the block, `ApplyTxInUndo` in the reverse
order, with `nHeight` and `fCoinBase` kept in the undo record only when the last output of a
transaction is spent, as `undo.h` does.  `Unspent` says what the coins of a chain are without
applying blocks: for each transaction, the outputs of its last occurrence that nothing from there
on spends.  A block has one coinbase, the first transaction (`CheckBlock`).  `TxPool` runs it under the pool: `ConnectTip` removes a
block's transactions and their conflicts, `DisconnectTip` resurrects, removes recursively and
drops spenders of immature coinbases, a `tx` message runs `AcceptToMemoryPool` and the loop
over orphans to its end.  Fees, priorities and standardness are one choice per transaction of
`Disliked`.  The instance (see `MCTxPool`) has a double spend, a chain of three, a block with a
transaction and its spender, a failing script, a spender of a young coinbase, a fork, and
a block that repeats a coinbase whose outputs are all spent, which BIP30 allows.
`COINBASE_MATURITY` is 2 and two orphans fit.

### BlockDownload

A peer is a record with the fields of `CNodeState`; `inFlight` is `mapBlocksInFlight`, the
queue of a peer is `vBlocksInFlight` in order.  Actions are a message (`version`, `inv`,
`headers`, `block`), a call of `SendMessages` with its choice of blocks
(`FindNextBlocksToDownload`), a timer that runs out, and `FinalizeNode`.  A peer outside
`Honest` answers, keeps silent or sends bad blocks as it likes.  Time is a choice: a timer that is set
may have run out.  Window and transit limit are 1, so that stalling and full queues occur
with two blocks.  `CheckBlockHeader` and `ConnectBlock` have no failures here.

### NodeLifecycle

Three threads with a program counter each: the opener (grant, `ConnectNode`, move of the
grant, `fNetworkNode`, `fOneShot`), the socket thread (disconnect, copy, read, release,
delete) and the message thread (copy, handle, release).  Outbound and inbound limits are 1,
three nodes, each used once.  A thread's accesses to a node outside `cs_vNodes` are separate
steps.

### AddrMan

`man` is the whole `CAddrMan` as a record, operations are operators on it, `disk` is
`peers.dat`.  The hash functions are constants; the instance makes two addresses share both new slots
and two share the tried slot, so that every collision, eviction and move back happens.
`Serialize` counts places the way `mapUnkIds` does and `Unserialize` numbers afresh, in the steps of
the code: the entries of new, those of tried, the buckets, and the deletion of entries that found
no room.  `MaxId`
bounds the ids given out since the last start.

### KeyPool

A wallet file is the sets of `key` and `ckey` records, whether there is an `mkey`, and the
`pool` records.  `op` is the operation that holds `cs_wallet`; `TopUpKeyPool`, `NewKeyPool` and
`CDB::Rewrite` are several steps, so that the process may die after each write, `KeepKey` and the
timer come in between.  `EncryptWallet` up to `TxnCommit` is one step because it is one
database transaction.  The ghosts `given`, `old` and `mixed` record which keys were used,
which existed before the encryption, and whether an index was written while reserved.
Two threads, `-keypool` 1 (so two keys in the pool), six keys, one encryption.  Without
further bound a second encryption of the empty wallet that a crash inside `Rewrite` leaves
would write into the old `.rewrite` file.

## 3. Runs

| Run | Properties | Shows |
|---|---|---|
| `checkqueue` | `ControlFindsIdleQueue`, `VerdictIsConjunction`, `WaitReturns` | the queue is idle whenever a control is constructed (the code's assertion), the verdict is the conjunction of the checks added, and `Wait` returns |
| `chain_threads` | `ActiveChainValid`, `CandidatesLinked`, `CheckBlockIndex`, `BestChainAtRest`, `CandidatesSound`, `ReorgImproves`, `BetterChainAdopted` | two threads, two branches, an invalid block, invalidateblock, reconsiderblock, restart: the relations the function `CheckBlockIndex` asserts; the tip at rest is the best; a reorganisation that meets no invalid block improves the tip; a better chain is eventually adopted or no longer better |
| `chain_prune` | `TypeOK`, `CandidatesKept`, `BestChainAtRest` | pruning at any time: candidates that lose data wait in `mapBlocksUnlinked` and come back |
| `coins` | `FlagsSound`, `BatchWriteAssert`, `UsageExact`, `CoinsMatchBest`, `ImplementsStore` | the flags, the assertion of `BatchWrite`, the usage counter; coins match the best block; the caches implement `CoinsStore` |
| `flush` | `BestIndexed`, `IndexTruthful`, `StartsAgain` | the coins' best chain is in the index database, data and undo records that the index names are in the files, except where the write of a block itself was reported to fail; a node whose process died is refused a start only if such a block is named, or if the coins on disk are so far below the highest block ever connected that `VerifyDB` reads below what is exempt from pruning |
| `txpool` | `UndoExact`, `PoolChecked`, `NoLostParents`, `OrphansIndexed`, `OrphansResolved` | the coins are those of the chain and the tip can be undone, the pool can be mined on the tip and its indexes are exact, orphans do not wait for what has arrived |
| `download` | `BooksExact`, `CommonStored`, `AskedOnce` | books, counters, last common blocks; no block is asked for twice at a time |
| `download_live` | `DownloadsBest` | the tip reaches the chain of an honest peer although another withholds the block |
| `nodes` | `NodesLive`, `SlotsKept`, `DroppedNodesDeleted` | no node is deleted while it is in a copy of `vNodes`, or while the opener has not yet set its `fNetworkNode`; slots are conserved, disconnected nodes are deleted |
| `addrman` | `TablesExact`, `SavedLoads`, `ForgottenLast` | reference counts, tables, indexes; `peers.dat` round trip; tried addresses are not forgotten |
| `keypool` | `KeysSaved`, `EncryptedWhole`, `KeysApart`, `PoolUsable` | no key in use is lost, no half encrypted file, keys used once and pool records readable while no index is written again that is reserved |
| `lost_candidate` | `CandidatesCompleteAtRest` | a disagreement, see section 5 |

Several properties are conjunctions of named parts, each with its own comment:
`CheckBlockIndex`, `CandidatesKept` and `CandidatesSound` in `ChainState`, `IndexTruthful` in
`FlushState`, `UndoExact` and `PoolChecked` in `TxPool`, `BooksExact` in `BlockDownload`,
`NodesLive` and `SlotsKept` in `NodeLifecycle`, `TablesExact` in `AddrMan`, `PoolUsable` in
`KeyPool`.  The type invariants of the last six modules are among these parts.

`CHECK_DEADLOCK FALSE` is set where the system may stop: a node with nothing to do or
aborted, all peers gone, all ids, keys or restarts of the bound used up.

Every property of a passing run has a mutant of the code's model that violates it; the
mutated operators stand before the ones they replace.

### Fairness

`CheckQueue!FairSpec`: a thread that can take the mutex eventually does, and the master ends
its loop over the block's transactions.  Nothing is assumed about wakeups: a notification
that is not sent must not be needed.  `ChainState!FairSpec`: a thread inside
`ActivateBestChain` eventually gets `cs_main` and goes on.  `BlockDownload!FairSpec`: the message
thread calls `SendMessages` for every peer again and again, a request that is overdue is
found so, nodes to be disconnected are finalised, and honest peers answer.  Nothing is
assumed of other peers.  `NodeLifecycle!FairSpec`: the three threads go on; connections need
never break.  All are what fair mutexes and a running scheduler give.  No fairness is
assumed for deliveries, the operator, pruning, crashes or shutdown.

## 4. Proofs

All are checked by TLAPS for every value of the constants that satisfies the named
assumptions: any number of peers, threads, blocks, keys, files or nodes.  Each inductive
invariant was first checked by TLC on the instances of section 3.  Two assumptions say what the
constants that describe the block tree are, and TLC evaluates them on every instance:
`ChainState!TreeAssumption` says that `Anc` is closed and that every non-empty set of blocks of one
chain has a highest, `BlockDownload!PathAssumption` that `Path` obeys its recursive definition and
that the path to a block on a path is its beginning.

Folds over blocks, inputs, entries and slots are reasoned about by induction.  The induction
theorems of the library take a predicate as a parameter, which the provers cannot instantiate; the
proofs go through the set of the numbers that satisfy it instead.  `LeastNat` (a non-empty set of
naturals has a least element) follows from the well-foundedness of `<`, and `Induction`, `InductionTo`
and an induction over finite sets follow from it.  A fold has its defining equation once a
function that satisfies the recursion is exhibited, and the function is built by the same induction;
then a fold is a run of states, each made from the one before by one application
of the operator.

| Module | Theorem | States |
|---|---|---|
| `CheckQueueProofs` | `QueueTypeOK`, `QueueControlFindsIdle`, `QueueVerdict` | `TypeOK`, `ControlFindsIdleQueue`, `VerdictIsConjunction` |
| `ChainStateProofs` | `ChainTypeOK`, `ChainActiveValid`, `ChainCandidatesLinked` | `TypeOK`, `ActiveChainValid`, `CandidatesLinked` |
| | `BestChainAlwaysAtRest`, `CandidatesAlwaysSound`, `ReorgAlwaysImproves`, `NoCandidateLost` (without pruning and reconsiderblock) | `BestChainAtRest`, `CandidatesSound`, `ReorgImproves`, `CandidatesCompleteAtRest` |
| | `CheckBlockIndexHolds` (also, only children of genesis invalidated by hand) | `CheckBlockIndex` |
| | `UnlinkedAlwaysExact`, `HeaviestChainAdopted` (with pruning; no reconsiderblock, only children of genesis invalidated by hand) | `UnlinkedExact`; at rest the heaviest valid chain is active, unless blocks of it are missing on disk (`HeaviestAtRest`) |
| `CoinsCacheProofs` | `CoinsTypeOK`, `CoinsFlagsSound`, `CoinsBatchWriteAssert`, `CoinsModifyTakesEffect`, `CoinsBest`, `CoinsRefinement`, `CoinsUsageExact` | types, flags, the assertion of `BatchWrite`, `CoinsMatchBest`, the refinement of `CoinsStore`, `UsageExact` |
| `FlushStateProofs` | `BestAlwaysIndexed`, `IndexAlwaysTruthful`, `AlwaysStartsAgain` | `BestIndexed`, `IndexTruthful`, `StartsAgain` |
| `TxPoolProofs` | `CoinsAlwaysExact`, `ParentsNeverLost`, `OrphansAlwaysIndexed`, `OrphansAlwaysResolved` | `UndoExact`, `NoLostParents`, `OrphansIndexed`, `OrphansResolved` |
| | `PoolAlwaysMinable`; `PoolAlwaysChecked` (when coinbases name their height) | all of `PoolChecked` but `PoolApartFromCoins`; `PoolChecked` |
| `BlockDownloadProofs` | `BooksAlwaysExact`, `CommonAlwaysStored`, `NeverAskedTwice` | `BooksExact`, `CommonStored`, `AskedOnce` |
| `NetProofs` | `NodesAlwaysLive`, `SlotsAlwaysKept` | `NodesLive`, `SlotsKept` |
| | `TablesAlwaysExact`, `SavedAlwaysLoads`, `ForgottenOnlyLast` | `TablesExact`, `SavedLoads`, `ForgottenLast` |
| `KeyPoolProofs` | `KeysAlwaysSaved`, `FileEncryptedWhole`, `KeysUsedOnce`, `PoolAlwaysUsable` | `KeysSaved`, `EncryptedWhole`, `KeysApart`, `PoolUsable` (its parts on readable records and on keys used once as long as no reserved index is written again) |

`CheckQueueProofs`.  The inductive invariant says that every pending check is in the queue or in
exactly one batch, that `nTodo` is their number, that `nTotal` is `nIdle` plus the threads that
run a batch (an interrupted wait leaves both one too high, so `nIdle` is only bounded from below),
and that `fAllOk` is the conjunction of the checks reported.  Idleness is not inductive without
these counts.  Entering, waking and finishing share one loop body, which is proved once.

`ChainStateProofs`.  Four invariants; `JInv` and `UInv`, and `KInv`, each on top of `IInv`.  `IInv` holds without any
restriction.  That the active chain is valid is not inductive: while a thread switches, the
blocks it is going to connect must be linked and not failed although other threads act in
between (`SwitchSafe`), one thread switches at a time (`OneSwitch`), and linked blocks form a tree
(`LinkedClosed`), which `NewlyLinkedClosed` shows for the walk through `mapBlocksUnlinked`.

`JInv` is about a node that does not prune (`PruneBound = 0`) and whose operator does not call
reconsiderblock (`Reconsiderable = {}`).  A block that could be connected and sorts before the tip is a
candidate at every moment, also in the middle of a switch (`NoneLost`); while there is one,
some thread is still going to look (`SomeoneLooks`); the chain that is being switched to is the
best there was when `cs_main` was taken (`SwitchBest`); what is marked FAILED_CHILD is below something
invalid; and blocks that wait for their parents are in `mapBlocksUnlinked` (`Parked`).  At rest no
thread is going to look, so the tip is the best.  With reconsiderblock the statements about
completeness are false: `lost_candidate` shows it.

`UInv` adds that all blocks received whose ancestors were received are linked, and that the others
are in `mapBlocksUnlinked` unless their parent is failed and was never received.  It needs that a
block which the operator invalidates is linked as soon as it arrives, hence children of genesis
only: invalidating a block that waits for its parent keeps its children out of `mapBlocksUnlinked`
(section 5), and `LinkedIffProcessed` and `UnlinkedExact` fail.

`KInv` is about a node that prunes, however deep the forks.  Its first half, `ParkInv`, says what is in
`mapBlocksUnlinked` and why: a received block that is not linked is parked there unless its
parent failed and was never received, what is parked has a parent that is parked, or missing on disk and not
active, or below such a failed block, and nothing is parked below the block that a thread is switching to
(`NoneWaits`: it was on disk when it was chosen, and `mapBlocksUnlinked` only shrinks until the switch
ends, so that no block waits for it even when it is pruned on the way).  `UnlinkedAlwaysExact` follows.

The second half, `PickInv`, holds until `AbortNode`.  `NoneLost` is false with pruning: a
candidate that turns out to lack data is dropped, and a block that is pruned and comes again gets a new
sequence id, which changes the order of chains of equal work.  What is left is about the heaviest
chain, a valid linked one with strictly more work than every other (`Heaviest`): it is a candidate or parked
(`NoneForgotten`); when its blocks are on disk a thread is going to look for it (`ReachLooks`); and no thread
switches to something worse (`SwitchReach`).  `HeaviestChainAdopted` is this at rest.  Nothing is assumed of the
distance between a fork and the tip: a reorganisation may have to go back through pruned blocks, and
then ends in `AbortNode`.  For chains that are not the heaviest the statement fails in the code: `BestChainAtRest`
and `CandidatesKept` are false on the tree of section 5, and with pruning are only model-checked, on the
tree of `chain_prune`.

`CoinsCacheProofs`.  The strengthening is `ViewBacked`: what the view holds and does not call FRESH
is also in `pcoinsTip`, because it came through it and `pcoinsTip` drops nothing while a view is
open.  For the refinement, the initial state maps to the initial state and every step to a step of
`CoinsStore` or a stutter.  For `CoinsUsageExact`, both caches have finitely many entries and each
counter is the sum of their sizes (`UsageInv`); an operation changes one entry and the counter by the
difference, except `BatchWrite`, whose sum is taken apart over the entries it adds, replaces and erases.

`FlushStateProofs`.  What is not dirty is on disk as it is in memory, unless a batch was lost
(`Synced`); until pruning drops it (`Dropped`), a position that the database names is still
the one in memory, so that the space of its record is not reused (`Kept`); only the last file holds
records that are not synced, and a position without a record is one of `lost` (`MemoryData`).  That the
node starts again needs in addition that the blocks within `Keep` of `top` have their undo records
named, in memory for the chain of the tip and on disk for that of the coins on disk: pruning
leaves both alone (`StartInv`).  There is no assumption on `CheckDepth` and `Keep`.  What
`StartsAgain` excepts are the runs after which the coins on disk, less `CheckDepth`, are `Keep` or
more below `top`.  With the defaults (288 and 960 blocks) the coins may be 671 blocks behind before
a start can be refused; with `-checkblocks=960` it may be refused when they are not behind at all, while
`init.cpp:1176` warns only of more than `MIN_BLOCKS_TO_KEEP`.

`TxPoolProofs`.  Five invariants.  `ChainInv`: the coins are `Unspent` of the chain, and the undo record of
a block is the one that connecting it on its parent gives, whichever chain was active when it was
written, so that a block that is connected a second time can still be undone by it.  That
`DisconnectBlock` is the inverse of `ConnectBlock` is proved input by input and transaction by transaction, the
undo of a prefix being the coins before it.  `Minable` says of the pool that the inputs of its
transactions are outputs of the pool or mature coins and that no two share one.  It is kept by
each removal because `WithSpenders`, a recursion bounded by the size of the pool, ends in a set that
contains every spender of what it contains; `Without` then leaves nothing behind that spends what
is gone.  `OrphanInv`: `mapOrphanTransactionsByPrev` is what `mapOrphanTransactions` determines, and the orphans are
finitely many within the limit.  `LoopOK` is the invariant of the loop over the orphans that a
transaction resolves: the work list holds what came in with the transaction, each once, so the loop
ends; each pass settles the orphans that spend from the head of the list, or finds that they lack
something else.  `Waiting` is the one of the resurrection after a block was disconnected: what the
pool lacks is among the transactions of the block that are still to come.  `Once`: every transaction is in the
chain once and after those it spends.

`Once`, and with it the part of `PoolChecked` that the pool repeats nothing that is among the coins, needs
that no coinbase is repeated at another height (`HeightInCoinbase`).  `ContextualCheckBlock` asks that of
blocks of version 2 and later (`main.cpp:2702`); before, BIP30 alone lets a coinbase come again
when it is spent, and then the transactions that spent it may be both in an older block and, again, in
the pool.  `MCTxPool` has such a coinbase and is outside the hypothesis; TLC finds
`PoolChecked` true there too: the coinbase comes again in the last block, where it is not mature.

`BlockDownloadProofs`.  The invariant `IInv` says of every peer that the hashes of its list are
distinct and in flight from it, that its counters are those of the list and within the transit limit, and that a
stalling peer has something in its list (`QueueOK`); that every block in flight is in the list of its
peer, and that `nQueuedValidatedHeaders` is not below the number of validated ones (`BooksOK`); that a peer
which is counted as preferred has sent its version, without which the version message could
count it twice (`Life`); and that the active chain is stored (`ChainOK`), from which, with
`CommonStored`, the walk of `FindNextBlocksToDownload` starts at a block all of whose ancestors are
stored.  `MarkBlockAsReceived` and `MarkBlockAsInFlight` are each shown once to keep the books
(`ReceivedOK`, `InFlightOK`), for any set or list of blocks; `FindOK` says what `FindNextBlocksToDownload`
returns: distinct blocks that nobody was asked for, no more than there is room for, and a staller
that owes a block.

`NetProofs`, nodes.  `nRefCount` is the number of copies of `vNodes` a node is in plus the reference it was
made with (`RefsCounted`); nobody releases that reference from `ConnectNode` until the opener sets
`fNetworkNode` (`OpenerHolds`), but somebody may after that, while `fOneShot` is still to be written (section 5); an outbound connection has its grant or the opener still has it
(`OutboundGranted`).

`NetProofs`, addresses.  `TablesExact` holds between operations only: within one, an entry may be in neither
table and `nNew` one ahead or behind.  `Near(m, F, d)` says that the tables, counts and indexes agree
except that the entries of F are in neither table and `nNew` is off by d.  Every operation is a
composition of small steps (take an entry out of all buckets, clear a slot, fill one, create, delete,
swap two places of `vRandom`, enter in tried, take out of it), each of which is shown to lead from one
`Near` to another; the operations end in `Near(m, {}, 0)`, from which `TablesExact` follows.  What a step
deletes is followed along, which gives `ForgottenLast`.  `GetAddr_`, a fold of swaps, keeps `Near` by induction.
The inductive invariant (`ManInv`) says the same also of the tables `peers.dat` was made of, since a
restart may load an older file.  That loading works (`RoundTrip`) is an induction over each of the
four loops of `Unserialize`: the entries of new get the numbers 0, 1, ... in the order of their old ids,
as `mapUnkIds` counted, those of tried the numbers after them; no tried entry finds its slot taken,
because no two had the same; every bucket gets back what it had, at the place its address determines,
since neither slot nor reference count can be in the way; and so nothing is left for the last
loop to delete.

`KeyPoolProofs`.  The file, or its copy while `CDB::Rewrite` has removed it, says the same as the memory
(`FileWhole`); a key is on record under one index at most, the one its holder has (`KeyPlaces`); until
an index is written while it is reserved, a reserved index keeps its record and is not in
`setKeyPool` (`Reserved`); the loops that make keys stay within the bound (`LoopBounds`).

Only model-checked:

* liveness (`WaitReturns`, `BetterChainAdopted`, `DownloadsBest`, `DroppedNodesDeleted`),
  which is out of the prover's reach;
* `BestChainAtRest` and `CandidatesKept` with pruning (only `UnlinkedExact` and the heaviest chain are
  proved), and properties of the candidates with reconsiderblock or with other blocks than children of
  genesis invalidated by hand.

## 5. Disagreements found

`lost_candidate` is a run in which TLC finds the property violated; `PROJECT.json` quotes the
lines.  The others are stated as definitions in the modules and can be reproduced by adding
the definition to the cfg that is named.

* `lost_candidate`: `ReconsiderBlock` clears the flags of the block's ancestors and does not
  make them candidates again, against `CheckBlockIndex`.  (The same omission leaves
  siblings marked FAILED_CHILD below no invalid block: with reconsiderblock unrestricted
  `FailedHasInvalidParent` does not hold either.)
* `ChainState!UnlinkedComplete` (in `MCLostCandidate.cfg`): a block that arrives while its
  parent is marked failed is not entered in `mapBlocksUnlinked`, and is missing there when the
  parent is reconsidered.
* `ChainState!CandidatesCompleteWhenFree` (in `MCChainStateThreads.cfg`): after a reorganisation
  that meets an invalid block `cs_main` is released with the tip below where it was, and another
  thread's `CheckBlockIndex` would find blocks as good as the tip that are no candidates.
* `ChainState!UnlinkedHasData` (in `MCChainStatePrune.cfg` with a3 added to `WellFormed` and `Sound`): `LoadBlockIndexDB` enters pruned
  blocks in `mapBlocksUnlinked`; one comment expects this and an assertion of `CheckBlockIndex`
  rules it out.  (Pruning a block that waits for its parent also breaks `LinkedIffProcessed`.)
* Reorganisation and pruning (`BestChainAtRest` of `ChainState`): "Make the best chain active, in multiple
  steps. The result is either failure or an activated best chain." (`main.cpp:2280`).  When a
  reorganisation has passed the fork by more than `MIN_BLOCKS_TO_KEEP`, the branch it left may be pruned
  (`FlushStateToDisk` from `ConnectTip`, `main.cpp:2115`, or from `AcceptBlock`, `main.cpp:2810`).  If
  the new branch then meets an invalid block, `FindMostWorkChain` drops the pruned branch, no candidate is left, and
  `ActivateBestChain` takes the NULL for nothing to do (`main.cpp:2299`) and returns true, with the tip
  in the failed branch, although a third branch with more work and all its data is in the index.  TLC finds
  it in 20 states with one thread, `Keep` 1, `PruneBound` 10, and the tree g-a1, g-b1-b2-b3, g-c1 with
  work g 1, b1 2, b2 3, c1 5, a1 6, b3 9, where b3 is not in `Sound`.
* `FlushState!UndoSynced` (in `MCFlushState.cfg`): "First make sure all block and undo data is
  flushed to disk" (`main.cpp:1930`), but `FlushBlockFile` syncs the last file only and undo
  records go to the file of their block; after a loss of power the index names an undo record
  that is gone.
* Failed coins write (`FlushState`, action `FlushCoinsFails` followed by `Shutdown`): the
  database write empties the cache before it is known to have succeeded; the flush at shutdown
  then records the new best block without its coins (`coins.shows` differs from `coins.best`).
* `FlushState!DataAvailable` (in `MCFlushState.cfg`): "full block available in blk*.dat"
  (`chain.h:88`), but `AcceptBlock` sets `BLOCK_HAVE_DATA` also when `WriteBlockToDisk` has failed
  (`main.cpp:2802-2804`), and the flush of `Shutdown` makes that entry durable.  If the file was never
  made, the next start is refused; otherwise the block cannot be read when it is to be
  connected, and the node aborts.  `IndexTruthful` and `StartsAgain` except these blocks by name.
* Pruning window (`FlushState`, second alternative of `StartsAgain`): `UnlinkPrunedFiles` runs before the
  coins are flushed; a crash in between can leave the coin database at a block whose
  successors' files are gone, and the node refuses to start.  So does one whose reorganisation has taken the
  coins as deep as what pruning keeps.
* `BlockDownload!QueuedExact` (in `MCBlockDownload.cfg`): `nQueuedValidatedHeaders` is "Number of
  blocks in flight with validated headers" (`main.cpp:162`); `FinalizeNode` does not take the
  blocks of the peer off it.  It is never too small (`EnoughQueued`, a part of `BooksExact`), so timeouts only grow.
* `NodeLifecycle!OneShotLive` (in `MCNodeLifecycle.cfg`): `OpenNetworkConnection` sets `fNetworkNode` and then
  `fOneShot` (`net.cpp:1377-1378`); from the first assignment on the socket thread may release the
  only reference and delete the node, which the second then writes to.  TLC finds it in 12 states.
* `NodeLifecycle!AllDroppedDeleted` (in `MCNodeLifecycle.cfg`): a node whose connection breaks
  before `fNetworkNode` is set keeps its first reference for ever (`net.cpp:694`), and with it the
  outbound slot.
* `KeyPool!UsedOnce` (in `MCKeyPool.cfg`): an index that is reserved has left `setKeyPool`, by
  which `NewKeyPool`, and `TopUpKeyPool` on an empty set, choose indexes; the index is written
  again, and when it is returned or kept the pool has an entry too many or one that cannot be
  read ("ReserveKeyFromKeyPool(): read failed" is then thrown; `PoolReadable` speaks of pools
  where this has not happened).  "Take key pair from key pool so it won't be used again" (`wallet.cpp:1975`).
* `KeyPool!OldKeysUsed` (in `MCKeyPool.cfg`): "Mark old keypool keys as used"
  (`wallet.cpp:2148`); after a crash between `TxnCommit` and the end of `NewKeyPool`, or for keys that
  were reserved and returned, keys from before the encryption are still in the pool.
* `CDB::Rewrite` (`wallet/db.cpp:407`): between `remove` and `rename` the keys are only in
  `wallet.dat.rewrite`, and a start finds no `wallet.dat` and makes a new one.  `KeysSaved` holds
  because it counts that file.
* The comments at `addrman.h:122-123` and `addrman.h:228` describe the tables differently from the
  code, and `Clear` leaves `mapInfo` and `mapAddr` as they are; `Clear` is only called on a new object.
* A peer that is asked for headers and keeps silent is never replaced (`main.cpp:4883`) while the
  best header is older than a day; `DownloadsBest` is stated from the moment a chain is known.

## 6. Plan

What is left, in this order:

1. Wallet transactions: `mapWallet` and `mapTxSpends` over `BlockUndo`, and the use counts and
   flush thread of the wallet file.
2. `Scheduler`; `CMedianFilter`; alerts.
3. Operators: retargeting and compact encoding at a reduced width, `CPartialMerkleTree`, each
   against a reference definition.

## 7. Not modelled

Script evaluation, signatures and hashing (results enter as constants); floating point
(`KimotoGravityWell`, priorities, fee averages); serialisation and formatting; the GUI and its
translations; LevelDB and Berkeley DB (an atomic batch that may fail); vendored code.
Smaller omissions of the modelled parts: `FindNode` gives up `cs_vNodes` before `AddRef`
(`net.cpp:363`), which needs addresses to matter; the RPC `invalidateblock` while the node is
stopping, `-txindex`, and a block that is stored twice in one file, which counts once there
(`FlushState`); blocks that are corrupt on disk
(`main.cpp:1349`); the place of a block in the balanced tree of candidates when its sequence id
changes (`main.cpp:2464`).  `PROJECT.json` gives the reason for each component.
