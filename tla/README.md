# A TLA+ model of the HoboNickels node

HoboNickels is a proof-of-stake cryptocurrency node in C++. This directory holds TLA+
modules for the parts of it in which order, failure and concurrency decide whether the
node is right: how it downloads and buffers blocks, moves its best chain, verifies scripts
in parallel, keeps transactions that wait for a block, replaces its chain by a snapshot,
manages addresses and connections, keeps the coins and keys of a wallet, and how the
LevelDB that comes with it stores what it is given. TLC checks them on small instances;
TLAPS proves the central invariants for all instances. `PROJECT.json` lists the parts of
the system, the runs, the lines each definition models, the hazards and the findings.

Paths below are relative to `src/src/` of the repository.

## The system

| Part | Where | State | What changes it |
|---|---|---|---|
| Block download | `main.cpp` (`headers`, `inv`, `block` handlers, `SendMessages`), `net.cpp` (`StartSync`, handler loop) | queue, requests in flight, tracked set, heights, sync peer | messages, the handler loop, timeouts, disconnects |
| Orphan buffer | `main.cpp` (`ProcessBlock`, `DrainBufferedBlocks`, `LimitOrphanBlocks`) | `mapOrphanBlocks`, the stakes seen | arriving blocks, the handler loop |
| Chain state | `main.cpp` (`AcceptBlock` to `DisconnectBlock`), `txdb-leveldb.cpp` | block index, links, tip, transaction index, in memory and on disk | accepted blocks, checkpoints, crashes, failed commits |
| Checkpoints | `checkpoints.cpp` | sync-checkpoint and pending checkpoint | signed checkpoint messages, accepted blocks |
| Script checks | `checkqueue.h`, `main.cpp` (`ConnectBlock`) | queue, counters, threads | the block-connecting thread, the workers, shutdown |
| Memory pool | `main.cpp` (`CTxMemPool`, `tx` handler, `Reorganize`), `miner.cpp` (`CreateNewBlock`) | pool, `mapNextTx`, orphan transactions | transactions, connected and disconnected blocks, the miner |
| Snap-sync | `main.cpp`, `init.cpp` | chain files, staging directory, markers, the fetch | messages, restarts, crashes |
| Addresses | `addrman.cpp`, `addrman.h` | new and tried buckets, `vRandom`, `peers.dat` | `addr` messages, connections, restarts |
| Connections | `net.cpp` | `vNodes`, reference counts, outbound slots, `pnodeSync` | socket, message and opening threads |
| Wallet | `wallet.cpp` | `mapWallet`, `hashBlock`, `vfSpent` | connected and disconnected blocks, the pool, the user, repairs |
| Key pool | `wallet.cpp`, `walletdb.cpp`, `db.cpp` | `setKeyPool`, `wallet.dat` | reservations, encryption, crashes |
| LevelDB | `leveldb/db/` | log, table and manifest files, memtables, versions | writers, the background thread, readers, crashes |

The download hands blocks to `ProcessBlock`, which buffers them or gives them to
`AcceptBlock`; that may call `SetBestChain`, which connects blocks with the check queue and
writes the database through LevelDB, tells the wallets, and then moves transactions between
pool and chain. Checkpoints move the best chain through the same `SetBestChain`. Snap-sync
pauses the download while it fetches and swaps the whole database at a start. Nearly
everything runs under `cs_main`; what remains concurrent are the script workers, the
network threads, the auto-snapshot thread, users of the wallet, LevelDB's background
thread, the peers and the possibility that the process ends.

What the system must get right, and tests hardly reach:

- a block must never be lost between queue, flight and buffer, nor a limit be exceeded,
  under timeouts, late answers, refusals and disconnects; the chain must arrive in the end;
- the transaction index, the links and the tip must be those of one chain after any
  sequence of reorganizations, failed commits and crashes;
- a checkpoint once accepted must stay in the main chain and only advance;
- a block must be answered for by all its script checks, and nobody may wait for ever;
- pool and wallet must follow the chain through every reorganization, and a block that the
  node assembles must connect;
- a snapshot must be applied whole or not at all, a wrong one never be run on;
- the tables of addresses must agree with each other, no connection be used after it is
  deleted, no key be given out twice or lost;
- a batch written to the database must survive a crash whole, or not be there.

## Modules

| Module | Models | Extends |
|---|---|---|
| `BlockTree` | the tree of blocks: parents, heights, ancestors | |
| `BlockDownload` | headers-first download, several peers | `BlockTree` |
| `OrphanBuffer` | `ProcessBlock` and the buffer in detail, with duplicate stakes | `BlockTree` |
| `ChainState` | block index, best chain, transaction index, sync-checkpoints, database | `BlockTree` |
| `CheckAll` | abstract: the verification of a block by all its checks | |
| `CheckQueue` | `CCheckQueue` with mutex and condition variables; implements `CheckAll` | |
| `Mempool` | pool, orphan transactions, reorganizations, block assembly | `BlockTree` |
| `Snapshot` | snap-sync from discovery to verification | |
| `AddrMan` | the address tables and their file | |
| `Connections` | the life of a `CNode` | |
| `Wallet` | what a wallet knows of chain and pool | `BlockTree` |
| `KeyPool` | key pool, locking, encryption, `wallet.dat` | |
| `VersionSet` | levels of tables, choice of compactions, lookups | |
| `LevelDB` | writers, background thread, manifest, recovery; implements `KVStore` (`MCLevelDB`) | `VersionSet` |
| `KVStore` | abstract: an atomic, durable map | |
| `LogFormat` | LevelDB's log files, written and read | |
| `LevelDBInv` | the inductive invariant of `LevelDB`, and what its steps do | `LevelDB` |
| `LevelDBLemmas`, `LevelDBProofs` | proofs about `LevelDB` | `LevelDBInv` |
| `BlockDownloadProofs` | proofs about `BlockDownload` and `OrphanBuffer` | `BlockDownload` |
| `CrashProofs` | proofs about `Snapshot` and `KeyPool` | both |
| other `*Proofs` | proofs | their component |
| `MC*` | instances for TLC | their component |

Variables have the names they have in the code. Definitions preceded by "Mutant" are
wrong variants of the one after them; they are used to see that a property can fail.
Parts that share no state are checked in one run as a sum: the variable `part` of
`MCSync`, `MCPeers`, `MCWallet` and `MCLevelDB` says which of them a behaviour is about,
and the others stay in their initial state.

### BlockDownload

One action is one call of a handler, or one peer's `SendMessages`, under `cs_main`:
`RecvHeaders`, `RecvInv`, `RecvBlock`, `SendMessages` (overdue requests go back to the
front of the queue, the assignment loop, the stall-breaker `Wedge`, the starvation
watchdog, `AskFor`), `NextPass` (drain, `StartSync`, stall watchdog, and the clock),
`Skip`, `Connect`, `Disconnect`. Messages in flight are sets per peer, so they may be late
or out of order; a peer may never answer.

Abstractions: clocks are ages that stop growing once past every timeout; trust is height;
a locator finds the exact fork; the two-minute spacing of `AskFor`, `StartSync`'s
condition on the starting height and `NodeSyncScore` are left out (any peer may become the
sync peer); of `IsInitialBlockDownload` the height clause remains; no snapshot is being
fetched. `ProcessBlock` appears with its outcomes: known, buffered, accepted or, for blocks
in `Flaky`, refused.

### OrphanBuffer

`ProcessBlock` and `DrainBufferedBlocks` with batches cut short by time or number, random
eviction, refused blocks and the two sets of stakes seen. The order among siblings is
arbitrary. A pending checkpoint's exemptions are left out; `CheckBlock` and the minimum
work pass.

### ChainState

`SetBestChain` is not one step: it is a database transaction for the reorganization and
one for each postponed block, each with the changes of several blocks. The steps are one
block connected or disconnected in the batch, one commit, one failure; a crash may come
between any two, after which `LoadBlockIndex` rebuilds memory from the database.
`AcceptBlock` and the checkpoint operations start and end these sequences.

Abstractions: a transaction has one output and no block spends what it creates itself; the
checks of a block against its ancestors' headers pass for every block of the tree; a failed
read or begin is the same as an abort; a committed batch is atomic and durable;
`nBestInvalidTrust`, `hashInvalidCheckpoint` and warnings are left out; memory pool and
wallet effects are left to their modules. The write of a new block's index record is taken
to succeed.

### CheckQueue

Each thread has a program counter; a critical section is two steps, with the mutex held
between; waiting and being notified are separate, so wakeups can be lost if the code lets
them, and a bounded number of spurious wakeups is allowed. The queue is a set (checks are
independent). `cs_main` allows one master; `Quit` runs when no block is being connected.
`CheckAll` is the abstract specification: begin, add checks, and answer TRUE exactly if all
the checks added succeed; `Implements` is the refinement.

### Snapshot

The start of the node is one action for each file removed or renamed, since the process
may die between any two; a handler is one action. A file is the chain it was copied from
and its length; a hash is right when both are. Appending to a file that is not the one the
fetch began gives a "mixed" file, and a staged hard link is the live file. Peers may answer
late, with an empty chunk or never; their files grow after the manifest was made.
Faults are crashes, disconnects and disk failures, bounded by `MaxFaults`.

Abstractions: the height is below the gate of 1000 blocks, above it, or the tip; a staged
fetch and the shutdown it triggers are one step; the six-hour refresh, unusable manifests
and a failing `fopen` are left out; peers that have gone do not come back (they would have
a new id).

### Mempool

An operation that is a loop over transactions (the orphans that an accepted transaction
makes acceptable, the transactions a reorganization resurrects, the collection of a block)
is one step for each, and no other starts meanwhile, since all run under `cs_main`. During
`SetBestChain` the tip of the transaction index, `hashBestChain`, is ahead of `pindexBest`:
transactions are resurrected between the commit of a reorganization and the moment
`pindexBest` moves, and finality and maturity are judged by the old tip. The `tx` handler
looks at the orphans of what it has accepted itself; `task.before`, the pool it found, lets
`OrphansResolved` speak of these and not of orphans that were acceptable all along.

Abstractions: a transaction has one output; a standard, valid, large or skipped transaction
is a member of a set; the size of a block is a number of transactions; the order by
priority and fee is arbitrary; blocks that fail to connect leave the pool alone and are
left to `ChainState`, from which it is taken that the index is that of the chain.

### AddrMan and Connections

`AddrMan` has the whole of `CAddrMan`'s tables as one record and one action for each
operation that changes them. Which entry of a bucket is terrible, oldest or least recently
tried, and whether a known address is added to one more bucket, are free choices: times
and statistics are left out. The buckets an address may go to are constants, in the place
of the hashes. A restart is a `peers.dat` written and read.

`Connections` has the three kinds of threads that handle a `CNode`: the socket handler,
which holds `cs_vNodes` during its pass, the message handler, and the threads that open
connections. A step is what a thread does under the lock, or one access without it.
Left out: bans, the buffers, byte counts, shutdown.

### Wallet and KeyPool

`Wallet` composes a wallet with a chain and a pool reduced to what tells the wallet
something. `ConnectBlock` and `DisconnectBlock` call the wallet before their database
transaction commits, so an abandoned connection leaves its traces; `flaws` records which of
the repairs (restart, rescan, `FixSpentCoins`) has not taken place since, and the
properties are claimed where they have. A transaction has one output; amounts, coin
selection, accounts and maturity are left out.

In `KeyPool` the key pool's operations are steps under `cs_wallet`; `EncryptWallet` is one
step for each write a crash can separate: the transaction, the records of the old and the
new pool one by one, the copy and the renaming of the file. Ciphers are uninterpreted.
`TopUpKeyPool`'s loop is one definition, `AddPoolKeys`: consecutive keys go to consecutive
indexes after the greatest one. That the process dies inside this loop is left out; what
it would leave is what a call with a smaller `nSize` leaves.

### LevelDB

`LevelDB` follows `db_impl.cc`: the queue of writers, of which the first logs the batches
of several as one record (`AddRecord`) and inserts them into the memtable afterwards
(`FinishWrite`); the switch to a new log and memtable; the flush of the immutable memtable
and the compaction of tables by the background thread, a flush being possible in the middle
of a compaction; the manifest, written without the mutex (`WriteManifest`) before the
version becomes current and obsolete files are deleted (`Install`); the opening, which
replays the logs into tables and starts a new manifest (`Recover`, `SetCurrentFile`); and a
`Get`, which takes its references under the mutex and reads without it. A crash may come
between any two of these, and in the middle of a series of deletions. A failed write may
leave a manifest record behind, or part of a record in a log.

`VersionSet` has what these choose and compute from the levels of tables
(`GetOverlappingInputs`, `PickLevelForMemTableOutput`, `SetupOtherInputs`,
`IsBaseLevelForKey`, `Version::Get`). `KVStore` is what `CTxDB` relies on: batches take
effect one group at a time, an acknowledged batch stays, and a crash adds batches in flight
whole or not at all. `Contents`, the refinement mapping, is what lookups find in a running
database and what the next opening would find in one that is down. `LogFormat` has the
writing of records in fragments and blocks, and the reading of what a crash or failed
appends left of them.

Abstractions: the node never sets `sync`, `paranoid_checks` or `reuse_logs` and takes no
snapshots, so those branches are left out; sizes are counted in entries; any file of a
level may be the one that is compacted (scores, `compact_pointer_` and seek counts are not
modelled), any key may end an output file, any number of waiting writers may form a group.
A file keeps what was flushed to it: the process dies, the machine does not. Part of a
manifest record followed by another record, which takes a torn write and a second flush
within one compaction, is left out. In `LogFormat` a header that is read where no whole
fragment starts fails its checksum. Closing a database is the crash of an idle one.

One promise had to be weakened: after an append to the log failed half-way the log goes on
being used, and a crash may then lose batches acknowledged later (`damaged`).

## Runs

Passing runs, each with all its properties and one mutant for each.

| Run | Instance | Shows |
|---|---|---|
| `download_safety` | 2 peers on 2 branches, 4 blocks, buffer of 1, windows 2 and 1 | `TrackedNotLost`, `WithinWindows`, `TrackedUntilHeld` |
| `sync_live` | download: 3 peers, one prompt, chain of 3; buffer: 10 blocks, 2 stakes shared by 5 of them, 3 places, batches of 2 | `DownloadEnds`; `BufferExact`, `ConnectedAboveBest` |
| `chain_safety` | 11 blocks in 3 branches, double spends, 4 signable checkpoints, 2 faults | `TxIndexMatches`, `NextMatches`, `BestCommitted`, `MostTrust`, `SyncInMainChain`, `SyncAdvances`, `TrustFallsToCheckpoint` |
| `checkqueue_safety` | 2 workers, 4 checks, 2 blocks, 1 spurious wakeup | `Counted`, `Implements` |
| `checkqueue_live` | 2 workers, 2 checks, 2 blocks | `CallsReturn` |
| `snapshot_safety` | 2 providers, 2 files of 2 and 1 chunks, growth 1, 1 fault | `AppliedWhole`, `RejectedNeverRuns`, `FetchEnds` |
| `mempool_safety` | 9 blocks in 3 branches, 10 transactions, 2 orphans, blocks of 2 | `IndexesExact`, `PoolOutsideChain`, `BlockConnects`, `OrphansResolved`, `NothingLost`, `BlockComplete` |
| `peers_safety` | addresses: 4 over 3 hosts, buckets of 1; connections: 2 nodes, 2 opening threads, 2 slots | `Consistent`, `RoundTrip`; `UsedAreAlive`, `SlotsConserved` |
| `wallet_safety` | coins: 8 blocks in 4 branches, 9 transactions; keys: 2 clients, pool of 2, 6 keys | `ChainSpendsMarked`, `StakesRefunded`, `Recorded`, `CommitAccepted`; `UsedOnce`, `KeysDurable`, `WhollyEncrypted` |
| `leveldb_safety` | 2 writers, 2 keys, 3 levels, 2 crashes, failures or reads; logs of 3 records in blocks of 6 bytes | `Implements`, `FilesPresent`, `ReadsSnapshot`; `ReplaysLog` |

The bounds are chosen so that every limit is hit: the windows and buffers are smaller than
the number of blocks; the fork instance has one branch overtake another; three branches and
three spends of two outputs give reorganizations that undo a spend, redo it in another
block and fail on a double spend, also in the middle of a sequence; more checks than a
batch with two workers make master and workers share a block, and two blocks expose what is
left of the first; one file of two chunks and one of one exercise both ends of the chunk
loop. Among the ten transactions are a conflict, a chain of four with a second parent, an
immature, an invalid and a large one, so that orphans are resolved through several
generations and evicted. Buckets of one place make every addition an eviction. Two
addresses on one host share an entry. Two threads that open connections to one address let a node
be found, completed and disconnected by different threads at once.

`leveldb_safety` has two instances of the database, since one with all bounds at their
largest is out of reach: `Grouped` has both writers, batches of two keys and three
operations (`GroupedSequence`); `Merging` has one writer at a time and four operations on
one key, the second a deletion, and one crash, failure or read (`MergingEvents`), which is
what it takes for a memtable to fill up in the middle of a compaction and for a deletion
marker to have something below it. A log block of six bytes with a header of two has room
for fragments of four, so that records of 0, 1, 3 and 7 bytes end inside, at and within a
header of the end of a block and fill two; two failed appends shift the rest of the file
against the blocks and back. Timeouts keep the order, and in `sync_live` the ratio, they
have in the code; there recorded heights are pruned every 2 ticks, where the code's 30 s
would be 3, which makes the liveness check a third smaller.

Runs that end in a violation, each of a statement the repository makes:

- `chain_secondary`. "errors now are not fatal" (`main.cpp:2327`): after a postponed
  block fails to connect, the tip in memory is a descendant of it that was never connected.
  It takes a checkpoint that moved the node to a branch of less trust.
- `checkqueue_unused`. "passed queue is supposed to be unused" (`checkqueue.h:180`): the
  constructor reads `nTotal` and `nIdle` without the mutex. In the trace a worker thread has
  entered `Loop` for the first time and has counted itself in `nTotal`; it has not reached
  its wait, where `nIdle` counts it, when the first block's control is constructed. A worker
  between the last check of a block and its wait is in the same position.

Other disagreements between code and comments were met while modelling. No run is kept for
them; each is a note on a hazard in `PROJECT.json`, and the property concerned excludes the
case by a condition of its own:

- a front of the queue on another branch hides a fetchable block (`main.cpp:5177`), and a
  batch that ends on a side branch is not resumed (`main.cpp:2844`);
- when the provider of a snapshot disconnects, block sync stays paused ("So a node never
  hangs", `doc/snap-sync.md:38`); a crash between application and verification leaves a
  chain that is never verified (`init.cpp:931`); `getsnapchunk` reads past the recorded
  length (`main.cpp:3478`);
- children of a transaction that lost a conflict stay in the pool (`miner.cpp:195`);
- a coin whose spend waits in the pool is offered again (`wallet.cpp:2369`), and the index
  of a reserved key may be written again (`wallet.cpp:2702`);
- a failed append makes later acknowledged batches lose their durability
  (`leveldb/include/leveldb/options.h:182`).

## Fairness

- The download half of `MCSync!SyncSpec` (as `BlockDownload!PromptSpec`): the handler loop
  goes on and serves every connected peer (`ThreadMessageHandler2` loops over all nodes);
  prompt peers answer before their next turn ends and stay; they are connected again when
  they are dropped. Nothing is assumed of the others.
- The buffer half (as `OrphanBuffer!FairSpec`): the handler loop drains on every pass; peers
  go on sending what the node does not have.
- `CheckQueue!FairSpec`: weak fairness of each thread; none of spurious wakeups.
- `Snapshot!FairSpec`: a started process goes on, time passes, `SendMessages` runs for
  every connected peer; nothing is assumed of the peers' answers.

`CHECK_DEADLOCK FALSE` stands where the model may stop: when every block has arrived, when
all blocks are verified and the workers have left, when a node has nothing left to do, when
a wallet file was removed and the process died before its copy was renamed (nothing is left
to load), and when a database or a log has reached its bounds.

## Proofs

All proofs are checked by TLAPS, for every value of the constants that satisfies the
assumptions named in the modules. `TreeAssumption`, `OrderAssumption`: blocks form a finite
tree whose heights fall towards the genesis block. `ChainAssumption`, `MempoolAssumption`:
so does trust, and transactions are finite in number. `TransactionAssumption`: a
transaction without inputs is in blocks of one height only, and none spends another of its
block, which `ChainState` leaves to `Mempool`. `ConnectableAssumption`: the blocks of
`Mempool` are those that connect, the others being left to `ChainState`.
`DownloadAssumption`, `QueueAssumption`, `ConnectionsAssumption`, `SnapshotAssumption`,
`KeyPoolAssumption`, `OrphanAssumption`, `LevelDBAssumption`: limits and timeouts are natural numbers, the sets
of threads, checks and nodes are finite, no manifest or peer is the value that stands for
none, the genesis block has no stake. TLC evaluates each of them in a run of its module.

- `BlockDownloadProofs`: `TypeOK`, `TrackedNotLost`, `WithinWindows`, `TrackedUntilHeld`.
  The inductive invariant is the conjunction of the first three with `QueueHeights`: a
  queued block whose height is no longer recorded lies inside the window. Without it the
  window of heights is not inductive, since the assignment loop lets such a block pass
  unchecked. The scheduler is one lemma (`ScheduleStep`), resting on facts on what the loop
  takes from the queue. `TrackedUntilHeld`, which is about steps, needs `BufferBounded`
  besides: a block that is dropped from the buffer was dropped by a full one.
  The module also proves `BufferExact` of `OrphanBuffer`, which is inductive as it stands,
  for `OrphanAssumption` (`BufferInStep`); `sync_live` checks it through an instance of the
  same module. The argument is that a batch takes blocks in the order of the chain: with a
  block that is tried, everything below it is indexed or was accepted before it.
- `ChainStateProofs`: `TypeOK`, `TxIndexMatches`, `NextMatches`, `BestCommitted`,
  `SyncInMainChain`, `SyncAdvances`, `TrustFallsToCheckpoint`, `MostTrust`, for
  `NoLateAbort`, the behaviours without the failure that `chain_secondary` shows. The
  inductive invariant says of the pending batch that it is the database of the chain ending
  in `task.at`, a block on the way from the old tip down to the fork and up to the goal.
  The lemmas `ConnectMatches` and `DisconnectMatches` say that connecting and disconnecting
  a block keep the index exact. For `MostTrust`, `Heavy` says which block may be the
  exception while `SetBestChain` runs, and two lemmas carry the argument: a chain that is
  valid always connects, and an index that is exact proves its chain valid.
- `CheckQueueProofs`: `TypeOK`, `Counted`, `NothingLeft`, and that `CheckQueue` implements
  `CheckAll`. The invariant adds which threads may hold checks, and what `fAllOk` and the
  threads' own results say of the checks done so far.
- `MempoolProofs`: `TypeOK`, `IndexesExact`, `PoolOutsideChain`, `BlockConnects`,
  `BlockComplete`, `OrphansResolved`, `NothingLost`. What is in pool and chain at once
  during a reorganization is what `vDelete` will remove; that, and `BlockInv`, which says
  of a block being collected that what it has so far connects and that nothing in it waits
  any more, make the properties inductive. `BlockComplete`, `OrphansResolved` and
  `NothingLost` say what an operation of several steps has achieved at its last one.
  `OrphansResolved` needs `LookedInv`: an orphan of a transaction the handler has accepted
  is still to be tried, or refused by the pool as it is, or a parent of it is ahead in the
  work queue. `NothingLost` needs `SettledInv`: what the reorganization has gone through is
  refused and stays so, since parents come before their children.
- `CrashProofs`, on `Snapshot`: `AppliedWhole`, `RejectedNeverRuns`. The invariant follows a start of
  the node: the staged files are checked before the old chain goes; the files before `cur`
  are renamed and the others staged, so that a crash between two renamings leaves something
  that is not loaded as a whole snapshot; and a chain that failed its verification stays
  with its marker until it is wiped.
- `CrashProofs`, on `KeyPool`: `UsedOnce`, `KeysDurable`, `WhollyEncrypted`, for any number of clients
  and any size of the pool. The invariant `Sound` relates the records, `setKeyPool`, the
  reservations and the keys in use: a record is of a key that is in the file, in no other
  record, not in use, and reserved under this index only. A part of it holds even when
  `NewKeyPool` has written the index of a reserved key again; without that part a crash,
  which resets `reused`, would not lead back to a sound pool.
- `ConnectionsProofs`: `UsedAreAlive`, `SlotsConserved`, for any number of nodes, threads
  and slots. The invariant is a lower bound of `nRefCount` by the references that count:
  those of the handlers' copies, the one a node is made with as long as it may still be
  dropped, and that of a thread that found the node. `SlotsConserved` needs when a thread
  has a slot, and counts the holders.
- `LevelDBProofs`, with the lemmas of `LevelDBLemmas`: `FilesPresent` and `ReadsSnapshot`,
  for any keys, writers, batches, sizes, number of levels, crashes and failed writes. Neither
  is inductive. The invariant, in `LevelDBInv`, has six parts. `FInv`: the manifest on disk
  says what `versions_` says, except while the background thread is between writing a record
  and installing it, when it says what the version will be; and the files that the edit being
  written, a compaction's outputs and `pending_outputs_` name exist. An error (`bg_error_`)
  ends that agreement, and from then on nothing is deleted. `Stored` and `Held` say what
  files and memory contain. `Numbers`: every number in use, in any version, file or edit, is
  below `next_file`, and the number a manifest record carries is below that of the next one;
  so a new table never overwrites one that a reader has. `Merges`: the inputs of a compaction
  are files of its version. `Reads`: a reader's sequence number and log are not newer than
  the database's, its memtable is the current one as long as the log is, and what it will
  find is what it should. A lookup then rests on three facts: an insertion after it began has
  a higher sequence number, an installed version leaves the reader's alone, and tables never
  change. The replay of the logs is a recursive function; the lemmas need of it only
  what types its tables have and that the numbers it gives out are new. The induction for
  this is over a set of numbers (`CountUp`, from the least element of the numbers outside
  it), since the library's induction theorems take an operator, which the provers cannot
  instantiate.

`BlockDownload`, `ChainState`, `CheckQueue` and `Mempool` have a theorem for their `TypeOK`,
which is not listed as a property of a run; in the other proofs the types are a part of the
inductive invariant.

Model-checked only:

- liveness (`DownloadEnds`, `CallsReturn`, `ConnectedAboveBest`, `FetchEnds`), which is out
  of the provers' reach;
- that `LevelDB` implements `KVStore`, and `ReplaysLog` of `LogFormat`; `Consistent` and
  `RoundTrip` of `AddrMan`; the four properties of `Wallet`. They depend on what folds and
  recursion over sequences compute (records put together and read back, the file
  `peers.dat`, the transactions of a block, the batches a crash has left in the logs), for
  which no induction theorem can be used as it stands; they are left to TLC.

## Not modelled

- Proof of stake, rewards and retargeting: formulas over 64-bit amounts and 256-bit hashes
  and targets. TLC's integers have 32 bits, and with hashes as model values what remains of
  the stake modifier is a choice by an arbitrary order.
- The script interpreter, cryptography, encodings: sequential functions of byte strings
  without shared state.
- RPC, GUI, name resolution, startup: parsing, presentation and I/O around calls into
  modelled parts.
- Relay of transactions and addresses, alerts, loading and unloading of several wallets:
  operations on maps under one lock, whose hazards are those of the parts they call.
- The environment of Berkeley DB: its behaviour under crashes is that of a library that is
  not in the repository; `KeyPool` assumes that a write outside a transaction, and a
  committed one, is durable.
- LevelDB's formats of tables and blocks, iterators, snapshots, caches and repair, and what
  a power failure leaves of unsynced files.
- In modelled parts: the context checks of `AcceptBlock`, the failure of a block index
  record's commit, hardened checkpoints, unusable manifests of a snapshot, bans.

`PROJECT.json` gives the reason for each component.
