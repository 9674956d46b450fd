# TLA+ models of lord

`lord` is an `ord` fork that stores files as content-addressed blobs, timestamps
them through an embedded OpenTimestamps calendar anchored in Bitcoin, gossips the
timestamps to peers, sells storage contracts against Lightning or ecash payments,
keeps an index of sats that follows bitcoind's best chain, and has a wallet that
sends single sats.  This directory holds models of these parts, TLC
configurations that check them on small instances, and TLAPS proofs about the
calendar, its queue, the commitment stores, the index, the market, the data
directory, the server and the wallet for instances of every size.

Paths below are relative to the repository; `PROJECT.json` maps every definition
to the lines it models.

## 1. Inventory

| Component | State | Operations | What is hard |
|---|---|---|---|
| **lord-calendar** (`crates/lord-calendar`) | queue, proofs, batches, pending anchor, in memory behind a lock and in `state.json` | `submit_digest`, `upgrade_digest`, `anchor_once` in a loop | the worker drops the lock around every disk read and RPC; crash, failed save, lost RPC answer, timeout against a late confirmation |
| **lord-ltp**, **lord-iroh** | `ltp/mempool.json`, `ltp/iroh.key`, `ltp/inbound_*.jsonl`, gossip topics | `enqueue`, `drain`, `remove`, expiry; publish, validate and stage frames | files shared by processes; duplicated, reordered, foreign frames |
| **lord-commit** (`crates/lord-commit`) | metadata and order key (LMDB), `.ots` file, breccia log, LTP queue | `timestamp_commitment`, `upgrade_commitment`, `import_inbound_tails`, verification | four stores without a common transaction; rollback; torn appends |
| **lord-storage** (`crates/lord-storage`) | blobs, `COMMITMENT_META`, `COMMITMENT_ORDER`, filepacks, `master.key` | encode, decode, verify, `create_filepack`, migrations | a re-encode replaces metadata that other stores refer to; publication by renames; first use of a key by two processes |
| **lord-market** (`crates/lord-market`) | contracts, pricing, challenge proofs, receipts (LMDB) | request, challenge, invoice, settle, offers | credentials are recorded after the invoice exists; prices and settings change between |
| **lord-payments**, **lord-ecash**, **lord-lightning** | ecash ledger, invoices and payments of the LDK node | choice of rail, pay, look up a payment | which payment proves which contract; which process has the node |
| **index: chain** (`src/index.rs`, `src/index/`) | index database, savepoint files, last savepoint height | `update`: fetch, link, commit, savepoint, detect and undo reorgs | the chain changes while it is read; a fetch thread runs ahead; restore replaces files |
| **index: contents** (`updater.rs`, `utxo_entry.rs`) | outputs, sat ranges, rare sats, addresses, lost sats; a cache | one block, flush, queries | conservation of sats over commits and crashes |
| **wallet** (`src/wallet.rs`, `src/wallet/`) | an LMDB store, the node's wallet | create, restore, send, sweep, sats, the transaction builder | snapshots taken at different times; fee and dust arithmetic; two commands at once |
| **server** (`src/lib.rs`, `src/subcommand/server.rs`) | store mutex, `INDEXER`, `SHUTTING_DOWN`, listeners | requests, index thread, Ctrl-C | lock order, shutdown |
| **settings** (`src/settings.rs`) | none | merging four layers, defaults, validation | values from different layers that depend on each other |
| **ordinals** (`crates/ordinals`) | none | notations, rarity, charms of sats | numeric edges |
| **mockcore** (`crates/mockcore`) | blocks, mempool, wallet of the test node | mine, send, fund, lock | it stands for bitcoind in the models of index and wallet |

How they interact: `lord-commit` submits a commitment's digest to the calendar and
later fetches the confirmed proof; a confirmed proof makes it append a v2 record
to the breccia log and put the commitment in the LTP mempool; the calendar gives
mempool digests priority in a batch and removes them once the anchor is
broadcast; gossip stages peers' tails, which `import_inbound_tails` turns into log
records; a market contract may be requested only for a timestamped commitment;
the market calls the payment coordinator, which chooses ecash or Lightning by
amount.  The index follows bitcoind; the wallet asks the node over RPC and the
server over HTTP; the server's requests and its index thread share one lock.

What makes each component correct:

* calendar: an acknowledged digest is never lost, is eventually anchored, and a
  served proof names a confirmed transaction that commits to the digest;
* commit: the order index follows the metadata, an upgrade makes the four stores
  agree, confirmed proofs are kept, and verification follows the node's chain;
* storage: a published pack is complete, verifies and decodes; what is served is
  what was asked for;
* market: a contract is settled only after a passed challenge and a payment made
  for it, and a payer who paid can get it settled;
* index: it holds blocks that follow one another, ends on bitcoind's chain, and
  agrees with ordinal theory;
* wallet: the sat that was to be sent arrives, nothing inscribed leaves, and a
  printed mnemonic opens the wallet;
* server: requests are answered, shutdown ends, never inside an update.

## 2. Modules

| Module | Models | Source |
|---|---|---|
| `BatchRule` | which batches a drain may take | shared by `Calendar`, `BatchQueue`, `DigestQueue` |
| `Calendar`, `CalendarProofs` | the calendar service, worker, `state.json`, bitcoind; theorems about it | `service.rs`, `anchor.rs`, `persist.rs`, `store.rs` |
| `BatchQueue`, `DigestQueue`, `DigestQueueProofs` | abstract queue: a set and a batch; the ordered queue that implements it; the proof that it does | `queue.rs`, `mempool.rs`, the restore loops of `anchor.rs` |
| `Merkle` | merkle trees, paths and the steps of proofs | `merkle.rs`, `proof.rs` |
| `TxBuilder` | the pipeline that builds a send | `wallet/transaction_builder.rs` |
| `Ordinals` | heights, epochs, degrees, names, rarity, charms, varints | `crates/ordinals` |
| `Storage` | order keys, migrations, Casey archives, content checks | `lord-storage`, `ots_order.rs` |
| `Settings` | merging, defaults, validation, calendar URLs, offers | `settings.rs`, `ots.rs`, `lord-market/src/lib.rs` |
| `Attest` | verification of a proof against headers | `ots_attest.rs`, `ots.rs`, `subcommand/commit` |
| `Algorithms` | calls the six modules above on bounded sets of inputs | |
| `MCCalendar` | instances of `Calendar` and `Algorithms` | |
| `Commit`, `MCCommit`, `CommitProofs` | timestamp, upgrade, import, encode over four stores; theorems | `ots.rs`, `breccia_log.rs`, `entry.rs`, `store.rs`, `encode.rs` |
| `Index`, `MCIndex`, `IndexProofs` | `Index::update`, reorgs and savepoints; theorems | `index.rs`, `updater.rs`, `reorg.rs`, `store.rs` |
| `MockCore` | the node: blocks, mempool, wallet outputs, locks, funding | `crates/mockcore` |
| `OrdinalTheory` | the reference: the sats of every output, sat by sat | |
| `SatIndex` | what a block writes to the tables, the cache, queries | `updater.rs`, `utxo_entry.rs`, `index.rs` |
| `Wallet`, `WalletProofs` | wallet commands between `MockCore` and `SatIndex`; theorems | `wallet.rs`, `wallet/`, `subcommand/wallet` |
| `Market`, `MarketProofs` | contracts and settlement on both rails; theorems | `lord-market`, `lord-payments`, `lord-ecash`, `lord-lightning` |
| `Processes`, `Filepack`, `Ltp`, `DataDir`, `DataDirProofs` | processes on one data directory: packs and keys, mempool and gossip, both together; theorems | `encode.rs`, `filepack.rs`, `master_key.rs`; `lord-ltp`, `lord-iroh` |
| `MCCommands` | instances of `DataDir` and `Market` | |
| `Vectors` | what `Vec::retain`, `drain`, `remove` and `sort` make of a vector | shared by `DigestQueue`, `Ltp`, `MockCore` |
| `Server`, `ServerProofs` | threads, locks and shutdown of `lord server`; theorems | `lib.rs`, `subcommand/server.rs`, `index.rs` |
| `MCServer` | instances of `Server` and `DigestQueue` | |

Compositions: `DataDir` extends `Filepack` and `Ltp`, whose commands run in the same
processes; `Wallet` extends `SatIndex`, which extends `OrdinalTheory` and `MockCore`.

### Calendar

`mem` is `CalendarInner`, `disk` is `state.json`, `wk` is the worker's place in
`anchor_once` with the values it carries from one critical section to the next,
`txs` is what bitcoind knows of anchor transactions.  Queue and batches are sets;
`DigestQueue` justifies that.  Each stretch of code under one lock, and each RPC,
is one action:

| `anchor_once` | Action |
|---|---|
| `reload_inner_from_disk`: read, then install | `WorkerLoad`, `WorkerInstall` |
| `find_confirmed_tx` | `FindConfirmedTx` |
| `finalize_anchor` | `FinalizeAnchor` |
| wait, or `restore_pending_batch` after the timeout | `AwaitAnchor`, `RestorePendingBatch` |
| interval, fee, balance and funding checks | `Preflight` |
| drain and save | `DrainBatch` |
| build, sign, send | `Broadcast` |
| `restore_drained_batch` | `RestoreDrainedBatch` |
| `remove_start_digest` for LTP digests | `ClearLtpDigests` |
| record `pending_anchor`, save | `RecordAnchor` |

`SubmitDigest` is the HTTP handler; `UpgradeAnswer` what `upgrade_digest` says.
`CrashRestart` keeps only the disk.  `Faults` selects what the environment does;
the fault `"race"` lets a submission land between the worker's read of
`state.json` and its installation.  `ProofBuilds` is the condition under which
`finalize_anchor` can build its proofs; `MCCalendar` assumes, and TLC evaluates,
that it is what `Merkle` computes for batches of up to nine digests.

`DigestQueue` keeps `pending`, the batch held by a tick, and the LTP mempool as
sequences, with `enqueue`, both drains, the priority sort and the two restore
loops, which put a batch back at the end of the queue in reverse order.  The
drains and the sort say which positions are kept and which place an element gets
(`Vectors`), not how the loops get there, so that the refinement can be proved.

### Algorithms

`CallInit` chooses a call, one action per algorithm computes its result, and each
property compares results with a definition written without the algorithm's
steps: a merkle root with a path hashed upwards, the notation of a sat with the
block it was minted in, the confirmed height with all paths of the proof.  Hashes
are free terms (`Merkle`) or the value that was hashed (`Storage`, `Attest`).
`Ordinals` scales the supply down and keeps the width of the integers
(`WordBits`).  `TxBuilder` keeps the real sizes of inputs and outputs, the dust
limits and the fee arithmetic.  Settings that the code merges in the same way are
represented by a few of their kind.

### Commit

One record per process holds its place in a command, the metadata it read when it
started and the proof it got.  An LMDB transaction is one step; every other write
is a step of its own that may fail (`"io"`), be cut short (`"torn"`), or be the
last before a crash.  `Timestamp .. Rollback` are `timestamp_commitment`, `Upgrade
.. EnqueueTail` are `upgrade_commitment`, `ImportTail`/`AppendTail` are one tail
of `import_inbound_tails`, which may be any tail that peers can stage, one that
fails the checks included (how it gets into the file is `Ltp`), `Encode` is
`encode_file_with_store`.  The calendar is the environment action
`CalendarAnchors`, and the answers to a submission also include the stub of a dry
run.  `KeysOf` says which order keys the proofs of a root can have.

### Index

A block is the number of the fork it was mined on; `forks` remembers the whole
chain of every fork, which gives each block its parent.  `up` is `Index::update`
with its write transaction, the channel from the fetch thread and the state of a
reorg search.  `FetchBlock` is the fetch thread, `UpdateLoop` the block loop with
its commits (`CommitDue`).  `detect_reorg` asks bitcoind for one hash at a time, so
it is one action per depth.

### SatIndex and Wallet

`MockCore` has transactions with inputs and valued outputs, a mempool, blocks and
a wallet.  Where Bitcoin Core does more than this test node, `Wallet` says so and
marks it external: `fundrawtransaction` also takes the wallet's own unconfirmed
change, and `importdescriptors` may import any of the two descriptors, or none, in
an answer that the code does not look at.  `SatIndex.IndexBlock` is `index_block`
with `index_utxo_entries` and the coinbase, `Commit` flushes the cache.  `Wallet`
is a command per process: it opens its store (two transactions), creates or loads
the node's wallet, waits for the server, takes three snapshots, and builds, signs
and broadcasts.  The rigid variable `scope` chooses what runs: `"index"` (blocks
of any shape and crashes of the indexer), `"create"` (create, restore and kills),
`"spend"` (send, sweep, sats).

### Market

`CreateInvoice`, `AskRail` and then `PersistHash` or `PersistReceipt` are
`create_invoice_for_contract`; `SettleGate`, `SettleBind` and `SettleCheck` are
`settle_storage_contract`.  `Serve` and `Interrupt` are `lord lightning serve`, whose
node keeps other commands from starting theirs; `SetSettings` edits `lord.yaml`,
which a command reads once.  `InvoiceEnds` is the payer, who can only pay an invoice
that some command returned.  `setup` is the installation (features of the build,
roots, prices, whether blobs get lost).

### Filepack, Ltp, DataDir

A process runs a job step by step: the key file (create, write, protect), each
blob and its metadata, the temporary manifest and sidecar, the fingerprints, the
two renames, and the rollback.  Any step on a file may fail, and a process may be
killed before any.  `atomic_write` (`atomic.rs`) names its temporary file after the
target, so that processes share it: opening truncates the file, whoever else has
it open (`open_draft`, `SaveOpen`), the write goes to that file wherever a rename
has moved it by then (`write_draft`, `SaveWrite`), and a rename moves what is there
(`rename_draft`, `SaveRename`).  A blob has three names, since `encode.rs` calls
`atomic_write` for a temporary file of its own.  The temporary manifest and sidecar
are written in one step: a torn one does not parse, and `verify_filepack` refuses
it.  `Ltp` has the read, change and save of the mempool file, the
iroh key, the listener with its file lock, and a network that delivers any frame
any number of times.

### Server

A handler is the sequence of its blocking steps, taken from each route's call
chain.  `MainStep`, `IndexerStep` and `HandlerStep` are the three threads.
`PressCtrlC` may happen at any time, `MaxPresses` times: the `ctrlc` crate counts,
and its thread calls the handler once for each, one after the other.
`HandlerWakes` is the test of the flag: the handler exits at once when somebody,
an earlier call or the main thread after an error, has set it.

## 3. Runs

Bounds are chosen as the smallest at which the cases named here occur.  Where
several small instances answer different questions, a variable that never changes
(`setup`, `part`, `scope`) picks one of them at the start.

| Run | Bounds | Shows |
|---|---|---|
| `calendar` | faults: 2 digests, batches of up to 3, 3 submissions, 2 transactions, all faults but the race; batches: the same faults with 3 digests in one batch, whose proofs cannot be built; algorithms: trees of up to 9 leaves in blocks of up to 6 transactions; wallets of 3 outputs around dust and postage; every sat of a supply with all halvings; proofs of depth 3; stores of 2 roots at every schema; directories of up to 3 files in 3 levels; four layers of settings; timestamps with two levels of forks | `AckedDigestsTracked`, `ProofsAnchored`, `SavedProofServed` at every crash point; two transactions suffice for a timed-out anchor whose successor commits to the same digest; the eight properties of `Algorithms` compare each algorithm with its reference |
| `commit` | 1 process, 2 roots, 3 keys, 3 log records; crash, failing writes and torn appends; force and re-encoding with one root | `OrderIndexesMeta`, `UpgradeVerifies`, `OneV2PerRoot`, `TimestampedListed`, `ConfirmedProofKept` |
| `index` | 5 blocks, 2 reorgs, savepoints every 2 blocks, all faults; 4 blocks, 2 reorgs, all faults but failing RPCs; 14 blocks, 1 reorg of up to 2 blocks, savepoints every 4 blocks, fair | `IndexLinked` everywhere; `UpdatedIndexOnChain` where no RPC fails (a failing one lets an update end early and report success); `RollbackOnChain`, `IndexCatchesUp` where one reorg happens; with 14 blocks the older of two savepoints is replaced before the last possible reorg |
| `wallet` | chains of 2 blocks of any shape for the index; 2 processes and 2 mnemonics for creation; chains of 3 blocks, 6 transactions and one spending command | `SatsIndexed`, `SentSatsArrive`, `BroadcastIsReported`, `MnemonicOpensWallet`, `SatsListedWhereSendFinds` |
| `commands` | 2 processes, 2 jobs, 1 failure and 1 kill on one directory, LTP queues of 1 entry; seven installations of the market with 2 processes or 2 roots, 2 invoices | `SettledWasChallenged`, `PaidIsSettleable`, `HashedSettledByOwnInvoice`, `UndisturbedPackVerifies`, `VerifiedPackDecodes`, `ManifestIsReadyMarker`, `LtpFilesSound` |
| `server` | server: 2 requests, 1 new block, 2 Ctrl-C, fair; with a sat index all routes but `/r/utxo` and `/outputs` (the steps of `/output`, twice), without one `/r/utxo` and routes that differ then; queue: 3 digests, batches of 2, 2 priorities, LTP depth 3, 4 submissions, fair | `NoExitDuringUpdate`, `RequestsAnswered`, `ShutdownCompletes`; refinement of `BatchQueue` and `QueuedEventuallyTried`: the batch overflows, batches come back and digests are submitted again |
| `calendar_reload_race` | 2 digests, the race only | **refuted**: `AckedDigestsTracked`.  A submission between the worker's read of `state.json` and its installation is acknowledged and then forgotten |
| `calendar_live` | 3 digests, batches of up to 3, no faults, fair | **refuted**: `AckedEventuallyAnchored`.  The anchor of three digests is confirmed, `finalize_anchor` cannot build their proofs, and it is pending for good: every later tick ends there (`anchor.rs:116`).  The default batch is 64 |
| `merkle` | 1 to 9 leaves, 1 to 6 transactions | **refuted**: `ConfirmedProofsVerify`.  `merkle_path_steps` walks the path in reverse (`proof.rs:120`) |
| `migration` | 2 roots, every schema | **refuted**: `MigrationsChain`.  A store at schema 2 moves to the newest version without the rekeying that versions 1 and 3 get (`store.rs:524`) |
| `commit_same_key` | 2 roots, 1 key, no faults | **refuted**: `OrderIndexesMeta`.  A proof without a fork has the empty order key, as all proofs of the embedded calendar have; a second commitment's key is refused, and the rollback deletes the first one's entry |
| `server_utxo` | 1 request, a sat index, fair | **refuted**: `RequestsAnswered`.  `/r/utxo` locks the store mutex while it holds it |

`PROJECT.json` quotes what the six refuted runs contradict under `findings`.

### Limits of what holds

Properties state the exceptions that the code has:

* `AckedDigestsTracked`: a digest that is only in `batches` counts as tracked.  A
  kill between the save of a drained batch and the record of its anchor leaves its
  digests there, and no later tick takes them up (`anchor.rs:205`).
* `MerklePathsLead` is about paths, which are right for every leaf, and roots.  What
  is built from them is the refuted `ConfirmedProofsVerify`: the proofs of a batch of
  three cannot be built, and a stored proof replays to the header's merkle root only
  for one digest in a block of two transactions.
* `NotationsRoundTrip`: not for degrees whose height overflows a word, which release
  builds let wrap around; percentiles, computed in `f64` by the code, are exact
  fractions here and are only parsed.
* `OrderKeysFollowProofs`: a long path that takes child 254 at every fork sorts
  behind the sentinel for proofs without an attestation.
* `MigrationReindexes` asks for new order keys where `migrate_v3_to_v4` runs.  At
  schema 2 it does not run (`migration`), and the property is about the times that
  timestamps get from the log.
* `SettingsCoherent`: the upgrade path is wrong for a calendar URL that ends in
  `/timestamp/`.
* `UpgradeVerifies`: not for a log that is already unreadable because an append
  was torn.  And an upgrade appends no second v2 record: where a peer's tail with
  another height or key was imported while the proof was pending, that record
  stays (`ots.rs:625`), and only the other stores agree.  After `timestamp
  --force` only an upgrade makes `commit verify --full` accept again, since it
  compares with the first record (`ots.rs:865`).
* `commit` has one process.  With `Procs = {p1, p2}` `OrderIndexesMeta` fails: the
  metadata is read before the calendar is called and not again in the write
  transaction (`ots.rs:246`), so two timestamps of one commitment both succeed and
  leave it listed under two keys.
* `SettledWasChallenged`: a challenge that was passed once counts, although the blob
  may have been lost since (`settlement.rs:695`).
* `PaidIsSettleable`: not while `lord lightning serve` has the node, and not while
  ecash settings are unusable.
* `HashedSettledByOwnInvoice` needs the recorded hash: without one,
  `settle_contract_on_node` accepts any payment of the amount (`payments.rs:122`).
* `ManifestIsReadyMarker`: a failed publication of a pack that is already there
  removes its sidecar and leaves the manifest.
* `UndisturbedPackVerifies`: encoding a file of a pack again, or packing it in
  another directory, unbinds it from the first pack.
* `VerifiedPackDecodes`: `atomic_write` is not atomic between processes, although
  `atomic.rs:5` says so.  Of two encoders of one file, one truncates the temporary
  file that the other renames into place; if it is then stopped, the blob stays
  empty or short under a pack that verifies.  The property says that nothing less
  does this (`spoiled`), and that a blob is never missing.
* `LtpFilesSound`: a listener killed inside a line makes the staging file
  unreadable; racing mempool commands lose entries, and may leave a file that is no
  snapshot (`raced`).  With queues of one entry the run cannot meet a digest twice
  in a queue: that clause rests on the proof.
* `BroadcastIsReported`: `send <amount>` panics after the broadcast ("input not found
  in utxos", `wallet.rs:379`) when Core funds it with an output that was unconfirmed
  when the command listed its outputs: the wallet's own change, or one that a block
  has confirmed since.  The run reaches this, and the property says that there is no
  other way.  At most one unconfirmed output is added (bound).
* `MnemonicOpensWallet`: the answer to `importdescriptors` is not looked at, and two
  errors count as success (`wallet.rs:295-305`), so that a mnemonic may be printed
  that is not in the wallet; and a kill before the import leaves a wallet without
  descriptors whose name is taken.  Such a wallet is refused by every command.
* `NoExitDuringUpdate`: a second Ctrl-C exits at once, as the message says; so does
  the first one after a failed bind, while the main thread, which has set the flag,
  waits for the index thread.  A second Ctrl-C while the handler itself waits has
  to wait with it, since the `ctrlc` crate calls the handler on one thread.
* `ShutdownCompletes`: a first Ctrl-C before the listener is registered stops the
  index thread only, and the server goes on until the second.
* `RollbackOnChain` and `IndexCatchesUp` need enough savepoints: those above the
  restored height survive a rollback (`reorg.rs:142`) and displace valid ones, so a
  second reorg soon after can be called recoverable and have none.

Deadlock is checked in the calendar's refuted runs, whose worker never stops.  The
other configurations turn it off: their inputs are bounded, their processes end, or
an algorithm is called once.

### Fairness

* `Calendar`: the tokio task calls `anchor_once` forever (`WF` on the worker's
  steps), time passes (`WF(IntervalElapses)`), and a transaction that stays in the
  mempool is mined (`WF(Confirm(t))`).  Nothing is assumed about clients, and
  `calendar_live` injects no faults, since a permanently failing RPC would excuse
  the calendar.
* `DigestQueue`: the worker keeps draining, and every batch it takes comes back or
  is anchored; which of the two is left open.  `QueuedEventuallyTried` excepts times
  when the LTP queue is not empty, since its digests go first by design.
* `Index`: `src/subcommand/server.rs` starts a thread that calls `index.update()`
  in a loop (`WF(UpdateStep)`), the fetch thread runs (`WF(FetchBlock)`) and blocks
  keep arriving up to the bound (`WF(Mine)`).
* `Server`: threads run on (`WF`).  Waiting for the store mutex is strongly fair:
  the index thread sleeps between updates with the mutex free, and requests hold it
  briefly, so a waiter finds it free again and again.  Clients and Ctrl-C are not
  fair.

## 4. Proofs

Theorems hold for every value of the constants: any number of processes, roots,
keys, blocks, reorgs, invoices and faults, and no bound.  No invariant that a run
checks is inductive as it stands; each section below names the strengthening and
why it is needed.

### Calendar (`CalendarProofs`)

* `CalendarTyped`: `Spec => []TypeOK`.  It needs `WorkerInv`, which says which of
  the worker's locals are set at which step: without it `RecordAnchor` could store
  an anchor with no transaction.
* `AckedNeverLost`: if the race is excluded, `Spec => []AckedDigestsTracked`.  The
  property speaks of the disk only: `CrashRestart` and `WorkerInstall` copy disk to
  memory and every save copies memory to disk.  `TrackedInv` says that memory and
  disk both account for acknowledged digests, that disk accounts for whatever
  memory has a proof for (a repeated submission is acknowledged from memory alone),
  that a loaded snapshot equals the disk, and that the worker's pending anchor is
  the one in memory and on disk while it polls and that there is none while it
  holds a batch, so that `Requeued`, `Finalized` and `Recorded` never discard
  another anchor.  The assumption `"race" \notin Faults` is necessary:
  `calendar_reload_race` is the counterexample.
* `ServedProofsAnchored`: `Spec => []ProofsAnchored`, races included.
  `AnchoredInv` says that a proof or an anchor held anywhere (memory, disk, the
  worker's snapshot and copies) agrees with what bitcoind accepted, and that
  bitcoind never takes back a confirmation or a commitment.
* `SavedProofsServed`: under `QuietReload`, the action property `SavedProofServed`.
  `ServedInv` says that memory has every proof that disk has, that a loaded
  snapshot has the proofs of the disk, and that memory has more than the disk only
  where saves may fail.  `QuietReload` excludes that submissions fall into a reload
  *and* saves fail: then a submission in a reload writes proofs to disk which an
  earlier save failed to write and which the installation drops from memory.

The assumptions on constants are `CalendarAssumption` and the one of `BatchRule`
(the batch size is a positive number); every calendar run evaluates them.

### Commit (`CommitProofs`)

Two hypotheses stand for what the code does not ensure.  `[]DistinctRoots`: no two
commands work on one root at the same time; with two processes on one root
`OrderIndexesMeta` fails (section 3), since metadata are read before the calendar is
called and written after.  Commands of different roots interleave freely, which
the run with its one process does not show.  `[]Uncontested`: no timestamp rolls
back while another root is listed under its key.  Nothing is assumed about the keys
themselves: all proofs of the embedded calendar share the empty one, and roots may
share keys, refuse each other and hand them on.  What is excluded is the one step
in which `commit_same_key` ends.

* `TimestampedAreListed` (needs both): `TimestampedListed`.  `ListedInv` says that a
  command's root is listed under the key it read until it commits and under the key
  it committed from then on, whatever its metadata are (`Holds`).  With
  `commit_same_key` this says that the rollback of `ots.rs:729` is the only way in
  which an entry is lost.
* `ListedUnderOwnKey` (needs `DistinctRoots`): a root is never listed under a key that
  its metadata do not have, however roots contend for keys.
* `AtMostOneV2` (needs `DistinctRoots`): `OneV2PerRoot`.  `OneV2Inv` says that a
  command that is about to append has looked for a v2 record and found none, and
  that nobody else can add one in between.
* `StoresInvariant` (needs `DistinctRoots`): what each program counter promises
  about metadata, proof file, log and calendar (`CommandsAgree`, `MetaAgrees`,
  `CalendarAgrees`).  `ConfirmedProofsStay` (the action property
  `ConfirmedProofKept`) and `UpgradeRepairs` (`UpgradeVerifies`, for any tails that
  peers send at any time) follow from it:
  what a command read before it called the calendar is still true when it writes.
* `OrderIsIndex` (needs both): `OrderIndexesMeta`, from `TimestampedAreListed` and
  `ListedUnderOwnKey`.

### Index (`IndexProofs`)

* `IndexStaysLinked`: `Spec => []IndexLinked`.  `LinkedInv` adds that every block
  has its ancestors on the fork that mined it (`WellForked`), and that the write
  transaction, the batch and the blocks that the fetch thread sent ahead of the
  loop are parts of such chains; a block is then linked by comparing one parent
  hash, although the chain may change between two fetches.
* `UpdatedIndexStaysOnChain`: `Spec => []UpdatedIndexOnChain`, for any number of
  reorgs and crashes.  `OnChainInv` says that while bitcoind does not reorg, what an
  update fetched and indexed is on the chain it follows (`FetchedOn`, `Following`).
* `RollbackLeavesNoOrphan`: `Spec => [][NothingOrphaned]_vars`, the half of
  `RollbackOnChain` about the restored index, from the depth that the search of
  `detect_reorg` has reached (`RollbackInv`).
* `RollbacksStayOnChain`: `Spec /\ []Recoverable => RollbackOnChain`, both halves:
  `handle_reorg` also finds a savepoint (`SavepointFound`).  This is not true of
  every setup, and `Recoverable` says when: the orphans and the block below them
  fit in the heights between the savepoints that are kept, `(MaxSavepoints - 1) *
  Interval` (with the default settings, reorgs of up to 9 blocks); bitcoind had an
  interval of blocks below them from the start; and while
  the index still holds orphaned blocks the new chain has not outgrown the old one
  by about `Interval * MaxSavepoints`.  Without the last one
  `is_savepoint_required` takes the index for one that catches up and makes no
  savepoint: TLC finds a recoverable reorg with no savepoint below it with savepoints
  every 2 blocks, 2 of them kept, 4 blocks at first and 14 at most, and reorgs of
  one block.  The argument is the pigeonhole principle: savepoints above `Interval`
  are at least `Interval` apart (`Stored`), so that `MaxSavepoints` of them do not fit
  above the deepest point a reorg can reach (`FewApart`); and when the index came to
  that point a savepoint was due (`Covered`), whatever the commit interval, the
  window or a shutdown did.  `SavedInv` says this of the database, the write
  transaction and the step of the commit that the update is in, until nothing
  orphaned is left (`Calm`), which is for good (`CalmStep`); `ForkedInv` bounds what
  the reorg took away.
* `ShallowReorgsStayOnChain`: the same without a hypothesis on behaviours, for setups
  whose bounds imply `Recoverable` (`Shallow`).  The setups of the `index` run are of
  this kind; the third one meets all three bounds, two of them with equality.

### Market (`MarketProofs`)

`SettledAfterChallenge`, `SettledByOwnInvoice` and `PaidInvoicesSettle` prove the
three market properties.  A command settles from what
it read steps earlier, so `MarketInv` says what each program counter promises about
the stores (`Commands`), ties the hashes in the market's store to the invoices of
the LDK node, which no transaction spans (`Hashed`, `Returned`, `Invoiced`), and
says what every settlement rests on (`Based`).

### Data directory (`DataDirProofs`)

* `VerifiedPacksDecode`: `DirSpec => []VerifiedPackDecodes`.  `KeyInv` says that
  at most one process writes the key file, that no process holds a key from it
  before it is whole and private, and that every root in the metadata has its blob
  in place and a key that fits; the pack's entries are then irrelevant, whoever
  wrote them.  That the blob is whole is `WholeInv`: an open file is held by a
  process that is writing it, which is not alone once the file has another name
  than the draft; and unless the root is spoiled only a draft is torn, and none
  that somebody is about to write or rename.
* `ManifestsAreReadyMarkers`: `DirSpec => []ManifestIsReadyMarker`.  `ReadyInv`
  says that a process about to publish a manifest has the sidecar beside it, or
  some creator of the same pack, which shares its files, failed.

The assumptions are `ProcessesAssumption` (`None` is no process) and
`JobsAssumption` (a job has files: `create_filepack` bails on an empty directory,
`filepack.rs:64`), which the `commands` run evaluates.

### Undisturbed packs (`DataDirProofs`)

`UndisturbedPacksVerify`: `DirSpec => []UndisturbedPackVerifies`.  `alone` and
`quiet` are history: a command that shared no file with another one since it
started, and the packs such a command made which none has touched since.  The
frame lemmas say that a step changes the metadata of its own job's roots only
(`MetaFrame`) and the files of its own pack only (`FileFrame`); jobs that share
nothing have neither in common (`RootsApart`, `PacksApart`).  The invariant has
four parts, each proved from those before it:

* `EntryInv`: the entries of a command are those of its first files, in order;
* `RivalInv`: no running command shares a file with one that is alone or with a
  quiet pack;
* `ManifestInv`: a manifest, temporary or published, is the one its fingerprint was
  taken of, whoever wrote it;
* `QuietInv`: a command that is alone finds the sidecar it wrote and the fingerprint
  it put in the metadata, through the two renames; a quiet pack verifies.

### Transport (`DataDirProofs`)

`LtpFilesStaySound`: `DirSpec => []LtpFilesSound`.

* `StagingInv`: a listener between a record and its line end holds the lock of the
  file, so that at most one line is open; a file in which no listener was killed
  consists of whole lines but for that one.
* `MempoolInv`: not only the file but the temporary file, which all processes share,
  and every copy a command works on are within the limits, so that it does not
  matter whose rename comes last.  Until two writers met (`Calm`) the temporary file
  was last opened by the one that writes it, and a rename moves a whole snapshot.
  `RetainOK` says that what `Vec::retain` and
  `Vec::drain` keep is no longer and repeats no digest.  It rests on `NthIs`, that
  the n-th position of those kept exists, by the least-number principle.

`LtpAssumption` says which commands there are and that the depth is a number.

### Server (`ServerProofs`)

`ServerExitsAfterUpdate`: `Spec => []NoExitDuringUpdate`.  `ShutdownInv` ties the
`INDEXER` mutex, the join handle and the index thread together: a handle that was
taken belongs to a thread that still joins, or the index thread has ended.
`FlagHasCause` ties the flag to who set it: an earlier Ctrl-C, or the main thread
when it took the handle; hence what the immediate exit of the handler means.

### Digest queue (`DigestQueueProofs`)

`QueueImplementsBatchQueue`: `QueueSpec => ImplementsBatchQueue`, the refinement
of the set queue that `Calendar` uses.  `QueueInvariant` says that neither the
queue, nor the batch, nor the LTP mempool has a digest twice; otherwise the set of
a batch would be smaller than the batch, and a drain would leave behind what it
took.  The lemmas are about places: every element of a finite set has its own
place in a total order and every place is taken (`PlacesTaken`), so that `retain`
and `sorted` return what they should; `Divides` says that a drain splits the queue
into a batch of the right size and the rest, and `PrioritizedDivides` that it
takes nothing else before a queued digest that has priority.

### Wallet (`WalletProofs`)

* `MnemonicsOpenWallet`: `WalletSpec => []MnemonicOpensWallet`.  `OneInitialiser` says
  that the node lets one command create the wallet, that only this command gets to
  the import, that no descriptor is in the wallet before, and that a wallet some
  command works with is not touched any more.
* `BroadcastsReported`: `WalletSpec => []BroadcastIsReported`.  `ReportInv` says
  that of the transactions that were confirmed when a command listed the wallet's
  outputs, its snapshot has every output that the node can still spend: none
  becomes unspent again, and none becomes the wallet's when addresses are given
  away, since no transaction pays an address before (`ChainTyped`, `NodeMoves`).
  Whatever else the node funds a payment with is then of a transaction that was
  not confirmed, and the builder of the other commands spends from the snapshot
  anyway.

`MockCoreAssumption`, `SatIndexAssumption` and `WalletAssumption` (the commands that
spend are commands) are evaluated by the `wallet` run.

### Only model-checked

* Liveness: `QueuedEventuallyTried`, `IndexCatchesUp`, `RequestsAnswered`,
  `ShutdownCompletes`.
* The eight properties of `Algorithms` that hold, and of `Wallet` the three about sats
  (`SatsIndexed`, `SentSatsArrive`, `SatsListedWhereSendFinds`): merkle trees, sat
  ranges and the transaction builder are folds and recursions, and what one
  computes for every input is an induction over data.
* `RollbackOnChain` after a reorg that is not `Recoverable`: it is false there, see
  above.

## 5. Abstractions and what is not modelled

* A digest, root, key, payload or path is a model value or a member of a small set.
  The contents of proofs are modelled where a property is about them (`Merkle`,
  `Attest`, `Storage`), and elsewhere by the order key and the height.
* Reorgs of confirmed anchors: the calendar accepts one confirmation as final and
  has no code that undoes it, so `txs` never goes back from "confirmed".
* `Calendar` has one process.  Two processes with a calendar of their own on one
  directory overwrite each other's `state.json`; the embedded calendar is reached
  over HTTP.
* Two `lord commit` processes on one root: the theorems about `Commit` but its types
  assume there are none, and the run has one process.
* Two processes that write the first ecash seed, and Ctrl-C while the index is
  being opened.
* `index/fetcher.rs`: only reached by an updater without a full utxo index, which
  no build makes.
* The carbonado codec, CBOR bytes, descriptors and signatures; LMDB, LDK, cdk and
  iroh are external.  An LMDB write transaction is an atomic step.
* HTTP presentation, templates, API types, satscard, `lord-db` (a wrapper of LMDB),
  `lord-pack` (a command line around `create_filepack`), `lord doctor`, the audit and
  contributor tools and fuzz targets have no state of their own that a model would
  say more about than a test does.

## 6. Plan

The models were written in the order in which the parts depend on one another:
calendar and queue, commit, market, index, then storage, transport, wallet,
settings and server.  Of the safety properties those of `Algorithms` and the three
about sats are not proved; they and liveness stay with the runs.
