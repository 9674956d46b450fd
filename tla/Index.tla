-------------------------------- MODULE Index --------------------------------
(***************************************************************************)
(* Following bitcoind's best chain: Index::update, the block loop and its  *)
(* fetch thread (index/updater.rs), reorg detection and recovery           *)
(* (index/reorg.rs) and the savepoint files (index/store.rs).              *)
(*                                                                         *)
(* A reorg starts a new fork.  A block is its height and the number of the *)
(* fork it was mined on: forks[f] is the whole chain that fork f ended in, *)
(* so the parent of a block of fork f at position p is forks[f][p - 1].    *)
(* A block at height h is at position h + 1 of a chain.                    *)
(***************************************************************************)
EXTENDS Naturals, Sequences, SequencesExt, FiniteSets, FiniteSetsExt, Functions

CONSTANTS Setups   \* the instances that are considered, see SetupKinds

FaultKinds ==
  { "crash",    \* the process is killed and restarted
    "rpc",      \* the fetch thread gives up on a block
    "shutdown", \* SHUTTING_DOWN ends the block loop early
    "shorter" } \* a reorg may leave a shorter chain (invalidateblock)

\* The index settings, the capacity of the fetch channel, the blocks bitcoind
\* has at first, bounds on the length of the chain, on reorgs and on the blocks
\* one of them orphans, and the failures that happen: a choice that a behaviour
\* makes once.
Positive == Nat \ {0}
SetupKinds ==
  [savepoint_interval : Positive, max_savepoints : Positive, commit_interval : Positive,
   window : Positive, initial_blocks : Positive,
   max_blocks : Nat, max_reorgs : Nat, max_orphans : Nat, faults : SUBSET FaultKinds]

ASSUME IndexAssumption == \A s \in Setups : s \in SetupKinds

VARIABLES
  forks,       \* the chains bitcoind has followed; the last is the best one
  db,          \* the committed index database
  savepoints,  \* the snapshots in savepoints/, by height
  torn,        \* heights of savepoints whose copy did not finish
  up,          \* Index::update: where it is and its locals
  quiet,       \* the chain was not shorter than the index when the update
               \* began, and has not reorged since (history)
  setup        \* never changes

vars == <<forks, db, savepoints, torn, up, quiet, setup>>

Interval == setup.savepoint_interval
MaxSavepoints == setup.max_savepoints

Forks == 1 .. setup.max_reorgs + 1

\* The index database: the fork of the block header at every height, and
\* Statistic::LastSavepointHeight.
Databases == [blocks : Seq(Forks), last : Nat]
NewDatabase == [blocks |-> <<>>, last |-> 0]

chain == Last(forks)

Pcs == {"idle", "loop", "commit", "savepoint", "copy", "record",
        "detect", "recover", "restore", "broken"}

\* The blocks in the write transaction, how many of them are not committed,
\* the fetched blocks, whether the fetch thread runs, the depth of a reorg,
\* the savepoint to restore, and whether the last update returned Ok.
Updates == [pc : Pcs, blocks : Seq(Forks), uncommitted : Nat, rx : Seq(Forks),
            fetching : BOOLEAN, depth : Nat, target : Nat, ok : BOOLEAN]
Idle == [pc |-> "idle", blocks |-> <<>>, uncommitted |-> 0, rx |-> <<>>,
         fetching |-> FALSE, depth |-> 0, target |-> 0, ok |-> FALSE]

Init ==
  /\ setup \in Setups
  /\ forks = <<[h \in 1 .. setup.initial_blocks |-> 1]>>
  /\ db = NewDatabase
  /\ savepoints = <<>>
  /\ torn = {}
  /\ up = Idle
  /\ quiet = TRUE

Goto(pc) == up' = [up EXCEPT !.pc = pc]
ReturnErr == up' = Idle

-----------------------------------------------------------------------------
\* Updater::update_index

\* block_hash_in_txn(height - 1) = prev_blockhash, for a block of fork f
LinksToAnything(f) == TRUE
LinksTo(f) ==
  LET height == Len(up.blocks)
  IN  height > 0 => up.blocks[height] = forks[f][height]

\* The index is as long as the chain but ends in another block.
TipUnchecked(blocks) == FALSE
TipReorged(blocks) == Len(blocks) = Len(chain) /\ Last(blocks) # Last(chain)

\* Index::update begins a write transaction; update_index compares the tips
\* and starts the fetch thread.
BeginUpdate ==
  /\ up.pc = "idle"
  /\ quiet' = (Len(db.blocks) <= Len(chain))
  /\ up' = IF TipReorged(db.blocks)
           THEN [Idle EXCEPT !.pc = "detect", !.blocks = db.blocks, !.depth = 1]
           ELSE [Idle EXCEPT !.pc = "loop", !.blocks = db.blocks,
                             !.fetching = TRUE]
  /\ UNCHANGED <<forks, db, savepoints, torn>>

\* fetch_blocks_from runs ahead of the loop and stops at the first height
\* bitcoind does not have, or when get_block_with_retries gives up.
NextFetch == Len(up.blocks) + Len(up.rx) + 1

FetchBlock ==
  /\ up.pc \in {"loop", "commit", "savepoint", "copy", "record"}
  /\ up.fetching
  /\ Len(up.rx) < setup.window
  /\ \/ /\ NextFetch <= Len(chain)
        /\ up' = [up EXCEPT !.rx = Append(@, chain[NextFetch])]
     \/ /\ NextFetch > Len(chain) \/ "rpc" \in setup.faults
        /\ up' = [up EXCEPT !.fetching = FALSE]
  /\ UNCHANGED <<forks, db, savepoints, torn, quiet>>

\* Reorg::is_savepoint_required
is_savepoint_required(last, height) ==
  /\ height < Interval \/ height - last >= Interval
  /\ Len(chain) - 1 <= height + Interval * MaxSavepoints + 1

\* Does update_index commit after this block?
CommitDue(blocks) ==
  \/ up.uncommitted + 1 = setup.commit_interval
  \/ is_savepoint_required(db.last, Len(blocks))

\* index_block, and whether to commit after it
IndexBlock ==
  LET blocks == Append(up.blocks, Head(up.rx)) IN
  /\ up.pc = "loop"
  /\ up.rx # <<>>
  /\ LinksTo(Head(up.rx))
  /\ up' = [up EXCEPT !.pc = IF CommitDue(blocks) THEN "commit" ELSE "loop",
                      !.blocks = blocks, !.rx = Tail(@),
                      !.uncommitted = @ + 1]
  /\ UNCHANGED <<forks, db, savepoints, torn, quiet>>

\* index_block on a block that does not link: the error drops the write
\* transaction and the channel, once the depth is known.
MeetReorg ==
  /\ up.pc = "loop"
  /\ up.rx # <<>>
  /\ ~LinksTo(Head(up.rx))
  /\ up' = [up EXCEPT !.pc = "detect", !.depth = 1, !.rx = <<>>,
                      !.fetching = FALSE]
  /\ UNCHANGED <<forks, db, savepoints, torn, quiet>>

\* The channel is closed, or the process is shutting down: what is not yet
\* committed is, and then update returns.  A shutdown that is noticed right
\* after a commit, with nothing left to commit, also returns there; the model
\* lets the loop take the next block first.  The last transaction only stores
\* a timestamp.
FinishUpdate ==
  /\ up.pc = "loop"
  /\ \/ up.rx = <<>> /\ ~up.fetching
     \/ "shutdown" \in setup.faults /\ up.uncommitted > 0
  /\ IF up.uncommitted > 0
     THEN up' = [up EXCEPT !.pc = "commit", !.rx = <<>>, !.fetching = FALSE]
     ELSE up' = [Idle EXCEPT !.ok = quiet]
  /\ UNCHANGED <<forks, db, savepoints, torn, quiet>>

\* The loop of update_index, until the channel is closed or a block does not link.
UpdateLoop == IndexBlock \/ MeetReorg \/ FinishUpdate

-----------------------------------------------------------------------------
\* Updater::commit

CommitBlocks ==
  /\ up.pc = "commit"
  /\ db' = [db EXCEPT !.blocks = up.blocks]
  /\ up' = [up EXCEPT !.pc = "savepoint", !.uncommitted = 0]
  /\ UNCHANGED <<forks, savepoints, torn, quiet>>

\* The height a savepoint is named after: the number of blocks in it.
SavepointHeight == Len(db.blocks)

\* Reorg::update_savepoints: make room ...
Kept(points) ==
  IF Cardinality(DOMAIN points) >= MaxSavepoints
  THEN DOMAIN points \ {Min(DOMAIN points)}
  ELSE DOMAIN points

DropOldestSavepoint ==
  /\ up.pc = "savepoint"
  /\ IF is_savepoint_required(db.last, Len(db.blocks))
     THEN /\ savepoints' = Restrict(savepoints, Kept(savepoints))
          /\ torn' = torn \cap Kept(savepoints)
          /\ Goto("copy")
     ELSE Goto("loop") /\ UNCHANGED <<savepoints, torn>>
  /\ UNCHANGED <<forks, db, quiet>>

\* The savepoints with a snapshot of the database.
copy_to_savepoint ==
  [s \in DOMAIN savepoints \cup {SavepointHeight} |-> IF s = SavepointHeight THEN db ELSE savepoints[s]]

\* ... copy the database; heed3 may refuse to overwrite a snapshot ...
CopyToSavepoint ==
  /\ up.pc = "copy"
  /\ \/ /\ savepoints' = copy_to_savepoint
        /\ torn' = torn \ {SavepointHeight}
        /\ Goto("record")
     \/ /\ SavepointHeight \in DOMAIN savepoints
        /\ ReturnErr
        /\ UNCHANGED <<savepoints, torn>>
  /\ UNCHANGED <<forks, db, quiet>>

\* ... and only then record its height, which the snapshot does not have.
RecordSavepoint ==
  /\ up.pc = "record"
  /\ db' = [db EXCEPT !.last = SavepointHeight]
  /\ Goto("loop")
  /\ UNCHANGED <<forks, savepoints, torn, quiet>>

-----------------------------------------------------------------------------
\* Reorg::detect_reorg asks bitcoind for one block hash after the other.

max_depth_one_savepoint_less(height) ==
  (MaxSavepoints - 2) * Interval + (height % Interval)
max_recoverable_reorg_depth(height) ==
  (MaxSavepoints - 1) * Interval + (height % Interval)

\* checked_sub and saturating_sub: below height 0 the index's tip is compared
\* with the genesis block.
SameBlock(height, depth) ==
  IF depth <= height
  THEN /\ height - depth < Len(chain)
       /\ up.blocks[height - depth + 1] = chain[height - depth + 1]
  ELSE height = 1

DetectReorg ==
  LET height == Len(up.blocks) IN
  /\ up.pc = "detect"
  /\ \/ /\ up.depth >= max_recoverable_reorg_depth(height)   \* Unrecoverable
        /\ ReturnErr
     \/ /\ up.depth < max_recoverable_reorg_depth(height)
        /\ IF SameBlock(height, up.depth)
           THEN up' = [up EXCEPT !.pc = "recover", !.target = height - up.depth]
           ELSE up' = [up EXCEPT !.depth = @ + 1]
  /\ UNCHANGED <<forks, db, savepoints, torn, quiet>>

\* savepoint_height_for_reorg
SavepointsUpTo(target) == {s \in DOMAIN savepoints : s <= target}
savepoint_before_reorg(target) == Max(DOMAIN savepoints)
savepoint_height_for_reorg(target) == Max(SavepointsUpTo(target))

\* Reorg::handle_reorg: choose a savepoint, or fail ...
HandleReorg ==
  /\ up.pc = "recover"
  /\ \/ /\ SavepointsUpTo(up.target) # {}
        /\ up' = [up EXCEPT !.pc = "restore",
                            !.target = savepoint_height_for_reorg(up.target)]
     \/ SavepointsUpTo(up.target) = {} /\ ReturnErr
  /\ UNCHANGED <<forks, db, savepoints, torn, quiet>>

\* ... and put its files in place of the database; update then starts over.
RestoreFiles ==
  /\ up.pc = "restore"
  /\ IF up.target \in torn
     THEN Goto("broken") /\ UNCHANGED db
     ELSE /\ db' = savepoints[up.target]
          /\ up' = Idle
  /\ UNCHANGED <<forks, savepoints, torn, quiet>>

-----------------------------------------------------------------------------
\* The environment.

Mine ==
  /\ Len(chain) < setup.max_blocks
  /\ forks' = [forks EXCEPT ![Len(forks)] = Append(@, Len(forks))]
  /\ UNCHANGED <<db, savepoints, torn, up, quiet>>

\* The last `orphans` blocks of the best chain are replaced.
Reorg(orphans, mined) ==
  /\ Len(forks) <= setup.max_reorgs
  /\ orphans < Len(chain)
  /\ mined >= orphans \/ "shorter" \in setup.faults
  /\ Len(chain) - orphans + mined <= setup.max_blocks
  /\ forks' = Append(forks, SubSeq(chain, 1, Len(chain) - orphans)
                              \o [i \in 1 .. mined |-> Len(forks) + 1])
  /\ quiet' = FALSE
  /\ up' = [up EXCEPT !.ok = FALSE]
  /\ UNCHANGED <<db, savepoints, torn>>

\* A crash loses the write transaction.  In the middle of a copy it leaves a
\* partial snapshot; between removing the database and copying the snapshot
\* it leaves no database, and Index::open creates a new one.
Crash ==
  /\ "crash" \in setup.faults
  /\ up.pc \notin {"idle", "broken"}
  /\ \/ ReturnErr /\ UNCHANGED <<db, savepoints, torn>>
     \/ /\ up.pc = "copy"
        /\ savepoints' = copy_to_savepoint
        /\ torn' = torn \cup {SavepointHeight}
        /\ ReturnErr
        /\ UNCHANGED db
     \/ /\ up.pc = "restore"
        /\ \/ db' = NewDatabase /\ ReturnErr
           \/ Goto("broken") /\ UNCHANGED db
        /\ UNCHANGED <<savepoints, torn>>
  /\ UNCHANGED <<forks, quiet>>

-----------------------------------------------------------------------------
UpdateStep ==
  \/ BeginUpdate \/ UpdateLoop
  \/ CommitBlocks \/ DropOldestSavepoint \/ CopyToSavepoint \/ RecordSavepoint
  \/ DetectReorg \/ HandleReorg \/ RestoreFiles

Next ==
  /\ \/ UpdateStep
     \/ FetchBlock
     \/ Mine
     \/ \E orphans \in 1 .. setup.max_orphans, mined \in 0 .. setup.max_orphans + 1 :
          Reorg(orphans, mined)
     \/ Crash
  /\ UNCHANGED setup

Spec == Init /\ [][Next]_vars

\* The server's index thread calls update forever, the fetch thread runs, and
\* blocks keep coming.
FairSpec ==
  /\ Spec
  /\ WF_vars(UpdateStep /\ UNCHANGED setup)
  /\ WF_vars(FetchBlock /\ UNCHANGED setup)
  /\ WF_vars(Mine /\ UNCHANGED setup)

-----------------------------------------------------------------------------
\* Properties.

\* Every variable keeps its type, and a savepoint is named after the number of
\* blocks in it.
TypeOK ==
  /\ forks \in Seq(Seq(Forks))
  /\ db \in Databases
  /\ \A s \in DOMAIN savepoints : /\ savepoints[s] \in Databases
                                  /\ Len(savepoints[s].blocks) = s
  /\ torn \subseteq DOMAIN savepoints
  /\ up \in Updates
  /\ quiet \in BOOLEAN
  /\ setup \in Setups

\* Every block follows its parent.
Linked(blocks) ==
  \A p \in 2 .. Len(blocks) : blocks[p - 1] = forks[blocks[p]][p - 1]

\* Every block of the index follows its parent, in the database and in every
\* snapshot: blocks that were fetched before a reorg are never mixed with
\* blocks that were fetched after it, wherever the process is killed.
IndexLinked ==
  /\ Linked(db.blocks)
  /\ \A s \in DOMAIN savepoints : Linked(savepoints[s].blocks)

\* An update that returns Ok, and during which bitcoind did not reorg, left the
\* index on bitcoind's chain, also when that chain has become as long as the
\* index on another fork: every earlier reorg has been noticed.  (When the fetch
\* thread gives up, update returns Ok with what it has, the tip unchecked.)
UpdatedIndexOnChain ==
  up.ok /\ "rpc" \notin setup.faults => IsPrefix(db.blocks, chain)

\* With one reorg there are savepoints enough.
OneReorg == setup.max_reorgs <= 1 /\ "crash" \notin setup.faults

\* A rollback after one reorg leaves no orphaned block in the index.
NothingOrphaned ==
  OneReorg /\ up.pc = "restore" /\ up'.pc = "idle" => IsPrefix(db'.blocks, chain)

\* A reorg that detect_reorg called recoverable finds a savepoint to go back to.
SavepointFound ==
  OneReorg /\ up.pc = "recover" /\ up'.pc # "recover" => up'.pc = "restore"

\* One reorg is rolled back to a savepoint that has no orphaned block.
RollbackOnChain == [][NothingOrphaned /\ SavepointFound]_vars

\* In the end the index has exactly the blocks of bitcoind's best chain.
IndexCatchesUp == <>[](OneReorg => db.blocks = chain)
=============================================================================
