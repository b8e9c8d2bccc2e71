# vprogs in TLA+

`vprogs` is a based-rollup node for Kaspa. It follows the L1 chain, turns every
chain block into a batch of transactions, executes batches in parallel, keeps
their state in RocksDB in a fork-aware, versioned form, reverts them on reorgs,
prunes what is final, and proves and settles the result on L1. This directory
models the part on which everything else rests, the commit / rollback / pruning
core, and the bridge that drives it, checks them with TLC on small instances, and proves the pruning handshake
with TLAPS.

## 1. The system

```
 L1 node --> bridge --> Scheduler (ChainSink: append, rollback, finalize)
                          | ids, canonical bits        CanonicalChainManager
                          | batches, dependency chains Resource, ResourceAccess
                          v
          execution workers -> lifecycle worker -> write worker -> RocksDB
                          ^                            |   versions, pointers,
          read worker ----+                            |   metadata, state tree
          pruning worker <--- pause / unpause ---------+
                          |
          transaction, batch, aggregate provers -> settler -> covenant on L1
```

| Part (crate) | State | Operations | Hard behaviour |
|---|---|---|---|
| scheduler (`scheduling/scheduler`) | last processed / committed, root, pending checkpoints, resource chains, cancellation contexts, queues | `schedule`, `rollback_to`, `finalize`, lifecycle, commit, eviction | five threads; check of `canceled()` and act are apart; returning batches are restored, not executed |
| storage manager (`storage/manager`) | read and write queues, open write batch | submit, execute, flush, park | order of commands, what a crash drops |
| pruning worker (`scheduling/scheduler`) | four atomics, root | `set_threshold`, `pause`, `unpause`, passes, `shutdown` | Dekker handshake, lost wake-ups |
| canonical chain (`storage/canonical-chain`, `core/atomics`) | log of metadata, bit buckets, ring, snapshot | append, rollback, finalize, restore, `is_canonical` | lock-free snapshots over shared buckets, ring growth, returns |
| state tree (`core/smt`, `storage/rocksdb-store`) | versioned nodes, stale marks | update, read at a version, prune | versions of orphans, tombstones, pruning |
| state (`state/*`) | versions, latest and rollback pointers, metadata | put, get, delete | consistency of the column families |
| execution workers | inboxes, deques | submit, steal, execute, park | stealing, wake-ups |
| bridge (`l1/bridge`) | genesis anchor, reorg filter, lane state | connect, fetch, reorg, finalize | retries, reorg below finality, malformed answers |
| provers (`zk/*-prover`) | queued batches, cached receipts, bundles | submit, rollback, prove, publish | rollback while proving, resume from receipts |
| settler, covenant (`zk/backend/risc0`) | covenant tip, bundles | settle, confirm, adopt | competing settlers, lagging watch, reorgs |
| runtime (`zk/backend/risc0/runtime-processor`, `transaction-runtime`) | accounts, locks, config | instructions, deposits, exits | authorisation and conservation rules |
| wallet (`l1/wallet`) | UTXOs | funding, pricing | fee arithmetic |
| node, runner, sim, examples | wiring | start, stop | shutdown order |

## 2. Modules and the code

| Module | Code | Role |
|---|---|---|
| `Scheduler`, `MCScheduler` | `scheduler.rs`, `scheduled_batch.rs`, `scheduled_transaction.rs`, `resource*.rs`, `access_handle.rs`, `state_diff.rs`, `cancellation_context.rs`, `rollback.rs`, `batch_lifecycle_worker.rs`, `storage_cmd.rs`, `write/worker.rs` | five threads over the store |
| `PruningWorker`, `PruningWorkerProofs` | `pruning_worker.rs` | pruning against rollbacks, one step per atomic access |
| `ForkChain` | `manager.rs`, `snapshot.rs` (what they promise) | abstract canonical chain |
| `CanonicalChain`, `AtomicRing` | `chain.rs`, `manager.rs`, `hot_zone.rs`, `snapshot.rs`, `bucket.rs`, `atomic_ring.rs` | the implementation, refining `ForkChain` |
| `Bridge`, `MCBridge` | `l1/bridge/src/{worker,reorg_filter,error}.rs`, `chain_block_metadata.rs` | following the L1 chain into the sink |
| `StateTree`, `MCStateTree` | `core/smt/src/{updater,tree,node,hashed_node}.rs`, `rocksdb-store/src/store.rs`, pruning of the tree | versioned tree over forks |

**Scheduler.** `log`, `tip`, `canon` are the canonical chain as `ForkChain`
promises it; `mem` is `SchedulerState`; `batches` are the `ScheduledBatch`
instances with their reads and writes; `chains` the `resources` map; `ctxs` the
cancellation contexts; `lifecycle`, `wq` the two queues; `staged` the store as
the open write batch will leave it; `disk` the store. `Schedule` is the whole of
`schedule`. `rollback_to` is `RollbackTo` (up to `cancel_and_rollback`),
`SubmitRollback` and `ResumeAfterRollback`; `Rollback::execute` is
`ExecRollback` and `Repoint`, its two store commits. An execution is `Execute`,
`SubmitWrite` (the check of `submit_write`) and `FinishExecution`; a transaction
of a block in `Failing` returns an error and passes on what it read. A commit is
`ExecCommit` (the check), `ApplyCommit`, `Flush`, `CommitDone`. `Restart` is a crash at any
point followed by `SchedulerState::new`, `with_state` and
`canonical_chain_manager`. The bridge is external here: it may hand over any
child of the last block and roll back to any canonical batch. A value is the
block that wrote it, so a wrong read is a wrong block.

**PruningWorker.** The scheduler thread and the pruning thread, one step per
load, store, swap or notification. `pruned` is history: the ids whose data is
gone.

**CanonicalChain.** Buckets and rings live on a heap because snapshots share
them; a reader holds one snapshot while the writer goes on. `append` is two
steps: the log entry first, then the bits (the new tip becomes visible with
its bit). `Refines` maps `canonical` to what the published snapshot answers.
`restored` is history: the lowest id the last restart found.

**StateTree.** Node reads, updates (split, resolve, collapse, tombstones, stale
marks), rollback, return, pruning and finalization over paths of `Depth` bits.
Stale marks are keyed as in the store, by the batch and the position, so a
tombstone's mark replaces that of the node it buries. Finalization drops whole
buckets of `BucketCapacity` ids, below the pruning root and the two newest.
Hashes are taken to be collision-free, so a node is its hash.

**Bridge.** The worker's task awaits in the places `pc` names; the L1 node moves
its tip and its pruning point in between. An answer to a fetch is computed from
the L1 chain at the moment it is given, for the tip the request was sent with,
and applied in one step (`FetchAnswered`), as the code does not await there.
`Seed` is the three `seed_from_*`, `ConnectFails` every way the start may fail
(creating the client, connecting, subscribing, seeding), `FetchFails` one attempt
of `get_vcc_with_retry`, `FetchMalformed` an answer whose n-th block lacks a field.
`sink` is a `CanonicalChainManager` log of metadata. A block stands for its hash
and its commitment; a lane tip, a hash chain, is the sequence of what was hashed.
`Restart` gives a new worker a sink that restored any prefix of the ids, from
any root the pruning worker may have reached. The properties compare the
threaded metadata with what the L1 tree determines.

## 3. Assumptions that can be switched off

Each is a Boolean constant, TRUE in the passing runs unless the table says
otherwise. Set to FALSE, TLC finds a violation. Six of the cases contradict the
repository's own words in the plainest way and are kept as violation runs; for
the others the table names the configuration in which TLC shows the violation
and, where there is one, the line it contradicts.

| Constant | Excludes | If FALSE |
|---|---|---|
| `SettledTargets` (Scheduler) | a rollback to a batch that has not committed | run `stale_rollback`; FALSE in `scheduler_live` |
| `CleanRestarts` | a restart over stored ids with holes, or whose newest stored batch is an orphan, or over diffs of batches that never committed | run `restart_hole`. A newest stored batch that is an orphan is the one the persisted `last_committed` may still name: the node would resume on it. Without the conjunct on diffs `DiskHoldsChain` fails in `MCScheduler.cfg`: the id is given again, and when that batch returns it is restored with the version the dead batch wrote |
| `BatchesHeld` | a canceled batch dropped while its diffs are queued | `DiffsFindTheirBatch` fails in `MCScheduler.cfg` with `FlipBlocks`, `FlipParent`, `FlipKind`, one resource, no restore and no crash: a queued `StateDiff` outlives its canceled batch and the write worker panics (`state_diff.rs:91`, against `state_diff.rs:90`, "The batch and both states must be resolved by the time the worker writes this diff") |
| `LateRestores` | a restore that reads a predecessor's resource before that commits | `ReadsSerial` fails in `MCScheduler.cfg` with `LineBlocks`, `LineParent`, `LineKind`, `Failing = {B}`, one resource, `MaxBatches = 5` and no crash |
| `AtomicCommits` | a rollback that starts between a commit's check and its writes; the tree then has a canonical-looking version the rollback does not revert once the batch returns | `SmtMatchesLatest` fails in `MCScheduler.cfg` (also, in fewer steps, with `LineBlocks`, `LineParent` and `StepKind`); FALSE in `scheduler_live` |
| `FlipsAboveTail` (CanonicalChain) | a branch returning in a bucket below the tail bucket | run `flip_reorg` |
| `DeletesKeepShape` (StateTree) | a deletion that leaves a lone leaf under an inner node | run `tree_resurrect` |
| `OrphansRedone` | pruning or finalizing an orphaned batch before the canonical chain has written the orphan's resources again | run `tree_orphan` for pruning. With `MCStateTree.cfg` `TreeReadable` also fails by finalization: an orphan whose bucket is dropped reads canonical, and its nodes shadow canonical ones |
| `DeletionsRefilled` | a pruning pass over a deletion of a resource that is not written again before the pass ends | `TreeReadable` fails in `MCStateTree.cfg`: the pass deletes the tombstone but not the node it buries, whose mark the tombstone's replaced, and the deleted resource is back (against `updater.rs:188`, "so a later read can't resurface the deleted node") |
| `AnchorHolds` (Bridge) | a reorg down to the anchor of a restarted node | run `bridge_anchor`; the other properties that do not read the metadata still hold |
| `PruningIsDeep` | a pruning point that the sink knows but has orphaned, because it lags behind L1 | `TypeOK` fails in `MCBridge.cfg`: the floor passes the sink's tip, where `tip_metadata` panics |
| `GenesisFinal` (PruningWorker) | a rollback to genesis after a finalization (the bridge refuses reorgs below finality) | `PruningCatchesUp` fails: the first batch after it sets the root again and wakes nobody, so the worker may stay parked until the next finalization; the safety properties do not need it |
| `ConflictPanics` | not an assumption: TRUE is `ChainSink::rollback`, which unwraps; FALSE a caller of `rollback_to` that goes on | `PruningCatchesUp` fails: a refused `pause` lifts the ceiling without waking a worker that parked because of it |

One exception is part of a property instead of an assumption. A restart whose
lowest stored id lies inside a bucket has no bits for the finalized ids next to
it, which then read orphaned although `chain.rs:157` says finalized ids
"thereafter read as canonical". `FinalizedReadsCanonical` excludes exactly these
ids (`Unrestored`) and holds for all others through every restart; without the
exclusion TLC violates it in `MCCanonicalChain.cfg`.

So the passing runs say: inside these limits the core is right; the violation
runs say what happens just outside.

## 4. Runs

| Run | Shows |
|---|---|
| `scheduler` | `ReadsSerial` (every executed batch read what a serial execution would give it), `DiskHoldsChain` (the disk is always the state of a prefix of the chain), `OnlyCanonicalApplied`, `CheckpointsKnown`, `LastCommittedAgrees` (`last_committed` in memory is the last batch in force; the persisted one is the same or names a canceled batch), `SmtMatchesLatest`, `RootIsOldest` |
| `scheduler_live` | `RollbackReturns`, `BatchSettles`, and three safety properties, without `AtomicCommits` and `SettledTargets` and with a transaction that fails |
| `pruning` | `RollbackRangeIntact`, `PrunedBelowRoot`, `PruningCatchesUp`, `ShutdownJoins` |
| `canonical_chain` | `Refines` (implements `ForkChain`), `SnapshotStable`, `FinalizedReadsCanonical` |
| `state_tree` | `TreeReadable`: at every live version the stored nodes are exactly the tree of the committed state, with no node missing and none resurfacing |
| `bridge` | `ChainThreaded` (the sink holds a path of the L1 tree, each block threaded from its selected parent), `MetadataIsOfChain` (lane tips and settlements are those of that path), `SettlementPublished`, `FinalStaysOnChain`, `FollowsTip` |
| `stale_rollback`, `restart_hole`, `flip_reorg`, `tree_resurrect`, `tree_orphan`, `bridge_anchor` | the findings below |

**Bounds.** `scheduler`: four blocks with a fork, two resources, four scheduled
batches, one rollback, one crash: enough for a branch to be left and another
executed, or for the first to return, not for both. A rollback thus never walks
past the current cancellation context to its parent. With `MaxRollbacks = 2` both
happen: all properties hold there too, over 9.4 million states, too many for a
regular run. `scheduler_live`: a line of three blocks, one resource, four
batches, so that a block is rolled back and returns; the transaction of the
second block fails. `pruning`: ids up to 4, any initial root, so that passes,
rollbacks and finalizations overlap (the safety part is proved for every bound).
`canonical_chain`: two ids per bucket, a ring of one slot, seven ids: four
buckets, hence sealed buckets, a ring that grows, rollbacks across buckets, and
restarts at every floor. `state_tree`: two levels, three resources, two of them
siblings, five batches in buckets of two, four kinds of batch (nothing, a
deletion, two overlapping pairs of writes): a leaf that splits, an inner node
with two leaves, tombstones and orphans that are pruned, a finalized orphan, a
fork and its return. `bridge`: five blocks with a fork. One has no activity of
the lane; the block after it comes too late for the lane, though not for its
parent; the other branch comes exactly at the finality depth. L1 starts anywhere
and moves twice, so a branch is left and returns; one fetch may fail at each of
its two attempts, so that the worker gives up while connected and only a
notification resumes; one restart, three configurations.

**Fairness.** `scheduler_live` assumes weak fairness of each thread: every one
is an OS thread in a loop that blocks only for its own queue. Scheduling and
rollbacks are not fair: nothing obliges the L1 to produce them. `pruning`
assumes it of the pruning thread and of a rollback or shutdown already begun.
`bridge` assumes it of the worker's task, of time (the filter's half-life), of
the L1 node, which keeps producing blocks and hence notifications, and of the
restart of a node that went down; the L1 chain stops moving at its bound.

**Deadlock** is checked for `scheduler` (whose only resting state is
`Quiet`, nothing left to do) and `canonical_chain`; the other passing runs end
at their bounds or after a shutdown, where stopping is right.

## 5. Findings

1. `stale_rollback`: after a rollback to a batch that is still uncommitted, the
   resources it wrote are read from disk, behind its write
   (`scheduler.rs:162`).
2. `restart_hole`: a canceled batch leaves a hole in the stored ids; the next
   start trips the assertion in `CanonicalChainManager::new` (`manager.rs:36`),
   or, in a release build, shifts the ids.
3. `flip_reorg`: a branch that returns below the tail bucket moves the tail
   backwards (`hot_zone.rs:27`); canonical ids then read orphaned.
4. `tree_resurrect`: a deletion that collapses an inner node leaves its
   children on disk; a later insert reads the deleted one back (`updater.rs`).
5. `tree_orphan`: pruning an orphan deletes the nodes it marked stale though
   the canonical tree still uses them (`store.rs:127`, `pruning_worker.rs:243`).
6. `bridge_anchor`: a restarted bridge has not seeded its anchor; after a reorg
   down to it the next block is threaded from default metadata
   (`worker.rs:285`), with zero commitment, timestamp and lane state. The same
   reorg records the whole blue score of the old tip as its depth
   (`worker.rs:572`), so the filter hides new blocks until it has decayed.

## 6. Proofs

`PruningWorkerProofs` proves, for every `MaxIndex` and every value of
`ConflictPanics` and `GenesisFinal`:

* `TypeCorrect`: `Spec => []TypeOK`;
* `RollbackSafe`: `Spec => []RollbackRangeIntact`;
* `PruneSafe`: `Spec => []PrunedBelowRoot`.

None is inductive by itself. The strengthening `Inv` says what the Dekker
handshake relies on. From its swap on, the cursor announces the pass
(`CursorAnnounces`). `Settled`, the cursor without an announcement that may
still be withdrawn, bounds all that is deleted (`PrunedIsSettled`) and stays
below the root and the threshold (`SettledBelowRoot`, `SettledIsFinal`). A pass
starts above it (`LowerIsNew`), is not empty, and stays below the threshold it
read (`UpperIsFinal`). While a rollback is admitted, the ceiling stands at its
target and no pass beyond its recheck reaches higher (`Asked`, `Admitted`):
either `pause` saw the announcement, or the recheck saw the ceiling.
`StepInv` has one step per action; `Invariance` combines them.

Model-checked only: the liveness properties, `Scheduler`, `CanonicalChain` and
its refinement, `StateTree`, `Bridge`.

## 7. Not modelled

Several transactions of one batch on one resource; parking and stealing of the
execution and read workers; the reclaim of versions by a pruning pass; proof
receipts; the node API's commands in the bridge's loop; the provers, the settler
and what lies beyond (see the components of `PROJECT.json`). Byte layouts, hashes, RocksDB and the zkVM are external.

## 8. Plan

In this order; each step adds a module, its run, its mutants, and the theorem
named.

1. `ResourceChain`: `connect` / `set_read_state` / `set_written_state` with
   several accesses per batch, one step per atomic; every access is resolved
   once, with the value of its predecessor; no diff is written before its read.
2. `Reclaim`: versions, latest and rollback pointers under pruning and forks;
   no version a live pointer leads to is deleted. Theorem: the invariant.
3. `CmdQueue` and the workers' parking: no wake-up lost, shutdown joins.
4. Theorems about `Bridge`: `ChainThreaded` for every block tree; `Bridge`
   composed with `ForkChain` as its sink, and with the settlers that read its
   watch.
5. `ProvingPipeline`: transaction, batch and aggregate provers against
   rollbacks and cached receipts; no bundle mixes branches.
6. `Settler` and `Covenant`: competing settlers, the lagging watch, the
   permission tree and its script. Theorem: the covenant state only moves along
   proved transitions.
7. `Runtime`: accounts, locks, deposits and exits. Theorem: conservation.
8. `TreeProof`, the streaming Merkle builder, the ABI verifiers and the wallet's
   arithmetic as operators against reference definitions.
9. Proofs: `CanonicalChain` implements `ForkChain` for every capacity;
   `OnlyCanonicalApplied` and `DiskHoldsChain` for the scheduler.
