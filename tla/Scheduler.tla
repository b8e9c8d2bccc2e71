------------------------------ MODULE Scheduler ------------------------------
(***************************************************************************)
(* The scheduler's commit / rollback core (scheduling/scheduler/src): the  *)
(* scheduler thread, the execution workers, the read worker, the lifecycle *)
(* worker and the write worker, over the store's column families.          *)
(*                                                                         *)
(* Granularity.  A batch is one transaction, so it has one access per      *)
(* resource.  `schedule` is one step of the scheduler thread; `rollback_to` *)
(* is three (cancel, submit, resume), so that every worker may run in      *)
(* between.  Wherever the code checks `canceled()` and acts later, the     *)
(* check and the act are two steps, except in StateDiff::write, whose act  *)
(* nobody else sees before the flush.  The contents of a resource are the  *)
(* block that wrote them.                                                  *)
(* Pruning is the subject of PruningWorker, the bit layout of the          *)
(* canonical chain the subject of CanonicalChain.                          *)
(***************************************************************************)
EXTENDS Naturals, Sequences, FiniteSets, FiniteSetsExt, SequencesExt, TLC

CONSTANTS
    Blocks,            \* L1 chain blocks the node may follow
    Genesis,           \* the bridge's genesis anchor, parent of the first block
    Parent,            \* selected parent of each block
    Resources,         \* resource ids
    Kind,              \* Kind[b][r]: what the transaction of block b does to r
    Failing,           \* blocks whose transaction fails: process_transaction returns Err
    None,              \* an absent value
    SupportsRestore,   \* Processor::supports_restore
    SettledTargets,    \* assume reorgs only reach back to committed batches
    CleanRestarts,     \* assume restarts only happen over a replayable disk
    BatchesHeld,       \* assume somebody (a prover) holds a batch until its diffs are written
    LateRestores,      \* assume a batch is restored only after its predecessors committed
    AtomicCommits,     \* assume no rollback starts while a commit is being written
    MaxBatches,        \* bound on scheduled batches
    MaxRollbacks,      \* bound on rollbacks
    MaxCrashes         \* bound on process crashes

Kinds == {"none", "read", "write", "remove"}

ASSUME ConstantsAssumption ==
    /\ Genesis \notin Blocks
    /\ None \notin Blocks \cup {Genesis} \cup Nat
    /\ Parent \in [Blocks -> Blocks \cup {Genesis}]
    /\ Kind \in [Blocks -> [Resources -> Kinds]]
    /\ Failing \subseteq Blocks
    /\ SupportsRestore \in BOOLEAN
    /\ SettledTargets \in BOOLEAN
    /\ CleanRestarts \in BOOLEAN
    /\ BatchesHeld \in BOOLEAN
    /\ LateRestores \in BOOLEAN
    /\ AtomicCommits \in BOOLEAN
    /\ MaxBatches \in Nat
    /\ MaxRollbacks \in Nat
    /\ MaxCrashes \in Nat

VARIABLES
    log,       \* CanonicalChainManager: log[id] is the metadata of batch id
    tip,       \* CanonicalChain: highest canonical id
    canon,     \* CanonicalChain: ids whose bit is set
    cursor,    \* bridge: the last L1 block it has handed over
    sched,     \* scheduler thread: [pc, target, upper, snap]
    mem,       \* SchedulerState: [lastProcessed, lastCommitted, root]
    pending,   \* pending_batches: ids not known committed
    ctxs,      \* CancellationContext chain, newest last
    batches,   \* ScheduledBatch instances, in schedule order
    chains,    \* resources: last batch accessing each resource, 0 if absent
    evictions, \* eviction_queue
    lifecycle, \* BatchLifecycleWorker queue
    committing,\* batch the lifecycle worker has decided to commit, 0 if none
    wq,        \* write worker queue
    writer,    \* write worker: [pc, cmd, targetCommitted]
    staged,    \* the store as it will be once the open write batch commits
    disk,      \* the store
    used,      \* bound bookkeeping: [batches, rollbacks, crashes]
    panic      \* the thread that has panicked, None if none has

chainVars == <<log, tip, canon>>
vars == <<log, tip, canon, cursor, sched, mem, pending, ctxs, batches, chains,
          evictions, lifecycle, committing, wq, writer, staged, disk, used,
          panic>>

-----------------------------------------------------------------------------
(* Data.                                                                   *)

Ids == 1 .. MaxBatches

\* StateVersion: the batch that wrote the data, and the data; empty data is None.
StateVersion == [version : Nat, data : Blocks \cup {None}]

Accesses(blk) == {r \in Resources : Kind[blk][r] # "none"}

\* StateVersion::from_latest_data and at_version.
AtVersion(d, v, r) ==
    [version |-> v, data |-> IF v \in Ids THEN d.data[v][r] ELSE None]

FromLatestData(d, r) == AtVersion(d, d.latest[r], r)

\* ScheduledBatch::canceled.
Canceled(i) ==
    LET limit == ctxs[batches[i].ctx].threshold
    IN  limit # None /\ batches[i].id > limit

\* StateDiff::data_updated for each resource of the batch.
Updated(b) ==
    {r \in Accesses(b.block) : b.written[r].version > b.read[r].version}

\* What executing block blk makes of the version it read: AccessHandle::set_data
\* stamps the batch id when the data differs.
Result(b, r) ==
    IF Kind[b.block][r] = "write"
    THEN [version |-> b.id, data |-> b.block]
    ELSE IF b.read[r].data = None THEN b.read[r]
    ELSE [version |-> b.id, data |-> None]

\* Mutant: connect never links a batch to its predecessor.
ForwardNothing(bs) ==
    [i \in 1 .. Len(bs) |->
        [bs[i] EXCEPT !.written = [r \in Resources |->
            IF bs[i].restored \/ Kind[bs[i].block][r] # "read" THEN @[r] ELSE bs[i].read[r]]]]

\* ResourceAccess::set_read_state / set_written_state: a resolved version flows
\* to the next access of the chain, and through it when that access only reads.
\* Restored batches are never connected to their predecessor.
Forward(bs) ==
    LET flow[i \in 1 .. Len(bs)] ==
          LET b == bs[i]
              in == [r \in Resources |->
                       IF b.read[r] # None \/ b.restored \/ b.prev[r] = 0
                       THEN b.read[r]
                       ELSE flow[b.prev[r]].written[r]]
              out == [r \in Resources |->
                       IF b.restored \/ Kind[b.block][r] # "read"
                       THEN b.written[r]
                       ELSE in[r]]
          IN  [b EXCEPT !.read = in, !.written = out]
    IN  [i \in 1 .. Len(bs) |-> flow[i]]

-----------------------------------------------------------------------------
(* Initial state: SchedulerState::new and Scheduler::with_state over a disk. *)

EmptyDisk ==
    [data          |-> [v \in Ids |-> [r \in Resources |-> None]],
     rollback      |-> [v \in Ids |-> [r \in Resources |-> None]],
     meta          |-> [v \in Ids |-> None],
     smt           |-> [v \in Ids |-> None],
     latest        |-> [r \in Resources |-> 0],
     lastCommitted |-> 0,
     root          |-> 0,
     applied       |-> <<>>]    \* history: the batches in force, oldest first

Idle == [pc |-> "run", target |-> 0, upper |-> 0, snap |-> {}]

NoCmd == [op |-> "none"]

WriterIdle == [pc |-> "idle", cmd |-> NoCmd, targetCommitted |-> FALSE]

\* CanonicalChainManager::canonical_ancestry: follow the stored parent ids.
Ancestry(entries, top) ==
    LET up[id \in DOMAIN entries] ==
          LET parent == entries[id].parent
          IN  {id} \cup (IF parent \in DOMAIN entries /\ parent < id
                        THEN up[parent] ELSE {})
    IN  up[top]

Init ==
    /\ log = <<>> /\ tip = 0 /\ canon = {}
    /\ cursor = Genesis
    /\ sched = Idle
    /\ mem = [lastProcessed |-> 0, lastCommitted |-> 0, root |-> 0]
    /\ pending = <<>>
    /\ ctxs = <<[parent |-> 0, first |-> 0, threshold |-> None]>>
    /\ batches = <<>>
    /\ chains = [r \in Resources |-> 0]
    /\ evictions = {}
    /\ lifecycle = <<>> /\ committing = 0
    /\ wq = <<>> /\ writer = WriterIdle
    /\ staged = EmptyDisk /\ disk = EmptyDisk
    /\ used = [batches |-> 0, rollbacks |-> 0, crashes |-> 0]
    /\ panic = None

-----------------------------------------------------------------------------
(* The scheduler thread.                                                   *)

\* Mutant: drains everything handed to the workers.
DrainedProcessed == SelectSeq(pending, LAMBDA id : id > mem.lastProcessed)

\* drain_committed.
Drained == SelectSeq(pending, LAMBDA id : id > mem.lastCommitted)

\* Mutant: evicts without asking should_evict.
AfterAnyEviction(heads, bs) ==
    [r \in Resources |-> IF r \in evictions THEN 0 ELSE heads[r]]

\* Resource::should_evict, for the resources commit_done queued.  (A batch dropped
\* uncommitted counts as committed there; it was canceled, and the rollback that did it
\* has cleared the chains.)
AfterEviction(heads, bs) ==
    [r \in Resources |->
        IF r \in evictions /\ heads[r] # 0 /\ bs[heads[r]].committed
        THEN 0 ELSE heads[r]]

\* Mutant: ids start at 0.
NextIdFromZero == Cardinality(DOMAIN log)

\* CanonicalChainManager::push: the next dense id.
NextId == Max(DOMAIN log \cup {0}) + 1

\* Scheduler::schedule, with next_checkpoint, ScheduledBatch::new, connect and
\* process_eviction_queue.
Schedule(blk) ==
    LET known   == {i \in DOMAIN log : log[i].block = blk}
        isNew   == known = {}
        id      == IF isNew THEN NextId ELSE Max(known)
        restore == ~isNew /\ SupportsRestore /\ disk.meta[id] # None
        this    == Len(batches) + 1
        nothing == [r \in Resources |-> None]
        batch   == [id        |-> id,
                    block     |-> blk,
                    parent    |-> tip,
                    ctx       |-> Len(ctxs),
                    restored  |-> restore,
                    prev      |-> [r \in Resources |->
                                     IF r \in Accesses(blk) THEN chains[r] ELSE 0],
                    read      |-> nothing,
                    written   |-> nothing,
                    phase     |-> IF Accesses(blk) = {} THEN "done" ELSE "waiting",
                    ran       |-> FALSE,
                    committed |-> FALSE]
        heads   == [r \in Resources |-> IF r \in Accesses(blk) THEN this ELSE chains[r]]
    IN  /\ sched.pc = "run" /\ panic = None
        /\ used.batches < MaxBatches
        /\ Parent[blk] = cursor
        /\ log' = IF isNew THEN log @@ (id :> [block |-> blk, parent |-> tip]) ELSE log
        /\ tip' = IF id > tip THEN id ELSE tip
        /\ canon' = IF id > tip THEN canon \cup {id} ELSE canon
        /\ cursor' = blk
        /\ mem' = [mem EXCEPT !.lastProcessed = id,
                              !.root = IF mem.root = 0 THEN id ELSE @]
        /\ pending' = Append(Drained, id)
        /\ batches' = Forward(Append(batches, batch))
        /\ lifecycle' = Append(lifecycle, this)
        /\ chains' = AfterEviction(heads, batches')
        /\ evictions' = {}
        /\ used' = [used EXCEPT !.batches = @ + 1]
        /\ UNCHANGED <<sched, ctxs, committing, wq, writer, staged, disk, panic>>

\* A batch lives as long as the lifecycle worker, an execution or read task, or a
\* CommitBatch command holds it; a StateDiff refers to it weakly.
InFlight(i) ==
    \/ i \in Range(lifecycle) \cup {committing}
    \/ batches[i].phase # "done"
    \/ \E k \in DOMAIN wq : wq[k].op = "commit" /\ wq[k].b = i
    \/ writer.cmd.op = "commit" /\ writer.cmd.b = i

\* A live batch keeps its cancellation context alive.
Referenced(c) == \E i \in DOMAIN batches : batches[i].ctx = c /\ InFlight(i)

\* CancellationContext::rollback: lower the threshold of the contexts up to the
\* one that contains `index`.  Parents are weak: one that nothing in flight holds
\* is reached only if somebody else (a prover, a caller) still holds it.
CancelTo(index, held) ==
    LET visit[c \in DOMAIN ctxs] ==
          LET up == ctxs[c].parent
          IN  IF index >= ctxs[c].first \/ up = 0 \/ ~(held \/ Referenced(up))
              THEN {c} ELSE {c} \cup visit[up]
        reached == visit[Len(ctxs)]
        oldest  == Min(reached)
        parent  == IF index >= ctxs[oldest].first THEN oldest ELSE 0
        lowered == [c \in DOMAIN ctxs |->
                      IF c \in reached THEN [ctxs[c] EXCEPT !.threshold = index]
                      ELSE ctxs[c]]
    IN  Append(lowered, [parent |-> parent, first |-> index, threshold |-> None])

\* Mutant: spares the first batch above the target.
KeptOneMore(target) == {i \in canon : i <= target + 1}

\* CanonicalChain::rollback.
Kept(target) == {i \in canon : i <= target}

\* Scheduler::rollback_to up to cancel_and_rollback: snapshot the chain, cancel,
\* reset last_processed, roll the chain back and drop canceled checkpoints.  A
\* state already at or behind the target is left alone.
RollbackTo(target, held) ==
    /\ sched.pc = "run" /\ panic = None
    /\ used.rollbacks < MaxRollbacks
    /\ target \in canon \cup {0} /\ target < tip
    /\ SettledTargets => target <= mem.lastCommitted
    /\ AtomicCommits => writer.pc # "commit"
    /\ cursor' = IF target = 0 THEN Genesis ELSE log[target].block
    /\ used' = [used EXCEPT !.rollbacks = @ + 1]
    /\ IF mem.lastProcessed > target
       THEN /\ sched' = [pc |-> "submit", target |-> target,
                         upper |-> mem.lastProcessed, snap |-> canon]
            /\ ctxs' = CancelTo(target, held)
            /\ mem' = [mem EXCEPT !.lastProcessed = target]
            /\ tip' = target
            /\ canon' = Kept(target)
            /\ pending' = SelectSeq(pending, LAMBDA i : i <= target)
       ELSE UNCHANGED <<sched, ctxs, mem, tip, canon, pending>>
    /\ UNCHANGED <<log, batches, chains, evictions, lifecycle, committing, wq,
                   writer, staged, disk, panic>>

\* ... submit Write::Rollback and wait for it ...
SubmitRollback ==
    /\ sched.pc = "submit"
    /\ sched' = [sched EXCEPT !.pc = "wait"]
    /\ wq' = Append(wq, [op |-> "rollback", target |-> sched.target,
                         upper |-> sched.upper, snap |-> sched.snap])
    /\ UNCHANGED <<log, tip, canon, cursor, mem, pending, ctxs, batches, chains,
                   evictions, lifecycle, committing, writer, staged, disk, used,
                   panic>>

\* ... and, once done, forget the in-memory resource chains.
ResumeAfterRollback ==
    /\ sched.pc = "resume"
    /\ sched' = Idle
    /\ chains' = [r \in Resources |-> 0]
    /\ UNCHANGED <<log, tip, canon, cursor, mem, pending, ctxs, batches,
                   evictions, lifecycle, committing, wq, writer, staged, disk,
                   used, panic>>

-----------------------------------------------------------------------------
(* The read worker, the execution workers and the lifecycle worker.        *)

workerVars == <<log, tip, canon, cursor, sched, mem, pending, ctxs, chains,
                evictions, writer, staged, disk, used, panic>>

\* Read::LatestData, submitted by connect for an access that heads its chain.
ReadLatestData(i, r) ==
    /\ ~batches[i].restored
    /\ r \in Accesses(batches[i].block)
    /\ batches[i].prev[r] = 0 /\ batches[i].read[r] = None
    /\ batches' = Forward([batches EXCEPT ![i].read[r] = FromLatestData(disk, r)])
    /\ UNCHANGED <<workerVars, lifecycle, committing, wq>>

\* ResourceAccess::restore_committed_data: a rollback pointer tells a resource
\* the batch wrote from one it only read.
RestoredRead(b, r) ==
    IF disk.rollback[b.id][r] # None
    THEN AtVersion(disk, disk.rollback[b.id][r], r)
    ELSE FromLatestData(disk, r)

RestoredWritten(b, r) ==
    IF disk.rollback[b.id][r] # None
    THEN AtVersion(disk, b.id, r)
    ELSE FromLatestData(disk, r)

\* Read::CommittedBatch: ScheduledBatch::restore_committed.
RestoreCommitted(i) ==
    LET b == batches[i]
        of(f(_, _)) == [r \in Resources |->
                          IF r \in Accesses(b.block) THEN f(b, r) ELSE None]
    IN  /\ b.restored /\ b.phase = "waiting"
        /\ LateRestores => \A j \in 1 .. i - 1 : batches[j].committed \/ Canceled(j)
        /\ batches' = Forward([batches EXCEPT
                         ![i].read    = of(RestoredRead),
                         ![i].written = of(RestoredWritten),
                         ![i].phase   = "done"])
        /\ UNCHANGED <<workerVars, lifecycle, committing, wq>>

\* ScheduledTransaction::execute once every access is resolved: the check of
\* canceled() and process_transaction.
Execute(i) ==
    /\ ~batches[i].restored /\ batches[i].phase = "waiting"
    /\ \A r \in Accesses(batches[i].block) : batches[i].read[r] # None
    /\ batches' = [batches EXCEPT ![i].ran = ~Canceled(i), ![i].phase = "executed"]
    /\ UNCHANGED <<workerVars, lifecycle, committing, wq>>

\* commit_all, or rollback_all for a canceled batch and a failed transaction: what the
\* batch passes on for each resource.
Outcome(b) ==
    [r \in Resources |->
        IF Kind[b.block][r] \notin {"write", "remove"} THEN b.written[r]
        ELSE IF b.ran /\ b.block \notin Failing THEN Result(b, r)
        ELSE b.read[r]]

\* ScheduledBatch::submit_write's check: a batch not canceled goes on to submit.
SubmitWrite(i) ==
    /\ batches[i].phase = "executed" /\ ~Canceled(i)
    /\ batches' = [batches EXCEPT ![i].phase = "submitting"]
    /\ UNCHANGED <<workerVars, lifecycle, committing, wq>>

\* ... and the submission of its state diffs, after which the outcome flows on and
\* decrease_pending_txs ends the batch; a canceled batch submits none.  Diffs that
\* change nothing are left out (StateDiff::write skips them).
FinishExecution(i) ==
    LET b     == batches[i]
        done  == [b EXCEPT !.written = Outcome(b), !.phase = "done"]
        diffs == IF b.phase = "executed" THEN <<>> ELSE SetToSeq(Updated(done))
    IN  /\ b.phase = "submitting" \/ (b.phase = "executed" /\ Canceled(i))
        /\ batches' = Forward([batches EXCEPT ![i] = done])
        /\ wq' = wq \o [k \in DOMAIN diffs |-> [op |-> "diff", b |-> i, r |-> diffs[k]]]
        /\ UNCHANGED <<workerVars, lifecycle, committing>>

\* BatchLifecycleWorker: wait_processed, then schedule_commit's check ...
LifecycleNext ==
    LET i == Head(lifecycle)
    IN  /\ lifecycle # <<>> /\ committing = 0
        /\ batches[i].phase = "done" \/ Canceled(i)
        /\ lifecycle' = Tail(lifecycle)
        /\ committing' = IF Canceled(i) THEN 0 ELSE i
        /\ UNCHANGED <<workerVars, batches, wq>>

\* ... and its submission.
ScheduleCommit ==
    /\ committing # 0
    /\ wq' = Append(wq, [op |-> "commit", b |-> committing])
    /\ committing' = 0
    /\ UNCHANGED <<workerVars, batches, lifecycle>>

-----------------------------------------------------------------------------
(* The write worker.                                                       *)

writerFrame == <<log, tip, canon, cursor, pending, ctxs, chains, lifecycle,
                 committing, used>>

\* StateDiff::write into the open write batch.
WriteDiff(d, i, r) ==
    LET b   == batches[i]
        old == IF b.read[r].data = None THEN 0 ELSE b.read[r].version
    IN  IF Canceled(i) THEN d
        ELSE [d EXCEPT !.data[b.id][r] = b.written[r].data,
                       !.rollback[b.id][r] = old]

\* Tree::root at version v - 1 under the current canonical snapshot, as contents;
\* an empty chain filters nothing.
TreeBelow(v) ==
    LET seen == {w \in Ids : w < v /\ disk.smt[w] # None /\ (tip = 0 \/ w \in canon)}
    IN  IF seen = {} THEN [r \in Resources |-> None] ELSE disk.smt[Max(seen)]

\* ScheduledBatch::commit past its check, into the open write batch: latest
\* pointers, metadata and state tree, last_committed, root.
WriteCommit(d, i) ==
    LET b == batches[i]
    IN  [d EXCEPT
           !.latest = [r \in Resources |->
                         IF r \notin Updated(b) THEN @[r]
                         ELSE IF b.written[r].data = None THEN 0
                         ELSE b.written[r].version],
           !.meta[b.id] = IF b.restored THEN @
                          ELSE [block |-> b.block, parent |-> b.parent],
           !.smt[b.id] = IF b.restored \/ Updated(b) = {} THEN @
                         ELSE [r \in Resources |->
                                 IF r \in Updated(b) THEN b.written[r].data
                                 ELSE TreeBelow(b.id)[r]],
           !.lastCommitted = b.id,
           !.root = IF b.id = mem.root THEN b.id ELSE @,
           !.applied = Append(@, [id |-> b.id, block |-> b.block])]

\* Mutant: the root survives a rollback to genesis.
RootKept(root, target) == root

\* Rollback::execute: a rollback to genesis resets the root.
RootAfterRollback(root, target) == IF target = 0 THEN 0 ELSE root

\* Mutant: walks the batches oldest first.
RepointedOldestFirst(d, cmd, r) ==
    LET wrote == {i \in cmd.target + 1 .. cmd.upper :
                    i \in cmd.snap /\ d.rollback[i][r] # None}
    IN  IF wrote = {} THEN d.latest[r] ELSE d.rollback[Max(wrote)][r]

\* The walk of Rollback::execute and restore_latest_ptr, newest batch first: the
\* oldest canonical batch that wrote r has the last word.
Repointed(d, cmd, r) ==
    LET wrote == {i \in cmd.target + 1 .. cmd.upper :
                    i \in cmd.snap /\ d.rollback[i][r] # None}
    IN  IF wrote = {} THEN d.latest[r] ELSE d.rollback[Min(wrote)][r]

WriteRollback(d, cmd, targetCommitted) ==
    [d EXCEPT
           !.latest = [r \in Resources |-> Repointed(d, cmd, r)],
           !.lastCommitted = IF targetCommitted THEN cmd.target ELSE @,
           !.root = RootAfterRollback(@, cmd.target),
           !.applied = SelectSeq(@, LAMBDA e : e.id <= cmd.target)]

\* WriteWorker::run: pop a command and exec it.  A diff whose batch is gone panics;
\* besides the workers, a prover or a caller may hold the batch.
ExecDiff(held) ==
    LET i    == Head(wq).b
        gone == ~held /\ ~InFlight(i)
    IN  /\ writer.pc = "idle" /\ wq # <<>> /\ Head(wq).op = "diff"
        /\ BatchesHeld => held
        /\ wq' = Tail(wq)
        /\ staged' = IF gone THEN staged ELSE WriteDiff(staged, i, Head(wq).r)
        /\ panic' = IF gone THEN "write worker" ELSE panic
        /\ writer' = IF gone THEN [writer EXCEPT !.pc = "dead"] ELSE writer
        /\ UNCHANGED <<writerFrame, sched, mem, batches, evictions, disk>>

\* Mutant: ScheduledBatch::commit does not look at canceled().
ExecCommitAlways ==
    /\ writer.pc = "idle" /\ wq # <<>> /\ Head(wq).op = "commit"
    /\ writer' = [pc |-> "commit", cmd |-> Head(wq), targetCommitted |-> FALSE]
    /\ wq' = Tail(wq)
    /\ UNCHANGED <<writerFrame, panic, sched, mem, batches, evictions, staged, disk>>

\* CommitBatch: ScheduledBatch::commit's check ...
ExecCommit ==
    /\ writer.pc = "idle" /\ wq # <<>> /\ Head(wq).op = "commit"
    /\ writer' = [pc  |-> IF Canceled(Head(wq).b) THEN "flush" ELSE "commit",
                  cmd |-> Head(wq), targetCommitted |-> FALSE]
    /\ wq' = Tail(wq)
    /\ UNCHANGED <<writerFrame, panic, sched, mem, batches, evictions, staged, disk>>

\* ... and its writes; the command flushes at once.
ApplyCommit ==
    /\ writer.pc = "commit"
    /\ staged' = WriteCommit(staged, writer.cmd.b)
    /\ writer' = [writer EXCEPT !.pc = "flush"]
    /\ UNCHANGED <<writerFrame, panic, sched, mem, batches, evictions, wq, disk>>

\* Mutant: takes the newest batch but one for the newest committed one.
TargetCommittedOffByOne(cmd) == cmd.target + 1 < mem.lastCommitted

\* Rollback::execute: is there a committed batch above the target?
TargetCommitted(cmd) == cmd.target < mem.lastCommitted

\* Rollback::execute, first half: commit what is open, correct the memory.
ExecRollback ==
    LET cmd == Head(wq)
        targetCommitted == TargetCommitted(cmd)
    IN  /\ writer.pc = "idle" /\ wq # <<>> /\ cmd.op = "rollback"
        /\ disk' = staged
        /\ mem' = [mem EXCEPT
                     !.lastCommitted = IF targetCommitted THEN cmd.target ELSE @,
                     !.root = RootAfterRollback(@, cmd.target)]
        /\ writer' = [pc |-> "repoint", cmd |-> cmd, targetCommitted |-> targetCommitted]
        /\ wq' = Tail(wq)
        /\ UNCHANGED <<writerFrame, panic, sched, batches, evictions, staged>>

\* Rollback::execute, second half: repoint and commit.
Repoint ==
    /\ writer.pc = "repoint"
    /\ disk' = WriteRollback(disk, writer.cmd, writer.targetCommitted)
    /\ staged' = disk'
    /\ writer' = [writer EXCEPT !.pc = "flush"]
    /\ UNCHANGED <<writerFrame, panic, sched, mem, batches, evictions, wq>>

\* WriteWorker::flush commits the open batch: at once after CommitBatch and
\* Rollback, else when it is full or aged.
Flush ==
    /\ \/ writer.pc = "flush" /\ writer' = [writer EXCEPT !.pc = "flushed"]
       \/ writer.pc = "idle" /\ staged # disk /\ UNCHANGED writer
    /\ disk' = staged
    /\ UNCHANGED <<writerFrame, panic, sched, mem, batches, evictions, wq, staged>>

\* Write::flushed for CommitBatch: ScheduledBatch::commit_done.
CommitDone ==
    LET i == writer.cmd.b
    IN  /\ writer.pc = "flushed" /\ writer.cmd.op = "commit"
        /\ mem' = IF Canceled(i) THEN mem
                  ELSE [mem EXCEPT !.lastCommitted = batches[i].id]
        /\ batches' = [batches EXCEPT ![i].committed = TRUE]
        /\ evictions' = evictions \cup Accesses(batches[i].block)
        /\ writer' = WriterIdle
        /\ UNCHANGED <<writerFrame, panic, sched, wq, staged, disk>>

\* Mutant: the done signal is lost.
RollbackDoneSilently ==
    /\ writer.pc = "flushed" /\ writer.cmd.op = "rollback"
    /\ writer' = WriterIdle
    /\ UNCHANGED <<writerFrame, panic, sched, mem, batches, evictions, wq, staged, disk>>

\* Write::flushed for Rollback: Rollback::done wakes the scheduler thread.
RollbackDone ==
    /\ writer.pc = "flushed" /\ writer.cmd.op = "rollback"
    /\ sched' = [sched EXCEPT !.pc = "resume"]
    /\ writer' = WriterIdle
    /\ UNCHANGED <<writerFrame, panic, mem, batches, evictions, wq, staged, disk>>

-----------------------------------------------------------------------------
(* Crash and restart.                                                      *)

StoredIds == {v \in Ids : disk.meta[v] # None}

\* CanonicalChainManager::new assumes that the stored ids have no hole.
Contiguous == \A v, w \in StoredIds : v .. w \subseteq StoredIds

LastApplied(d) == IF d.applied = <<>> THEN 0 ELSE Last(d.applied).id

\* The disks from which replaying the stored metadata gives back the chain whose
\* state the disk holds: no hole, the newest stored batch is the one in force,
\* and no diff of a batch that never committed.
Replayable ==
    /\ Contiguous
    /\ Max(StoredIds \cup {0}) = LastApplied(disk)
    /\ \A v \in Ids \ StoredIds, r \in Resources : disk.rollback[v][r] = None

\* The process dies (a graceful shutdown drops the queued writes as well) and a
\* new one opens the store: SchedulerState::new, Scheduler::with_state and
\* Store::canonical_chain_manager.  A hole in the stored ids trips the
\* assertion of CanonicalChainManager::new (without it, ids shift).
Restart ==
    LET newest == Max(StoredIds \cup {0})
        base   == disk.root
    IN  /\ panic = None
        /\ used.crashes < MaxCrashes
        /\ CleanRestarts => Replayable
        /\ panic' = IF Contiguous THEN None ELSE "restart"
        /\ log' = [v \in StoredIds |-> disk.meta[v]]
        /\ tip' = newest
        /\ canon' = IF StoredIds = {} THEN {} ELSE Ancestry(log', newest)
        /\ cursor' = IF newest = 0 THEN Genesis ELSE disk.meta[newest].block
        /\ sched' = Idle
        /\ mem' = [lastProcessed |-> disk.lastCommitted,
                   lastCommitted |-> disk.lastCommitted, root |-> disk.root]
        /\ pending' = <<>>
        /\ ctxs' = <<[parent |-> 0, first |-> base, threshold |-> None]>>
        /\ batches' = <<>>
        /\ chains' = [r \in Resources |-> 0]
        /\ evictions' = {}
        /\ lifecycle' = <<>> /\ committing' = 0
        /\ wq' = <<>> /\ writer' = WriterIdle
        /\ staged' = disk
        /\ used' = [used EXCEPT !.crashes = @ + 1]
        /\ UNCHANGED disk

-----------------------------------------------------------------------------
(* The specification.                                                      *)

\* Nothing left to do: only the bridge or a crash can move the system on.
Quiet ==
    /\ sched.pc = "run"
    /\ lifecycle = <<>> /\ committing = 0
    /\ wq = <<>> /\ writer.pc = "idle" /\ staged = disk
    /\ \A i \in DOMAIN batches : batches[i].phase = "done"

Rest == Quiet /\ UNCHANGED vars

SchedulerThread == SubmitRollback \/ ResumeAfterRollback

ReadWorker ==
    \E i \in DOMAIN batches :
        RestoreCommitted(i) \/ \E r \in Resources : ReadLatestData(i, r)

ExecutionWorkers ==
    \E i \in DOMAIN batches : Execute(i) \/ SubmitWrite(i) \/ FinishExecution(i)

BatchLifecycleWorker == LifecycleNext \/ ScheduleCommit

WriteWorker ==
    \/ \E held \in BOOLEAN : ExecDiff(held)
    \/ ExecCommit
    \/ ApplyCommit
    \/ ExecRollback
    \/ Repoint
    \/ Flush
    \/ CommitDone
    \/ RollbackDone

Next ==
    \/ \E blk \in Blocks : Schedule(blk)
    \/ \E target \in 0 .. MaxBatches, held \in BOOLEAN : RollbackTo(target, held)
    \/ SchedulerThread
    \/ ReadWorker
    \/ ExecutionWorkers
    \/ BatchLifecycleWorker
    \/ WriteWorker
    \/ Restart
    \/ Rest

Spec == Init /\ [][Next]_vars

\* Every thread keeps running.  Nobody else disables a thread's work and there is
\* finitely much of it, so weak fairness of each thread is enough.
Fairness ==
    /\ WF_vars(SchedulerThread)
    /\ WF_vars(ReadWorker)
    /\ WF_vars(ExecutionWorkers)
    /\ WF_vars(BatchLifecycleWorker)
    /\ WF_vars(WriteWorker)

FairSpec == Spec /\ Fairness

-----------------------------------------------------------------------------
(* What a serial execution of the chain would give.                        *)

\* Contents of every resource after executing the chain that ends in blk; a failing
\* transaction leaves no trace.
After[blk \in Blocks] ==
    [r \in Resources |->
       CASE Kind[blk][r] = "write" /\ blk \notin Failing  -> blk
         [] Kind[blk][r] = "remove" /\ blk \notin Failing -> None
         [] OTHER -> IF Parent[blk] = Genesis THEN None ELSE After[Parent[blk]][r]]

Before(blk, r) == IF Parent[blk] = Genesis THEN None ELSE After[Parent[blk]][r]

-----------------------------------------------------------------------------
(* Properties.                                                             *)

Batch ==
    [id : Ids, block : Blocks, parent : Nat, ctx : Nat, restored : BOOLEAN,
     prev : [Resources -> Nat],
     read : [Resources -> StateVersion \cup {None}],
     written : [Resources -> StateVersion \cup {None}],
     phase : {"waiting", "executed", "submitting", "done"}, ran : BOOLEAN, committed : BOOLEAN]

Store ==
    [data : [Ids -> [Resources -> Blocks \cup {None}]],
     rollback : [Ids -> [Resources -> Nat \cup {None}]],
     meta : [Ids -> [block : Blocks, parent : Nat] \cup {None}],
     smt : [Ids -> [Resources -> Blocks \cup {None}] \cup {None}],
     latest : [Resources -> Nat], lastCommitted : Nat, root : Nat,
     applied : Seq([id : Ids, block : Blocks])]

\* Types of the scheduler's shared state, its queues and the store.
TypeOK ==
    /\ DOMAIN log \subseteq Ids /\ tip \in Nat /\ canon \subseteq Ids
    /\ cursor \in Blocks \cup {Genesis}
    /\ sched.pc \in {"run", "submit", "wait", "resume"}
    /\ mem \in [lastProcessed : Nat, lastCommitted : Nat, root : Nat]
    /\ pending \in Seq(Ids)
    /\ batches \in Seq(Batch)
    /\ chains \in [Resources -> 0 .. Len(batches)]
    /\ writer.pc \in {"idle", "commit", "flush", "repoint", "flushed", "dead"}
    /\ disk \in Store /\ staged \in Store

\* Serializability (schedule, connect, set_written_state, process_eviction_queue,
\* the read worker): whatever order the workers run in, every executed batch has
\* read, for each resource it declares, what executing its ancestors one by one
\* would have left there.
ReadsSerial ==
    \A i \in DOMAIN batches :
        LET b == batches[i]
        IN  b.phase # "waiting" /\ ~b.restored /\ b.ran =>
              \A r \in Accesses(b.block) : b.read[r].data = Before(b.block, r)

\* Commits land in chain order and the latest pointers always lead to exactly the
\* contents a serial execution of the committed chain leaves (StateDiff::write,
\* commit, Rollback::execute): at every instant, so also at any crash.
DiskHoldsChain ==
    LET top == disk.applied
    IN  /\ \A k \in DOMAIN top :
             Parent[top[k].block] = IF k = 1 THEN Genesis ELSE top[k - 1].block
        /\ \A r \in Resources :
             FromLatestData(disk, r).data =
               IF top = <<>> THEN None ELSE After[Last(top).block][r]

\* Once rollback_to has returned, no write of a batch it canceled is in force and
\* none can come into force later (canceled() rechecks in write and commit).
OnlyCanonicalApplied ==
    sched.pc \in {"run", "resume"} =>
        \A k \in DOMAIN disk.applied : disk.applied[k].id \in canon

\* lookup_checkpoint finds every rollback target the bridge can name: a canonical
\* batch leaves pending_batches only after its metadata is on disk.
CheckpointsKnown ==
    sched.pc = "run" => canon \subseteq Range(pending) \cup StoredIds

\* last_committed, whenever the write worker is between commands and no rollback is
\* under way (commit, commit_done, Rollback::execute): in memory it is the last batch in
\* force, and the persisted one is the same, except that it goes on naming a canceled
\* batch whose commit reached the disk but not commit_done: rollback.rs:55 compares the
\* target with the memory alone.
LastCommittedAgrees ==
    sched.pc = "run" /\ writer.pc = "idle" =>
        /\ mem.lastCommitted = LastApplied(disk)
        /\ \/ disk.lastCommitted = mem.lastCommitted
           \/ \E i \in DOMAIN batches : batches[i].id = disk.lastCommitted /\ Canceled(i)

\* manager.rs:36: "restore must be contiguous".  A restart never panics in
\* CanonicalChainManager::new.
RestartNeverPanics == panic # "restart"

\* state_diff.rs:90: "The batch and both states must be resolved by the time the
\* worker writes this diff."  The write worker never meets a diff whose batch is gone.
DiffsFindTheirBatch == panic # "write worker"

\* The state tree and the latest pointers tell the same story: the newest
\* canonical tree, up to the last batch in force, holds what the latest pointers
\* lead to (store.update in commit, the canonical filter of RocksDbStore::node).
SmtMatchesLatest ==
    sched.pc = "run" /\ writer.pc = "idle" =>
        LET trees == {v \in canon : v <= LastApplied(disk) /\ disk.smt[v] # None}
        IN  \A r \in Resources :
              FromLatestData(disk, r).data =
                IF trees = {} THEN None ELSE disk.smt[Max(trees)][r]

\* The persisted root is the oldest batch in force, and 0 without one
\* (next_checkpoint, commit, Rollback::execute to genesis).
RootIsOldest ==
    writer.pc = "idle" =>
        disk.root = IF disk.applied = <<>> THEN 0 ELSE disk.applied[1].id

\* rollback_to returns: the write worker always gets to its command.
RollbackReturns == sched.pc # "run" ~> sched.pc = "run"

\* Every scheduled batch is eventually committed or canceled (connect, execute,
\* the lifecycle queue, the write queue).
BatchSettles ==
    \A i \in 1 .. MaxBatches :
        i \in DOMAIN batches
          ~> (i \in DOMAIN batches => batches[i].committed \/ Canceled(i))

=============================================================================
