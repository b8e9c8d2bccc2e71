---------------------------- MODULE PruningWorker ----------------------------
(***************************************************************************)
(* The handshake between the pruning thread and Scheduler::rollback_to     *)
(* (scheduling/scheduler/src/pruning_worker.rs): which batches may be      *)
(* pruned while a rollback is under way.  What a pass deletes of the state *)
(* tree is the subject of StateTree.                                       *)
(*                                                                         *)
(* Every atomic access is one step.  A load that misses a recent store is  *)
(* the same load made earlier, since any step may come between two of a    *)
(* thread's.  The batches are their ids.                                   *)
(***************************************************************************)
EXTENDS Naturals

CONSTANTS
    MaxIndex,         \* highest batch id
    ConflictPanics,   \* the caller unwraps a PruningConflict, as ChainSink::rollback does
    GenesisFinal      \* once a batch is finalized no rollback goes to genesis

ASSUME ConstantsAssumption ==
    MaxIndex \in Nat /\ ConflictPanics \in BOOLEAN /\ GenesisFinal \in BOOLEAN

Indexes == 0 .. MaxIndex

\* The ceiling u64::MAX.
Unlimited == MaxIndex + 1

VARIABLES
    threshold,   \* pruning_threshold
    ceiling,     \* pause_ceiling
    cursor,      \* pruning_cursor
    notified,    \* notify holds a permit
    root,        \* SchedulerState::root
    pruned,      \* batches whose data a pass has deleted
    worker,      \* pruning thread: [pc, lower, upper, prev]
    sched,       \* scheduler thread: [pc, target]
    processed,   \* SchedulerState::last_processed
    newest       \* the last id handed out

vars == <<threshold, ceiling, cursor, notified, root, pruned, worker, sched,
          processed, newest>>

-----------------------------------------------------------------------------
\* PruningWorker::new and SchedulerState::new over a store whose root is r and whose
\* last committed batch is p ...
InitAt(r, p) ==
    /\ r <= p /\ (r = 0 => p = 0)
    /\ threshold = r
    /\ ceiling = Unlimited
    /\ cursor = IF r = 0 THEN 0 ELSE r - 1
    /\ notified = FALSE
    /\ root = r
    /\ pruned = 1 .. cursor
    /\ worker = [pc |-> "loop", lower |-> 0, upper |-> 0, prev |-> 0]
    /\ sched = [pc |-> "run", target |-> 0]
    /\ processed = p
    /\ newest = p

\* ... both 0 when it is fresh.
Init == \E r, p \in Indexes : InitAt(r, p)

-----------------------------------------------------------------------------
(* The scheduler thread.                                                   *)

\* Scheduler::schedule: next_checkpoint moves on to a fresh id or to the id a
\* returning child of the tip already has, and starts the root off.
Schedule(id) ==
    /\ sched.pc = "run" /\ processed < id /\ id <= newest + 1
    /\ newest' = IF id > newest THEN id ELSE newest
    /\ processed' = id
    /\ root' = IF root = 0 THEN id ELSE root
    /\ UNCHANGED <<threshold, ceiling, cursor, notified, pruned, worker, sched>>

\* ChainSink::finalize: PruningWorker::set_threshold for a batch of the chain, which
\* wakes the worker once it has raised the threshold.
SetThreshold(below) ==
    /\ sched.pc = "run" /\ below <= processed
    /\ threshold' = IF below > threshold THEN below ELSE threshold
    /\ sched' = [sched EXCEPT !.pc = IF below > threshold THEN "notify" ELSE "run"]
    /\ UNCHANGED <<ceiling, cursor, notified, root, pruned, worker, processed, newest>>

\* Scheduler::rollback_to: pause publishes the ceiling ...
Pause(target) ==
    /\ sched.pc = "run" /\ target < processed
    /\ GenesisFinal => target > 0 \/ threshold = 0
    /\ ceiling' = target
    /\ sched' = [pc |-> "pausing", target |-> target]
    /\ UNCHANGED <<threshold, cursor, notified, root, pruned, worker, processed, newest>>

\* ... its look at the cursor ...
CursorClear == cursor <= sched.target

\* ... accepts the rollback ...
PauseOk ==
    /\ sched.pc = "pausing" /\ CursorClear
    /\ sched' = [sched EXCEPT !.pc = "rolling"]
    /\ UNCHANGED <<threshold, ceiling, cursor, notified, root, pruned, worker,
                   processed, newest>>

\* ... or refuses it with PruningConflict.
PauseConflict ==
    /\ sched.pc = "pausing" /\ ~CursorClear
    /\ ceiling' = Unlimited
    /\ sched' = [sched EXCEPT !.pc = IF ConflictPanics THEN "panicked" ELSE "run"]
    /\ UNCHANGED <<threshold, cursor, notified, root, pruned, worker, processed, newest>>

\* Rollback::execute on the write worker; the scheduler thread waits for it.
Rollback ==
    /\ sched.pc = "rolling"
    /\ processed' = sched.target
    /\ root' = IF sched.target = 0 THEN 0 ELSE root
    /\ sched' = [sched EXCEPT !.pc = "rolled"]
    /\ UNCHANGED <<threshold, ceiling, cursor, notified, pruned, worker, newest>>

\* unpause: lift the ceiling, then wake the worker.
Unpause ==
    /\ sched.pc = "rolled"
    /\ ceiling' = Unlimited
    /\ sched' = [sched EXCEPT !.pc = "notify"]
    /\ UNCHANGED <<threshold, cursor, notified, root, pruned, worker, processed, newest>>

\* Mutant: only shutdown wakes the worker.
NotifyNothing ==
    /\ sched.pc \in {"notify", "closing"}
    /\ notified' = (notified \/ sched.pc = "closing")
    /\ sched' = [sched EXCEPT !.pc = IF sched.pc = "notify" THEN "run" ELSE "joining"]
    /\ UNCHANGED <<threshold, ceiling, cursor, root, pruned, worker, processed, newest>>

\* Mutant: shutdown joins the worker without waking it.
NotifyUnpauseOnly ==
    /\ sched.pc \in {"notify", "closing"}
    /\ notified' = (notified \/ sched.pc = "notify")
    /\ sched' = [sched EXCEPT !.pc = IF sched.pc = "notify" THEN "run" ELSE "joining"]
    /\ UNCHANGED <<threshold, ceiling, cursor, root, pruned, worker, processed, newest>>

\* The wake-up that ends set_threshold and unpause and precedes the join of shutdown.
Notify ==
    /\ sched.pc \in {"notify", "closing"}
    /\ notified' = TRUE
    /\ sched' = [sched EXCEPT !.pc = IF sched.pc = "notify" THEN "run" ELSE "joining"]
    /\ UNCHANGED <<threshold, ceiling, cursor, root, pruned, worker, processed, newest>>

\* Scheduler::shutdown: drop pruning_threshold, then wake and join the worker.
Shutdown ==
    /\ sched.pc = "run"
    /\ sched' = [sched EXCEPT !.pc = "closing"]
    /\ UNCHANGED <<threshold, ceiling, cursor, notified, root, pruned, worker,
                   processed, newest>>

-----------------------------------------------------------------------------
(* The pruning thread.                                                     *)

\* Arc::strong_count(&pruning_threshold) == 1.
Closed == sched.pc \in {"closing", "joining"}

\* The head of the loop.
LoopHead ==
    /\ worker.pc = "loop"
    /\ worker' = [worker EXCEPT !.pc = IF Closed THEN "exit" ELSE "root"]
    /\ UNCHANGED <<threshold, ceiling, cursor, notified, root, pruned, sched,
                   processed, newest>>

\* state.root(), the first candidate.
LoadRoot ==
    /\ worker.pc = "root"
    /\ worker' = [worker EXCEPT !.pc = "threshold", !.lower = root]
    /\ UNCHANGED <<threshold, ceiling, cursor, notified, root, pruned, sched,
                   processed, newest>>

\* pruning_threshold.load; kept in upper until the ceiling is known.
LoadThreshold ==
    /\ worker.pc = "threshold"
    /\ worker' = [worker EXCEPT !.pc = "ceiling", !.upper = threshold]
    /\ UNCHANGED <<threshold, ceiling, cursor, notified, root, pruned, sched,
                   processed, newest>>

\* Mutant: the subtraction wraps around.
UpperBoundWrapping ==
    LET limit == IF ceiling < worker.upper THEN ceiling ELSE worker.upper
    IN  IF limit = 0 THEN Unlimited ELSE limit - 1

\* Mutant: the threshold itself is pruned.
UpperBoundInclusive == IF ceiling < worker.upper THEN ceiling ELSE worker.upper

\* threshold.min(ceiling).saturating_sub(1).
UpperBound ==
    LET limit == IF ceiling < worker.upper THEN ceiling ELSE worker.upper
    IN  IF limit = 0 THEN 0 ELSE limit - 1

\* The pass is empty or not.
LoadCeiling ==
    /\ worker.pc = "ceiling"
    /\ worker' = [worker EXCEPT
                    !.pc = IF UpperBound >= worker.lower /\ worker.lower > 0
                           THEN "swap" ELSE "idle",
                    !.upper = UpperBound]
    /\ UNCHANGED <<threshold, ceiling, cursor, notified, root, pruned, sched,
                   processed, newest>>

\* Nothing to do: look for a shutdown once more ...
Idle ==
    /\ worker.pc = "idle"
    /\ worker' = [worker EXCEPT !.pc = IF Closed THEN "loop" ELSE "parked"]
    /\ UNCHANGED <<threshold, ceiling, cursor, notified, root, pruned, sched,
                   processed, newest>>

\* ... and wait: notify.notified().await.
Wake ==
    /\ worker.pc = "parked" /\ notified
    /\ notified' = FALSE
    /\ worker' = [worker EXCEPT !.pc = "loop"]
    /\ UNCHANGED <<threshold, ceiling, cursor, root, pruned, sched, processed, newest>>

\* Dekker step 1: announce the pass.
SwapCursor ==
    /\ worker.pc = "swap"
    /\ cursor' = worker.upper
    /\ worker' = [worker EXCEPT !.pc = "recheck", !.prev = cursor]
    /\ UNCHANGED <<threshold, ceiling, notified, root, pruned, sched, processed, newest>>

\* Mutant: compares the ceiling with the wrong end of the range.
MustAbortLower == ceiling <= worker.lower

\* Dekker step 2: a ceiling set since.
MustAbort == ceiling <= worker.upper

RecheckCeiling ==
    /\ worker.pc = "recheck"
    /\ worker' = [worker EXCEPT !.pc = IF MustAbort THEN "abort" ELSE "advance"]
    /\ UNCHANGED <<threshold, ceiling, cursor, notified, root, pruned, sched,
                   processed, newest>>

\* Restore the cursor and start over.
Abort ==
    /\ worker.pc = "abort"
    /\ cursor' = worker.prev
    /\ worker' = [worker EXCEPT !.pc = "loop"]
    /\ UNCHANGED <<threshold, ceiling, notified, root, pruned, sched, processed, newest>>

\* prune: advance the root in memory ...
AdvanceRoot ==
    /\ worker.pc = "advance"
    /\ root' = worker.upper + 1
    /\ worker' = [worker EXCEPT !.pc = "delete"]
    /\ UNCHANGED <<threshold, ceiling, cursor, notified, pruned, sched, processed, newest>>

\* ... and commit the deletions of the whole range at once.
Delete ==
    /\ worker.pc = "delete"
    /\ pruned' = pruned \cup (worker.lower .. worker.upper)
    /\ worker' = [worker EXCEPT !.pc = "loop"]
    /\ UNCHANGED <<threshold, ceiling, cursor, notified, root, sched, processed, newest>>

-----------------------------------------------------------------------------
(* The specification.                                                      *)

CarryOn == PauseOk \/ PauseConflict \/ Rollback \/ Unpause \/ Notify

Worker ==
    \/ LoopHead
    \/ LoadRoot
    \/ LoadThreshold
    \/ LoadCeiling
    \/ Idle
    \/ Wake
    \/ SwapCursor
    \/ RecheckCeiling
    \/ Abort
    \/ AdvanceRoot
    \/ Delete

Next ==
    \/ \E id \in Indexes : Schedule(id)
    \/ \E below \in Indexes : SetThreshold(below)
    \/ \E target \in Indexes : Pause(target)
    \/ Shutdown
    \/ CarryOn
    \/ Worker

Spec == Init /\ [][Next]_vars

\* Both threads run: a rollback or a shutdown once begun is carried through, and the
\* pruning thread keeps going.  Nothing obliges the node to begin one.
Fairness == WF_vars(CarryOn) /\ WF_vars(Worker)

FairSpec == Spec /\ Fairness

-----------------------------------------------------------------------------
(* Properties.                                                             *)

\* Types of the shared atomics and of the two threads' locals.
TypeOK ==
    /\ threshold \in Indexes
    /\ ceiling \in 0 .. Unlimited
    /\ cursor \in Indexes
    /\ notified \in BOOLEAN
    /\ root \in Indexes
    /\ pruned \subseteq Indexes
    /\ worker \in [pc : {"loop", "exit", "idle", "root", "threshold", "ceiling", "parked", "swap", "recheck",
                         "abort", "advance", "delete"},
                   lower : Indexes, upper : Indexes, prev : Indexes]
    /\ sched \in [pc : {"run", "pausing", "rolling", "rolled", "notify", "closing",
                       "joining", "panicked"},
                  target : Indexes]
    /\ processed \in Indexes
    /\ newest \in Indexes

\* Batches a pass past its last check is about to delete.
Doomed ==
    IF worker.pc \in {"advance", "delete"} THEN worker.lower .. worker.upper ELSE {}

\* pause: once it has returned true, and until unpause, no batch above the target has
\* been deleted and none will be by a pass already under way, so every rollback
\* pointer that Rollback::execute walks is on disk.
RollbackRangeIntact ==
    sched.pc \in {"rolling", "rolled"} => \A i \in pruned \cup Doomed : i <= sched.target

\* prune: a pass deletes finalized batches only, and advances the root past them
\* before it does, so no observer meets a root that points to deleted data; a
\* rollback to genesis that resets the root does so only while nothing is deleted.
PrunedBelowRoot ==
    /\ \A i \in pruned : i < threshold /\ i < root
    /\ worker.pc = "delete" => \A i \in Doomed : i < root

\* unpause "wakes the worker", set_threshold too: once rollbacks cease for good,
\* pruning catches up with the threshold.  No wake-up is lost between the worker's
\* look at the atomics and its wait.
PruningCatchesUp ==
    <>[](sched.pc = "run") => <>[](root = 0 \/ root >= threshold)

\* shutdown joins the worker, so the worker's loop must come to its end whatever it
\* was doing when the threshold was dropped.
ShutdownJoins == sched.pc = "joining" ~> worker.pc = "exit"
=============================================================================
