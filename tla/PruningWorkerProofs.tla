------------------------ MODULE PruningWorkerProofs ------------------------
(***************************************************************************)
(* The pause handshake is safe for any number of batches: while a rollback *)
(* that pause admitted is under way, nothing in its range is or gets       *)
(* deleted, and what is deleted lies below the root and the threshold.     *)
(***************************************************************************)
EXTENDS PruningWorker, TLAPS

\* The cursor of the last pass that is past its recheck and has published its root:
\* until then the swapped-out cursor counts.
Settled ==
    IF worker.pc \in {"recheck", "abort", "advance"} THEN worker.prev ELSE cursor

\* From the swap on, the cursor announces the pass.
CursorAnnounces ==
    worker.pc \in {"recheck", "abort", "advance", "delete"} => cursor = worker.upper

\* The candidate the worker has loaded lies above all it ever settled.
LowerIsNew ==
    worker.pc \in {"threshold", "ceiling", "swap", "recheck", "abort", "advance"}
        => worker.lower = 0 \/ worker.lower > Settled

\* A pass is never empty.
PassNotEmpty ==
    worker.pc \in {"swap", "recheck", "abort", "advance", "delete"}
        => 0 < worker.lower /\ worker.lower <= worker.upper

\* A pass stays below the threshold it read.
UpperIsFinal ==
    /\ worker.pc = "ceiling" => worker.upper <= threshold
    /\ worker.pc \in {"swap", "recheck", "abort", "advance", "delete"}
        => worker.upper < threshold

\* Deleted batches are settled, settled ones finalized and below the root.
PrunedIsSettled == \A i \in pruned : 0 < i /\ i <= Settled

SettledBelowRoot ==
    /\ root = 0 => Settled = 0
    /\ root # 0 => Settled < root
    /\ worker.pc = "delete" => worker.upper < root

\* Every settled batch is below the threshold.
SettledIsFinal == Settled = 0 \/ Settled < threshold

\* An admitted rollback: the ceiling stands at its target, nothing above is settled
\* and no pass past its recheck reaches higher.
Admitted ==
    sched.pc \in {"rolling", "rolled"} =>
        /\ ceiling = sched.target
        /\ Settled <= sched.target
        /\ worker.pc \in {"advance", "delete"} => worker.upper <= sched.target

\* A rollback being asked for: the ceiling stands at its target.
Asked == sched.pc = "pausing" => ceiling = sched.target

\* The inductive invariant.
Inv ==
    /\ TypeOK
    /\ CursorAnnounces
    /\ LowerIsNew
    /\ PassNotEmpty
    /\ UpperIsFinal
    /\ PrunedIsSettled
    /\ SettledBelowRoot
    /\ SettledIsFinal
    /\ Asked
    /\ Admitted
-----------------------------------------------------------------------------
\* A fresh or reopened store satisfies the invariant.
LEMMA InitInv == Init => Inv
<1> SUFFICES ASSUME Init PROVE Inv
  OBVIOUS
<1>1. PICK r \in Indexes, p \in Indexes : InitAt(r, p)
  BY DEF Init
<1>2. cursor \in Indexes /\ pruned \subseteq Indexes
  BY <1>1, ConstantsAssumption DEF InitAt, Indexes
<1>3. ceiling \in 0 .. Unlimited /\ 0 \in Indexes
  BY <1>1, ConstantsAssumption DEF InitAt, Indexes, Unlimited
<1>4. TypeOK
  BY <1>1, <1>2, <1>3 DEF InitAt, TypeOK
<1> QED
  BY <1>1, <1>4, ConstantsAssumption
  DEF InitAt, Indexes, Inv, CursorAnnounces, LowerIsNew, PassNotEmpty, UpperIsFinal,
             PrunedIsSettled, SettledBelowRoot, SettledIsFinal, Asked, Admitted, Settled

\* The inclusive bound of a pass: no higher than the threshold read, and strictly
\* below unless that was 0.
LEMMA UpperBoundRange ==
    ASSUME TypeOK
    PROVE  /\ UpperBound \in Indexes
           /\ UpperBound <= worker.upper
           /\ worker.upper # 0 => UpperBound < worker.upper
BY ConstantsAssumption DEF TypeOK, UpperBound, Indexes, Unlimited

\* Every step of either thread keeps the shared variables and locals in their types.
LEMMA StepTypeOK == Inv /\ [Next]_vars => TypeOK'
<1> SUFFICES ASSUME Inv, [Next]_vars PROVE TypeOK'
  OBVIOUS
<1> USE ConstantsAssumption DEF Inv, TypeOK, Indexes, Unlimited,
    PassNotEmpty, UpperIsFinal
<1>1. ASSUME NEW id \in Indexes, Schedule(id) PROVE TypeOK'
  BY <1>1 DEF Schedule
<1>2. ASSUME NEW below \in Indexes, SetThreshold(below) PROVE TypeOK'
  BY <1>2 DEF SetThreshold
<1>3. ASSUME NEW target \in Indexes, Pause(target) PROVE TypeOK'
  BY <1>3 DEF Pause
<1>4. CASE Shutdown
  BY <1>4 DEF Shutdown
<1>5. CASE PauseOk
  BY <1>5 DEF PauseOk, CursorClear
<1>6. CASE PauseConflict
  BY <1>6 DEF PauseConflict, CursorClear
<1>7. CASE Rollback
  BY <1>7 DEF Rollback
<1>8. CASE Unpause
  BY <1>8 DEF Unpause
<1>9. CASE Notify
  BY <1>9 DEF Notify
<1>10. CASE LoopHead
  BY <1>10 DEF LoopHead, Closed
<1>11. CASE LoadRoot
  BY <1>11 DEF LoadRoot
<1>12. CASE LoadThreshold
  BY <1>12 DEF LoadThreshold
<1>13. CASE LoadCeiling
  <2>1. UpperBound \in Indexes
    BY UpperBoundRange
  <2> QED
    BY <1>13, <2>1 DEF LoadCeiling
<1>14. CASE Idle
  BY <1>14 DEF Idle, Closed
<1>15. CASE Wake
  BY <1>15 DEF Wake
<1>16. CASE SwapCursor
  BY <1>16 DEF SwapCursor
<1>17. CASE RecheckCeiling
  BY <1>17 DEF RecheckCeiling, MustAbort
<1>18. CASE Abort
  BY <1>18 DEF Abort
<1>19. CASE AdvanceRoot
  BY <1>19 DEF AdvanceRoot
<1>20. CASE Delete
  BY <1>20 DEF Delete
<1>21. CASE UNCHANGED vars
  BY <1>21 DEF vars
<1> QED
  BY <1>1, <1>2, <1>3, <1>4, <1>5, <1>6, <1>7, <1>8, <1>9, <1>10, <1>11, <1>12, <1>13, <1>14, <1>15, <1>16, <1>17, <1>18, <1>19, <1>20, <1>21 DEF Next, CarryOn, Worker

\* Every step of either thread keeps the invariant.
LEMMA StepInv == Inv /\ [Next]_vars => Inv'
<1> SUFFICES ASSUME Inv, [Next]_vars PROVE Inv'
  OBVIOUS
<1>0. TypeOK'
  BY StepTypeOK
<1> USE ConstantsAssumption DEF Inv, CursorAnnounces, LowerIsNew, PassNotEmpty, UpperIsFinal,
             PrunedIsSettled, SettledBelowRoot, SettledIsFinal, Asked, Admitted, Settled,
    TypeOK, Indexes, Unlimited
<1>1. ASSUME NEW id \in Indexes, Schedule(id) PROVE Inv'
  BY <1>0, <1>1 DEF Schedule
<1>2. ASSUME NEW below \in Indexes, SetThreshold(below) PROVE Inv'
  BY <1>0, <1>2 DEF SetThreshold
<1>3. ASSUME NEW target \in Indexes, Pause(target) PROVE Inv'
  BY <1>0, <1>3 DEF Pause
<1>4. CASE Shutdown
  BY <1>0, <1>4 DEF Shutdown
<1>5. CASE PauseOk
  BY <1>0, <1>5 DEF PauseOk, CursorClear
<1>6. CASE PauseConflict
  BY <1>0, <1>6 DEF PauseConflict, CursorClear
<1>7. CASE Rollback
  BY <1>0, <1>7 DEF Rollback
<1>8. CASE Unpause
  BY <1>0, <1>8 DEF Unpause
<1>9. CASE Notify
  BY <1>0, <1>9 DEF Notify
<1>10. CASE LoopHead
  BY <1>0, <1>10 DEF LoopHead, Closed
<1>11. CASE LoadRoot
  BY <1>0, <1>11 DEF LoadRoot
<1>12. CASE LoadThreshold
  BY <1>0, <1>12 DEF LoadThreshold
<1>13. CASE LoadCeiling
  BY <1>0, <1>13 DEF LoadCeiling, UpperBound
<1>14. CASE Idle
  BY <1>0, <1>14 DEF Idle, Closed
<1>15. CASE Wake
  BY <1>0, <1>15 DEF Wake
<1>16. CASE SwapCursor
  BY <1>0, <1>16 DEF SwapCursor
<1>17. CASE RecheckCeiling
  BY <1>0, <1>17 DEF RecheckCeiling, MustAbort
<1>18. CASE Abort
  BY <1>0, <1>18 DEF Abort
<1>19. CASE AdvanceRoot
  BY <1>0, <1>19 DEF AdvanceRoot
<1>20. CASE Delete
  BY <1>0, <1>20 DEF Delete
<1>21. CASE UNCHANGED vars
  BY <1>0, <1>21 DEF vars
<1> QED
  BY <1>1, <1>2, <1>3, <1>4, <1>5, <1>6, <1>7, <1>8, <1>9, <1>10, <1>11, <1>12, <1>13, <1>14, <1>15, <1>16, <1>17, <1>18, <1>19, <1>20, <1>21 DEF Next, CarryOn, Worker

\* The invariant holds in every reachable state.
LEMMA Invariance == Spec => []Inv
<1>1. Init => Inv
  BY InitInv
<1>2. Inv /\ [Next]_vars => Inv'
  BY StepInv
<1> QED
  BY <1>1, <1>2, PTL DEF Spec

\* The shared atomics and the threads' locals keep their types: in particular the
\* root a pass publishes is never beyond the ids in use.
THEOREM TypeCorrect == Spec => []TypeOK
<1>1. Inv => TypeOK
  BY DEF Inv
<1> QED
  BY <1>1, Invariance, PTL

\* pause and the worker's recheck exclude each other: no batch in the range of an
\* admitted rollback is deleted or about to be.
THEOREM RollbackSafe == Spec => []RollbackRangeIntact
<1>1. Inv => RollbackRangeIntact
  BY DEF Inv, TypeOK, Indexes, RollbackRangeIntact, Doomed, Settled, PrunedIsSettled,
         Admitted
<1> QED
  BY <1>1, Invariance, PTL

\* What prune deletes is finalized and lies below the published root.
THEOREM PruneSafe == Spec => []PrunedBelowRoot
<1>1. Inv => PrunedBelowRoot
  BY ConstantsAssumption
  DEF Inv, TypeOK, Indexes, PrunedBelowRoot, Doomed, Settled, PrunedIsSettled,
      SettledBelowRoot, SettledIsFinal
<1> QED
  BY <1>1, Invariance, PTL
=============================================================================
