------------------------------ MODULE ForkChain ------------------------------
(***************************************************************************)
(* What the canonical chain promises: a log of batches, each with the id   *)
(* of its parent, and the set of those on the tip's ancestry.  Ids are     *)
(* dense and never reused; a batch that returns after a reorg keeps its id *)
(* (storage/canonical-chain/src/manager.rs, snapshot.rs).                  *)
(***************************************************************************)
EXTENDS Naturals, Sequences

CONSTANT MaxId    \* bound on the ids handed out

VARIABLES
    parents,     \* parents[id] is the id of the parent of batch id
    base,        \* lowest live id
    tip,         \* highest canonical id
    canonical    \* the live canonical ids

vars == <<parents, base, tip, canonical>>

Newest == Len(parents)

\* The live ids on the way from t down to the finalized floor.
Ancestry(t) ==
    LET up[id \in 0 .. Newest] ==
            IF id < base THEN {} ELSE {id} \cup up[parents[id]]
    IN  up[t]

Init ==
    /\ parents = <<>>
    /\ base = 1
    /\ tip = 0
    /\ canonical = {}

\* A batch unknown so far takes the next id, as a child of the tip.
Allocate ==
    /\ Newest < MaxId
    /\ parents' = Append(parents, tip)
    /\ UNCHANGED <<base, tip, canonical>>

\* A child of the tip, new or returning, becomes the tip.
Extend(id) ==
    /\ base <= id /\ tip < id /\ parents[id] = tip
    /\ tip' = id
    /\ canonical' = canonical \cup {id}
    /\ UNCHANGED <<parents, base>>

\* Everything above a canonical batch, or above genesis, is orphaned.
Rollback(t) ==
    /\ t \in canonical \/ (t = 0 /\ base = 1)
    /\ tip' = t
    /\ canonical' = {id \in canonical : id <= t}
    /\ UNCHANGED <<parents, base>>

\* Batches below a canonical one can no longer be rolled back; the log forgets them.
Finalize(below) ==
    /\ below \in canonical
    /\ base' = below
    /\ parents' = [id \in 1 .. Newest |-> IF id < below THEN 0 ELSE parents[id]]
    /\ canonical' = {id \in canonical : id >= below}
    /\ UNCHANGED tip

\* A restart takes the newest batch of the log for the tip.
Restart ==
    /\ Newest >= base
    /\ tip' = Newest
    /\ canonical' = Ancestry(Newest)
    /\ UNCHANGED <<parents, base>>

Next ==
    \/ Allocate
    \/ \E id \in 1 .. Newest : Extend(id) \/ Finalize(id)
    \/ \E t \in 0 .. Newest : Rollback(t)
    \/ Restart

Spec == Init /\ [][Next]_vars
=============================================================================
