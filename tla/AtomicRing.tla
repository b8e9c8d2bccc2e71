----------------------------- MODULE AtomicRing -----------------------------
(***************************************************************************)
(* core/atomics/src/atomic_ring.rs: a growable ring addressed by index.    *)
(* An entry lives in slot index % length, tagged with its index; pruning   *)
(* and truncation move the bounds and leave the slots as they are.         *)
(***************************************************************************)
EXTENDS Integers

CONSTANTS
    Empty,      \* an empty slot, and the answer of a lookup outside the ring
    Capacity    \* the initial number of slots

\* An empty ring whose first push is given index base.
New(base) ==
    [base |-> base, tip |-> base, slots |-> [s \in 0 .. Capacity - 1 |-> Empty]]

Length(ring) == 1 + CHOOSE n \in DOMAIN ring.slots : n + 1 \notin DOMAIN ring.slots

Slot(ring, index) == index % Length(ring)

\* with, get: the entry of an index in bounds whose slot still carries that index.
Get(ring, index) ==
    IF /\ ring.base <= index /\ index < ring.tip
       /\ ring.slots[Slot(ring, index)] # Empty
       /\ ring.slots[Slot(ring, index)].index = index
    THEN ring.slots[Slot(ring, index)].value
    ELSE Empty

\* Entries of the live range, each at its slot of an array of n slots.
Placed(ring, n) ==
    LET at(s) == {i \in ring.base .. ring.tip - 1 : i % n = s /\ Get(ring, i) # Empty}
    IN  [s \in 0 .. n - 1 |->
            IF at(s) = {} THEN Empty
            ELSE LET i == CHOOSE j \in at(s) : TRUE
                 IN  [index |-> i, value |-> Get(ring, i)]]

\* grow: double the array and place the live entries anew.
Grow(ring) == [ring EXCEPT !.slots = Placed(ring, 2 * Length(ring))]

\* Mutant: a full ring is not grown, and the oldest entry is overwritten.
RoomAlways(ring) == ring

\* The ring a push stores into: grown if the index would wrap onto a live entry.
Room(ring) == IF ring.tip - ring.base >= Length(ring) THEN Grow(ring) ELSE ring

\* push.
Push(ring, value) ==
    LET r == Room(ring)
    IN  [r EXCEPT !.slots[Slot(r, r.tip)] = [index |-> r.tip, value |-> value],
                  !.tip = r.tip + 1]

\* replace: a no-op out of bounds.
Replace(ring, index, value) ==
    IF ring.base <= index /\ index < ring.tip
    THEN [ring EXCEPT !.slots[Slot(ring, index)] = [index |-> index, value |-> value]]
    ELSE ring

\* fork: an independent ring with the live entries of this one.
Fork(ring) == [ring EXCEPT !.slots = Placed(ring, Length(ring))]

Clamp(n, low, high) == IF n < low THEN low ELSE IF n > high THEN high ELSE n

\* prune_below: the base only advances, and never beyond the tip.
PruneBelow(ring, below) == [ring EXCEPT !.base = Clamp(below, ring.base, ring.tip)]
=============================================================================
