--------------------------- MODULE CanonicalChain ---------------------------
(***************************************************************************)
(* storage/canonical-chain: the canonical bits, in buckets of a fixed      *)
(* number of ids, split into a hot zone (the tail bucket and the one       *)
(* before it) and a ring of sealed buckets.  Every mutation publishes a    *)
(* new snapshot which shares buckets and ring with earlier ones, so both   *)
(* live on a heap: a bucket's reference is its number and a copy.          *)
(*                                                                         *)
(* One writer (the scheduler thread, through CanonicalChainManager) and    *)
(* one reader that holds a snapshot while the writer goes on.              *)
(***************************************************************************)
EXTENDS Integers, Sequences, FiniteSets, FiniteSetsExt, SequencesExt, TLC

CONSTANTS
    Absent,           \* no ring entry; no bucket; no snapshot
    BucketCapacity,   \* ids per bucket
    RingCapacity,     \* initial slots of the ring
    MaxId,            \* bound on the ids handed out
    MaxRollbacks,     \* bound on the rollbacks
    FlipsAboveTail    \* a returning batch lies in the tail bucket or above

ASSUME CanonicalAssumption ==
    /\ BucketCapacity \in Nat \ {0} /\ RingCapacity \in Nat \ {0} /\ MaxId \in Nat
    /\ MaxRollbacks \in Nat
    /\ FlipsAboveTail \in BOOLEAN

Ring == INSTANCE AtomicRing WITH Empty <- Absent, Capacity <- RingCapacity

VARIABLES
    parents,   \* CanonicalChainManager::entries: parents[id] is the parent of batch id
    base,      \* CanonicalChainManager::base
    bits,      \* heap of buckets: reference -> set of bits
    rings,     \* heap of rings; the current snapshot and the held one need two
    current,   \* CanonicalChain::current, the published snapshot
    marking,   \* the snapshot append is about to publish, or Absent
    held,      \* the snapshot a reader holds, or Absent
    seen,      \* history: the ids that were canonical in it when it was taken
    final,     \* history: canonical ids that have been finalized
    restored,  \* history: the base the process restored the chain over, 1 without one
    rollbacks  \* number of rollbacks, at most MaxRollbacks

vars == <<parents, base, bits, rings, current, marking, held, seen, final,
          restored, rollbacks>>

-----------------------------------------------------------------------------
(* Buckets.                                                                *)

\* Bucket::locate: bucket number and bit of a 1-based id.
Bucket(id) == (id - 1) \div BucketCapacity

\* Mutant: bits counted from one, like the ids.
BitFromOne(id) == ((id - 1) % BucketCapacity) + 1

Bit(id) == (id - 1) % BucketCapacity

\* Mutant: an absent bucket reads orphaned.
IsCanonicalPresent(snapshot, id) ==
    /\ id # 0 /\ id <= snapshot.tip
    /\ LET b == Bucket(id)
           sealed == Ring!Get(rings[snapshot.body], b)
       IN  CASE b = snapshot.tailBucket -> Bit(id) \in bits[snapshot.tail]
             [] b = snapshot.tailBucket - 1 -> Bit(id) \in bits[snapshot.lastSealed]
             [] OTHER -> sealed # Absent /\ Bit(id) \in bits[sealed]

\* CanonicalChainSnapshot::is_canonical.
IsCanonical(snapshot, id) ==
    /\ id # 0 /\ id <= snapshot.tip
    /\ LET b == Bucket(id)
           sealed == Ring!Get(rings[snapshot.body], b)
       IN  CASE b = snapshot.tailBucket -> Bit(id) \in bits[snapshot.tail]
             [] b = snapshot.tailBucket - 1 -> Bit(id) \in bits[snapshot.lastSealed]
             [] OTHER -> sealed = Absent \/ Bit(id) \in bits[sealed]

Newest == Len(parents)

\* The live ids a snapshot answers "canonical" for.
Answers(snapshot) == {id \in base .. Newest : IsCanonical(snapshot, id)}

\* canonical_ancestry: the walk from t to the finalized floor.
Ancestry(t) ==
    LET up[id \in 0 .. Newest] ==
            IF id < base THEN {} ELSE {id} \cup up[parents[id]]
    IN  up[t]

\* An unused copy of bucket b, for Bucket::new and Bucket::edited.
Fresh(b) ==
    IF b < 0 THEN Absent
    ELSE <<b, Min({c \in 1 .. Cardinality(DOMAIN bits) + 1 : <<b, c>> \notin DOMAIN bits})>>

\* The references a snapshot keeps alive in a heap of rings.
Kept(snapshot, rs) ==
    IF snapshot = Absent THEN {}
    ELSE {snapshot.tail, snapshot.lastSealed} \cup
         {rs[snapshot.body].slots[s].value :
            s \in {t \in DOMAIN rs[snapshot.body].slots :
                     rs[snapshot.body].slots[t] # Absent}}

\* Arc: buckets no snapshot refers to are dropped.
Collected(heap, rs, snapshots) ==
    LET live == UNION {Kept(s, rs) : s \in snapshots}
    IN  [ref \in DOMAIN heap \cap live |-> heap[ref]]

\* A ring the reader does not share.
OwnRing == IF held # Absent /\ held.body = 1 THEN 2 ELSE 1

-----------------------------------------------------------------------------
\* CanonicalChain::default and CanonicalChainManager::new over an empty store.
Init ==
    /\ parents = <<>>
    /\ base = 1
    /\ bits = (<<0, 1>> :> {})
    /\ rings = [r \in 1 .. 2 |-> Ring!New(0)]
    /\ current = [tip |-> 0, tailBucket |-> 0, tail |-> <<0, 1>>, lastSealed |-> Absent,
                  body |-> 1]
    /\ marking = Absent
    /\ held = Absent
    /\ seen = {}
    /\ final = {}
    /\ restored = 1
    /\ rollbacks = 0

-----------------------------------------------------------------------------
(* The writer.                                                             *)

\* HotZone::bucket_at: beyond the hot zone a new, empty bucket.
BucketAt(b) ==
    CASE b = current.tailBucket -> current.tail
      [] b = current.tailBucket - 1 -> current.lastSealed
      [] OTHER -> Fresh(b)

\* HotZone::roll_forward: the ring once the buckets up to target - 2 are sealed.
Sealed(target) ==
    LET ring == rings[current.body]
    IN  FoldLeft(LAMBDA r, n : Ring!Push(r, BucketAt(ring.tip + n - 1)), ring,
                 [n \in 1 .. target - ring.tip - 1 |-> n])

\* CanonicalChain::append up to its publish: roll the hot zone forward to the bucket
\* of id and set the bit, in a tail that earlier snapshots may share.
Mark(id) ==
    LET b == Bucket(id)
        moved == b # current.tailBucket
        snapshot == [tip |-> id,
                     tailBucket |-> b,
                     tail |-> IF moved THEN Fresh(b) ELSE current.tail,
                     lastSealed |-> IF moved THEN BucketAt(b - 1) ELSE current.lastSealed,
                     body |-> current.body]
        heap == bits @@ [ref \in {snapshot.tail, snapshot.lastSealed} \ {Absent} |-> {}]
    IN  /\ marking' = snapshot
        /\ rings' = IF moved THEN [rings EXCEPT ![current.body] = Sealed(b)] ELSE rings
        /\ bits' = Collected([heap EXCEPT ![snapshot.tail] = @ \cup {Bit(id)}], rings',
                             {current, snapshot, held})
        /\ UNCHANGED <<base, current, held, seen, final, restored, rollbacks>>

\* CanonicalChainManager::append of an unknown batch, a child of the tip.
AppendNew ==
    /\ marking = Absent /\ Newest < MaxId
    /\ parents' = Append(parents, current.tip)
    /\ Mark(Newest + 1)

\* ... of a known one, which keeps its id.
AppendReturning(id) ==
    /\ marking = Absent
    /\ id >= base /\ id > current.tip /\ parents[id] = current.tip
    /\ FlipsAboveTail => Bucket(id) >= current.tailBucket
    /\ Mark(id)
    /\ UNCHANGED parents

\* The publish that ends append.
Publish ==
    /\ marking # Absent
    /\ current' = marking
    /\ marking' = Absent
    /\ bits' = Collected(bits, rings, {current', held})
    /\ UNCHANGED <<parents, base, rings, held, seen, final, restored, rollbacks>>

\* Mutant: a bucket of the ring is edited in the ring readers share.
DeepNever(t) == FALSE

\* The rollback reaches a sealed bucket.
Deep(t) == Bucket(t + 1) + 2 <= current.tailBucket

\* CanonicalChainManager::rollback, CanonicalChain::rollback: clear the bits above t
\* in copies of the buckets they are in, after forking the ring if one of those is
\* sealed; an edit of a pruned bucket drops.
Rollback(t) ==
    LET body == IF Deep(t) THEN OwnRing ELSE current.body
        ring == IF Deep(t) THEN Ring!Fork(rings[current.body]) ELSE rings[current.body]
        hot == {current.tailBucket, current.tailBucket - 1}
        old(b) == IF b \in hot THEN BucketAt(b) ELSE Ring!Get(ring, b)
        edits == {b \in {Bucket(id) : id \in t + 1 .. current.tip} : old(b) # Absent}
        cleared(b) == {Bit(id) : id \in {i \in t + 1 .. current.tip : Bucket(i) = b}}
        copies == [ref \in {Fresh(b) : b \in edits} |->
                     bits[old(ref[1])] \ cleared(ref[1])]
        now(b) == IF b \in edits THEN Fresh(b) ELSE BucketAt(b)
    IN  /\ marking = Absent /\ rollbacks < MaxRollbacks
        /\ t < current.tip
        /\ t \in Ancestry(current.tip) \/ (t = 0 /\ base = 1)
        /\ rings' = [rings EXCEPT ![body] =
                        FoldLeft(LAMBDA r, b : Ring!Replace(r, b, Fresh(b)), ring,
                                 SetToSeq(edits \ hot))]
        /\ current' = [tip |-> t,
                       tailBucket |-> current.tailBucket,
                       tail |-> now(current.tailBucket),
                       lastSealed |-> now(current.tailBucket - 1),
                       body |-> body]
        /\ bits' = Collected(copies @@ bits, rings', {current', held})
        /\ rollbacks' = rollbacks + 1
        /\ UNCHANGED <<parents, base, marking, held, seen, final, restored>>

\* The lowest bucket finalize keeps.
FloorBucket(below) == Bucket(below)

\* CanonicalChainManager::finalize, CanonicalChain::finalize.
Finalize(below) ==
    /\ marking = Absent
    /\ below \in Ancestry(current.tip)
    /\ rings' = IF below > 1
                THEN [rings EXCEPT ![current.body] = Ring!PruneBelow(@, FloorBucket(below))]
                ELSE rings
    /\ base' = below
    /\ parents' = [id \in 1 .. Newest |-> IF id < below THEN 0 ELSE parents[id]]
    /\ final' = final \cup {id \in Ancestry(current.tip) : id < below}
    /\ UNCHANGED <<bits, current, marking, held, seen, restored, rollbacks>>

\* CanonicalChainManager::new over the stored log, CanonicalChain::restore: the last
\* id is the tip, its ancestry the canonical ids.
Restart ==
    LET low == Bucket(base)
        high == Bucket(Newest)
        ancestry == Ancestry(Newest)
        ring == FoldLeft(LAMBDA r, n : Ring!Push(r, <<low + n - 1, 1>>), Ring!New(low),
                         [n \in 1 .. high - low - 1 |-> n])
        below == IF high = 0 THEN Absent ELSE <<high - 1, 1>>
    IN  /\ marking = Absent /\ Newest >= base
        /\ bits' = [ref \in {<<b, 1>> : b \in low .. high} \cup ({below} \ {Absent}) |->
                       {Bit(id) : id \in {i \in ancestry : Bucket(i) = ref[1]}}]
        /\ rings' = [r \in 1 .. 2 |-> IF r = 1 THEN ring ELSE Ring!New(0)]
        /\ current' = [tip |-> Newest, tailBucket |-> high, tail |-> <<high, 1>>,
                       lastSealed |-> below, body |-> 1]
        /\ held' = Absent
        /\ seen' = {}
        /\ restored' = base
        /\ UNCHANGED <<parents, base, marking, final, rollbacks>>

-----------------------------------------------------------------------------
\* CanonicalChain::snapshot, by a reader that lets go of the one it held.
TakeSnapshot ==
    /\ held # current
    /\ held' = current
    /\ seen' = Answers(current)
    /\ rings' = [rings EXCEPT ![3 - current.body] = Ring!New(0)]
    /\ bits' = Collected(bits, rings', {current, marking})
    /\ UNCHANGED <<parents, base, current, marking, final, restored, rollbacks>>

Next ==
    \/ AppendNew
    \/ \E id \in base .. Newest : AppendReturning(id)
    \/ Publish
    \/ \E t \in 0 .. Newest : Rollback(t)
    \/ \E below \in base .. Newest : Finalize(below)
    \/ Restart
    \/ TakeSnapshot

Spec == Init /\ [][Next]_vars

-----------------------------------------------------------------------------
(* Properties.                                                             *)

\* Types; every bucket a snapshot refers to is on the heap.
TypeOK ==
    LET Snapshots == [tip : 0 .. MaxId, tailBucket : 0 .. MaxId,
                      tail : DOMAIN bits, lastSealed : DOMAIN bits \cup {Absent},
                      body : 1 .. 2]
    IN  /\ parents \in Seq(0 .. MaxId)
        /\ base \in 1 .. MaxId + 1
        /\ \A ref \in DOMAIN bits : bits[ref] \subseteq 0 .. BucketCapacity - 1
        /\ current \in Snapshots
        /\ marking \in Snapshots \cup {Absent}
        /\ held \in Snapshots \cup {Absent}
        /\ seen \subseteq 1 .. MaxId
        /\ final \subseteq 1 .. MaxId
        /\ restored \in 1 .. MaxId
        /\ rollbacks \in 0 .. MaxRollbacks

\* snapshot.rs: "1 means canonical (on the tip's ancestry)": the bits of the published
\* snapshot and the parent ids of the log tell the same chain.
OracleMatchesLog == Answers(current) = Ancestry(current.tip)

\* The chain implements the abstract one: a mutation is seen at once or not at all.
Abstract ==
    INSTANCE ForkChain WITH tip <- current.tip, canonical <- Answers(current)

Refines == Abstract!Spec

\* snapshot.rs: for ids at or above the finalization threshold the answers of a
\* snapshot stay what they were for as long as it is held, whatever the writer does to
\* the buckets and the ring they share, half-done appends included.
SnapshotStable ==
    held # Absent => Answers(held) = seen \cap (base .. Newest)

\* The ids restore has no bits for: finalized before the process started, in the bucket
\* of the lowest id it found or, as long as that is the tail bucket, the one below.
Unrestored ==
    {id \in 1 .. restored - 1 :
        \/ Bucket(id) = Bucket(restored)
        \/ Bucket(id) + 1 = Bucket(restored) /\ current.tailBucket = Bucket(restored)}

\* finalize and restore: ids that were canonical when they were finalized read canonical
\* for ever after, through appends, reorgs and restarts, except that a restart forgets
\* those that share a bucket with its hot zone or with the lowest live id, although
\* chain.rs:157 says that finalized ids "thereafter read as canonical".
\* RocksDbStore::node asks for them as long as a tree node of that age is live.
FinalizedReadsCanonical == \A id \in final \ Unrestored : IsCanonical(current, id)
=============================================================================
