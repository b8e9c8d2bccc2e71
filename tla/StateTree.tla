------------------------------ MODULE StateTree ------------------------------
(***************************************************************************)
(* core/smt: the versioned sparse Merkle tree over the committed state,    *)
(* with the store's side of it (storage/rocksdb-store/src/store.rs): every *)
(* batch writes the nodes it changes under its own id, marks the ones it   *)
(* supersedes stale, and reads skip the versions of orphaned batches.      *)
(*                                                                         *)
(* A resource id is its bits, a position its path; a subtree that holds a  *)
(* single resource is a leaf at its top.  Hashes are collision-free, so a  *)
(* node stands for its hash.  Values are the ids of the batches that wrote *)
(* them.                                                                   *)
(***************************************************************************)
EXTENDS Integers, Sequences, FiniteSets, FiniteSetsExt, Functions, TLC

CONSTANTS
    None,
    Keys,              \* resource ids, sequences of Depth bits
    Depth,             \* levels below the root
    MaxVersion,        \* bound on the batch ids
    Diffs,             \* what a batch may do: resource -> "set" or "delete"
    MaxRollbacks,      \* bound on the rollbacks
    BucketCapacity,    \* ids per bucket of the canonical chain
    DeletesKeepShape,  \* no deletion makes an inner node collapse
    DeletionsRefilled, \* a pass that prunes a deletion covers a later write of the resource
    OrphansRedone      \* what an orphan wrote is written again on the canonical chain before
                       \* the orphan is pruned or finalized

ASSUME TreeAssumption ==
    /\ Keys \subseteq [1 .. Depth -> {0, 1}]
    /\ \A d \in Diffs : DOMAIN d \subseteq Keys /\ Range(d) \subseteq {"set", "delete"}
    /\ MaxVersion \in Nat /\ MaxRollbacks \in Nat /\ BucketCapacity \in Nat \ {0}
    /\ {DeletesKeepShape, DeletionsRefilled, OrphansRedone} \subseteq BOOLEAN

VARIABLES
    nodes,      \* StateSpace::SmtNode: <<position, version>> -> node
    stale,      \* StateSpace::SmtStale: <<since, position>> -> version
    parents,    \* parents[id]: the parent of batch id
    tip,        \* the last canonical batch
    root,       \* SchedulerState::root, the oldest surviving batch
    cursor,     \* the last batch a pruning pass has covered
    floor,      \* batches below read canonical (CanonicalChain::finalize)
    writes,     \* history: writes[id], resource -> value or None if deleted
    rollbacks   \* number of rollbacks

vars == <<nodes, stale, parents, tip, root, cursor, floor, writes, rollbacks>>

-----------------------------------------------------------------------------
(* Nodes.                                                                  *)

Empty == [kind |-> "empty"]

Leaf(key, value) == [kind |-> "leaf", key |-> key, value |-> value]

Internal(left, right) == [kind |-> "internal", left |-> left, right |-> right]

\* HashedNode::from, with the hash of an empty subtree for no node.
Hashed(node) == IF node = None THEN Empty ELSE node

Newest == Len(parents)

\* The batches from t to genesis.
Ancestry(t) ==
    LET up[id \in 0 .. Newest] == IF id = 0 THEN {} ELSE {id} \cup up[parents[id]]
    IN  up[t]

\* CanonicalChainSnapshot::is_canonical.
IsCanonical(id) == id < floor \/ id \in Ancestry(tip)

\* Mutant: reads do not skip orphaned versions.
NodeOfAny(position, maxVersion) ==
    LET versions == {v \in 1 .. maxVersion : <<position, v>> \in DOMAIN nodes}
    IN  IF versions = {} THEN None
        ELSE [version |-> Max(versions), node |-> nodes[<<position, Max(versions)>>]]

\* RocksDbStore::node: the latest canonical version up to maxVersion.  (An empty chain
\* is read unfiltered; the chain of an update or of a reader here is never empty.)
Node(position, maxVersion) ==
    LET versions == {v \in 1 .. maxVersion :
                       <<position, v>> \in DOMAIN nodes /\ IsCanonical(v)}
    IN  IF versions = {} THEN None
        ELSE [version |-> Max(versions), node |-> nodes[<<position, Max(versions)>>]]

-----------------------------------------------------------------------------
(* Updater::apply at a version.                                            *)

\* What a subtree returns, with the nodes and stale marks it writes on the way;
\* collapsed: an inner node gives way to a leaf or to nothing.
Result(node) ==
    [node |-> node, puts |-> <<>>, marks |-> <<>>, collapsed |-> FALSE]

\* Mutant: the marker is filed under the superseded version.
MarksByOld(position, version) ==
    LET old == Node(position, version - 1)
    IN  IF old = None THEN <<>> ELSE <<old.version, position>> :> version

\* mark_stale.
Marks(position, version) ==
    LET old == Node(position, version - 1)
    IN  IF old = None THEN <<>> ELSE <<version, position>> :> old.version

\* write_child: a node, or a tombstone where there was one, with a mark of its own.
WriteChild(child, position, version) ==
    LET old == Node(position, version - 1)
        gone == child = None /\ old # None /\ old.node # Empty
    IN  [puts |-> IF child # None THEN <<position, version>> :> child
                  ELSE IF gone THEN <<position, version>> :> Empty ELSE <<>>,
         marks |-> IF gone THEN <<version, position>> :> version ELSE <<>>]

\* The commitments below a child.
Below(commitments, bit, level) ==
    [k \in {c \in DOMAIN commitments : c[level + 1] = bit} |-> commitments[k]]

RECURSIVE UpdateSubtree(_, _, _)

\* split_and_recurse: bubble a lone leaf up, or write both children; the mark of a
\* tombstone has the key of the mark of the node it buries, and replaces it.
SplitAndRecurse(position, commitments, version) ==
    LET left == Append(position, 0)
        right == Append(position, 1)
        l == UpdateSubtree(left, Below(commitments, 0, Len(position)), version)
        r == UpdateSubtree(right, Below(commitments, 1, Len(position)), version)
        below == [node |-> None, puts |-> l.puts @@ r.puts,
                  marks |-> l.marks @@ r.marks, collapsed |-> TRUE]
        lw == WriteChild(l.node, left, version)
        rw == WriteChild(r.node, right, version)
    IN  CASE l.node = None /\ r.node = None -> below
          [] l.node # None /\ l.node.kind = "leaf" /\ r.node = None ->
                [below EXCEPT !.node = l.node]
          [] r.node # None /\ r.node.kind = "leaf" /\ l.node = None ->
                [below EXCEPT !.node = r.node]
          [] OTHER ->
                [node |-> Internal(Hashed(l.node), Hashed(r.node)),
                 puts |-> below.puts @@ lw.puts @@ rw.puts,
                 marks |-> lw.marks @@ rw.marks @@ below.marks,
                 collapsed |-> l.collapsed \/ r.collapsed]

\* resolve_leaves.
ResolveLeaves(position, commitments, version) ==
    LET live == {k \in DOMAIN commitments : commitments[k] # None}
    IN  IF live = {} THEN Result(None)
        ELSE IF Cardinality(live) = 1
        THEN LET k == CHOOSE c \in live : TRUE IN Result(Leaf(k, commitments[k]))
        ELSE SplitAndRecurse(position, commitments, version)

\* update_at_leaf: the commitments, with the leaf that is there unless they replace it.
AtLeaf(leaf, commitments) == commitments @@ (leaf.key :> leaf.value)

\* update_subtree.
UpdateSubtree(position, commitments, version) ==
    LET old == Node(position, version - 1)
        marked(result) == [result EXCEPT !.marks = @ @@ Marks(position, version)]
    IN  IF DOMAIN commitments = {}
        THEN Result(IF old = None \/ old.node = Empty THEN None ELSE old.node)
        ELSE IF old = None THEN ResolveLeaves(position, commitments, version)
        ELSE CASE old.node.kind = "empty" ->
                    marked(ResolveLeaves(position, commitments, version))
               [] old.node.kind = "leaf" ->
                    marked(ResolveLeaves(position, AtLeaf(old.node, commitments), version))
               [] old.node.kind = "internal" ->
                    marked(SplitAndRecurse(position, commitments, version))

\* apply: the root, or a tombstone for a drained tree.
Update(commitments, version) ==
    LET result == UpdateSubtree(<<>>, commitments, version)
    IN  [result EXCEPT !.puts = @ @@ (<<<<>>, version>> :> Hashed(result.node))]

-----------------------------------------------------------------------------
(* Batches.                                                                *)

Init ==
    /\ nodes = <<>>
    /\ stale = <<>>
    /\ parents = <<>>
    /\ tip = 0
    /\ root = 0
    /\ cursor = 0
    /\ floor = 0
    /\ writes = <<>>
    /\ rollbacks = 0

\* Tree::update for a batch: nothing if it changed nothing.
Apply(commitments, id) ==
    LET result == Update(commitments, id)
    IN  IF DOMAIN commitments = {} THEN UNCHANGED <<nodes, stale>>
        ELSE /\ DeletesKeepShape => ~result.collapsed
             /\ nodes' = result.puts @@ nodes
             /\ stale' = result.marks @@ stale

\* ScheduledBatch::commit of a new child of the tip.
Commit(diff) ==
    LET id == Newest + 1
        commitments == [k \in DOMAIN diff |-> IF diff[k] = "set" THEN id ELSE None]
    IN  /\ Newest < MaxVersion
        /\ Apply(commitments, id)
        /\ parents' = Append(parents, tip)
        /\ writes' = Append(writes, commitments)
        /\ tip' = id
        /\ root' = IF root = 0 THEN id ELSE root
        /\ UNCHANGED <<cursor, floor, rollbacks>>

\* ... of a child of the tip that returns: executed again, or restored as it is.
Return(id, restored) ==
    /\ tip < id /\ parents[id] = tip
    /\ IF restored THEN UNCHANGED <<nodes, stale>> ELSE Apply(writes[id], id)
    /\ tip' = id
    /\ root' = IF root = 0 THEN id ELSE root
    /\ UNCHANGED <<parents, cursor, floor, writes, rollbacks>>

\* Scheduler::rollback_to, as far as pause admits it: the tree itself is left alone.
Rollback(t) ==
    /\ rollbacks < MaxRollbacks
    /\ t < tip /\ t \in Ancestry(tip) \cup {0} /\ cursor <= t
    /\ tip' = t
    /\ root' = IF t = 0 THEN 0 ELSE root
    /\ rollbacks' = rollbacks + 1
    /\ UNCHANGED <<nodes, stale, parents, cursor, floor, writes>>

\* Tree::prune: the marks left by the batches of a pass, orphaned or not.
Doomed(upper) == {m \in DOMAIN stale : root <= m[1] /\ m[1] <= upper}

\* Canonical batches after id and up to upper write each of these resources.
WrittenAgain(id, keys, upper) ==
    \A k \in keys : \E v \in Ancestry(tip) :
        /\ id < v /\ v <= upper
        /\ k \in DOMAIN writes[v] /\ writes[v][k] # None

\* The orphans among some batches are written again up to upper.
Redone(ids, upper) ==
    \A id \in ids \ Ancestry(tip) : WrittenAgain(id, DOMAIN writes[id], upper)

\* PruningWorker::prune, below a canonical batch.
Prune(upper) ==
    LET doomed == Doomed(upper)
        dead == {<<m[2], stale[m]>> : m \in doomed}
        deleted(id) == {k \in DOMAIN writes[id] : writes[id][k] = None}
    IN  /\ root > 0 /\ root <= upper /\ upper + 1 \in Ancestry(tip)
        /\ DeletionsRefilled =>
              \A id \in root .. upper : WrittenAgain(id, deleted(id), upper)
        /\ OrphansRedone => Redone(root .. upper, upper)
        /\ nodes' = [n \in DOMAIN nodes \ dead |-> nodes[n]]
        /\ stale' = [m \in DOMAIN stale \ doomed |-> stale[m]]
        /\ cursor' = upper
        /\ root' = upper + 1
        /\ UNCHANGED <<parents, tip, floor, writes, rollbacks>>

\* Bucket::locate.
Bucket(id) == (id - 1) \div BucketCapacity

\* ChainSink::finalize: the sealed buckets below the one of the root are dropped, and
\* their ids turn canonical; the newest two buckets are not sealed.
Finalize ==
    LET kept == Min({Bucket(root), Bucket(Newest) - 1})
        below == kept * BucketCapacity + 1
    IN  /\ root > 1 /\ below > floor
        /\ OrphansRedone => Redone(1 .. below - 1, root - 1)
        /\ floor' = below
        /\ UNCHANGED <<nodes, stale, parents, tip, root, cursor, writes, rollbacks>>

Next ==
    \/ \E diff \in Diffs : Commit(diff)
    \/ \E id \in 1 .. Newest, restored \in BOOLEAN : Return(id, restored)
    \/ \E t \in 0 .. Newest : Rollback(t)
    \/ \E upper \in 1 .. Newest : Prune(upper)
    \/ Finalize

Spec == Init /\ [][Next]_vars

-----------------------------------------------------------------------------
(* Properties.                                                             *)

\* Types; marks are left by batches that exist, on nodes no younger than they are.
TypeOK ==
    /\ \A n \in DOMAIN nodes : n[2] \in 1 .. Newest /\ Len(n[1]) <= Depth
    /\ \A m \in DOMAIN stale : m[1] \in 1 .. Newest /\ stale[m] <= m[1]
    /\ parents \in Seq(0 .. MaxVersion)
    /\ {tip, root, cursor, floor} \subseteq 0 .. Newest
    /\ Len(writes) = Newest
    /\ rollbacks \in 0 .. MaxRollbacks

\* The state after batch v: for each resource the last write on v's chain.
Contents(v) ==
    LET writers(k) == {id \in Ancestry(v) : k \in DOMAIN writes[id]}
    IN  [k \in Keys |-> IF writers(k) = {} THEN None ELSE writes[Max(writers(k))][k]]

\* The tree of some contents, built from nothing.
RECURSIVE Reference(_, _)

Reference(position, contents) ==
    LET live == {k \in Keys : contents[k] # None /\ SubSeq(k, 1, Len(position)) = position}
    IN  IF live = {} THEN Empty
        ELSE IF Cardinality(live) = 1
        THEN LET k == CHOOSE c \in live : TRUE IN Leaf(k, contents[k])
        ELSE Internal(Reference(Append(position, 0), contents),
                      Reference(Append(position, 1), contents))

\* The tree a reader finds on disk at version v, None where a node is not what its
\* parent hashed.
RECURSIVE Stored(_, _)

Stored(position, v) ==
    LET found == Node(position, v)
        read == Internal(Stored(Append(position, 0), v), Stored(Append(position, 1), v))
    IN  IF found = None THEN Empty
        ELSE IF found.node.kind # "internal" THEN found.node
        ELSE IF found.node = read THEN read ELSE None

\* Tree::update, Tree::prune: for every surviving canonical batch, the nodes on disk
\* are exactly the tree of the state after it, whatever was updated, rolled back,
\* re-executed, restored, pruned or finalized before or since; orphans and deletions
\* are pruned and orphans turn canonical where OrphansRedone and DeletionsRefilled say.
TreeReadable ==
    \A v \in {id \in Ancestry(tip) : id >= root} : Stored(<<>>, v) = Reference(<<>>, Contents(v))

\* A lookup of k at version v: down the path of k to the first node that is no inner
\* node.
Found(k, v) ==
    LET at(n) == Node(SubSeq(k, 1, n), v)
        stop == Min({n \in 0 .. Depth : at(n) = None \/ at(n).node.kind # "internal"})
    IN  IF at(stop) # None /\ at(stop).node.kind = "leaf" /\ at(stop).node.key = k
        THEN at(stop).node.value ELSE None

\* tests/e2e.rs: "previously-deleted key must not be resurrected".
DeletedStaysGone ==
    \A k \in Keys : tip > 0 /\ Contents(tip)[k] = None => Found(k, tip) = None
=============================================================================
