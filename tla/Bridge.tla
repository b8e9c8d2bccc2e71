------------------------------- MODULE Bridge -------------------------------
(***************************************************************************)
(* l1/bridge: the worker that follows the selected chain of an L1 node and *)
(* drives it into a ChainSink.  The worker is one task; the L1 node moves  *)
(* its chain and its pruning point at any time, in particular while the    *)
(* worker awaits an answer.  What follows an answer (reorg, appends,       *)
(* publishing) has no await and is one step.                               *)
(*                                                                         *)
(* A block stands for its hash and for the sequencing commitment of its    *)
(* header.  The L1 node and the restart of the sink are external.          *)
(***************************************************************************)
EXTENDS Integers, Sequences, FiniteSets, FiniteSetsExt, SequencesExt

CONSTANTS
    None,
    Blocks, L1Genesis, Parent,  \* the L1 block tree (selected parents)
    Score,                      \* blue scores, increasing from parent to child
    LaneBlocks,                 \* blocks accepting transactions of the lane; none
                                \* when no lane is configured
    SettlingBlocks,             \* blocks accepting a settlement of the covenant
    FinalityDepth,              \* finality_depth
    Filtering,                  \* the reorg filter has a non-zero half-life
    Configs,                    \* configurations: [start_from, seed_depth], or None
    RpcRetryMaxAttempts,
    MaxSwitches,                \* bound on the moves of the L1 chain
    MaxFailures,                \* bound on RPC failures while connected; the retries
                                \* of a fetch may fail with its first attempt
    MaxRestarts,                \* bound on the restarts of the node
    AnchorHolds,                \* L1 never reorgs to the anchor of a restarted node
    PruningIsDeep               \* no block the sink has orphaned becomes pruning point

ASSUME BridgeAssumption ==
    /\ L1Genesis \in Blocks /\ None \notin Blocks
    /\ Parent \in [Blocks \ {L1Genesis} -> Blocks] /\ Score \in [Blocks -> Nat]
    /\ \A blk \in Blocks \ {L1Genesis} : Score[Parent[blk]] < Score[blk]
    /\ LaneBlocks \subseteq Blocks /\ SettlingBlocks \subseteq Blocks
    /\ Configs \subseteq [start_from : Blocks \cup {None}, seed_depth : Nat \cup {None}]
    /\ {FinalityDepth, MaxSwitches, MaxFailures, MaxRestarts} \subseteq Nat
    /\ RpcRetryMaxAttempts \in Nat \ {0}
    /\ {Filtering, AnchorHolds, PruningIsDeep} \subseteq BOOLEAN

VARIABLES
    l1,         \* [tip, pruning]: selected tip and pruning point of the L1 node
    switches,   \* moves of the L1 chain so far
    online,     \* the RPC connection stands
    failures,   \* RPC failures so far
    notes,      \* kinds of notifications waiting in notification_channel
    pc,         \* where the worker awaits
    config,     \* [start_from, seed_depth]
    shutdown,   \* the shutdown latch
    genesis,    \* BridgeWorker::genesis
    threshold,  \* ReorgFilter::threshold
    request,    \* [from, threshold, attempt] of the fetch under way
    settlement, \* the value in the settlement watch
    sink,       \* [log, tip, base]: the CanonicalChainManager behind the sink
    anchor,     \* history: the block the sink's chain was seeded on
    final,      \* history: highest id the sink was told to finalize below
    restarts    \* restarts so far

l1Vars == <<l1, switches, online, failures>>
workerVars == <<pc, genesis, threshold, request, settlement, shutdown>>
vars == <<l1Vars, notes, workerVars, config, sink, anchor, final, restarts>>

-----------------------------------------------------------------------------
(* The L1 node.                                                            *)

\* The selected chain that ends in a block, and the blocks on it.
SelectedChain ==
    LET upTo[blk \in Blocks] ==
            IF blk = L1Genesis THEN <<blk>> ELSE Append(upTo[Parent[blk]], blk)
    IN  [blk \in Blocks |-> upTo[blk]]
Past == [blk \in Blocks |-> ToSet(SelectedChain[blk])]

\* The node still has what lies above its pruning point.
Has(blk) == blk \in Blocks /\ l1.pruning \in Past[blk]

\* The answer of get_virtual_chain_from_block_v2: the blocks that left the
\* chain, tip first, and the new ones with enough confirmations, oldest first.
Removed(from) ==
    Reverse(SelectSeq(SelectedChain[from], LAMBDA blk : blk \notin Past[l1.tip]))
Added(from, confirmations) ==
    SelectSeq(SelectedChain[l1.tip],
              LAMBDA blk : blk \notin Past[from] /\ Score[blk] + confirmations <= Score[l1.tip])

-----------------------------------------------------------------------------
(* The sink.                                                               *)

\* CanonicalChainManager::id, as the set of at most one id.
Ids(s, blk) == {id \in s.base .. Len(s.log) : s.log[id].hash = blk}

\* Ids of the chain ending in id, down to the finalized floor.
Ancestry(s, id) ==
    LET up[i \in 0 .. Len(s.log)] ==
            IF i < s.base THEN {} ELSE {i} \cup up[s.log[i].parent_id]
    IN  up[id]

-----------------------------------------------------------------------------
(* Metadata.                                                               *)

\* ChainBlockMetadata::from(header): the threaded fields are defaults.
Header(blk) ==
    [hash |-> blk, parent_id |-> 0, prev_seq_commit |-> None,
     prev_lane_tip |-> <<>>, lane_tip |-> <<>>, lane_blue_score |-> 0,
     lane_expired |-> FALSE, last_settlement |-> None]

\* ChainBlockMetadata::default: the anchor of a worker that has not seeded.
Unseeded == Header(None)

TipMetadata(s, g) == IF s.tip = 0 THEN g ELSE s.log[s.tip]

\* Mutant: an expired lane goes on with its old tip.
LaneStateNoReset(parent, blk) ==
    LET active == blk \in LaneBlocks
    IN  [tip |-> IF active THEN parent.lane_tip \o <<blk>> ELSE parent.lane_tip,
         score |-> IF active THEN Score[blk] ELSE parent.lane_blue_score,
         expired |-> Score[blk] - parent.lane_blue_score > FinalityDepth]

\* lane_state.  A lane tip is a hash chain, written as the sequence of what is
\* hashed: the commitment it restarted on, then each block with lane activity.
\* A block without activity carries its parent's lane on, even an expired one.
LaneState(parent, blk) ==
    LET expired == Score[blk] - parent.lane_blue_score > FinalityDepth
        parentRef == IF expired THEN <<parent.hash>> ELSE parent.lane_tip
        active == blk \in LaneBlocks
    IN  [tip |-> IF active THEN parentRef \o <<blk>> ELSE parent.lane_tip,
         score |-> IF active THEN Score[blk] ELSE parent.lane_blue_score,
         expired |-> expired]

\* The metadata fetch_chain_updates gives a block on top of parent.
Threaded(parent, parentId, blk) ==
    LET lane == LaneState(parent, blk)
    IN  [hash |-> blk, parent_id |-> parentId, prev_seq_commit |-> parent.hash,
         prev_lane_tip |-> parent.lane_tip, lane_tip |-> lane.tip,
         lane_blue_score |-> lane.score, lane_expired |-> lane.expired,
         last_settlement |-> IF blk \in SettlingBlocks THEN blk ELSE parent.last_settlement]

\* Appends a block to the sink: a returning one keeps its id and its metadata.
AppendBlock(s, g, blk) ==
    LET known == Ids(s, blk)
    IN  IF known = {}
        THEN [s EXCEPT !.log = Append(@, Threaded(TipMetadata(s, g), s.tip, blk)),
                       !.tip = Len(s.log) + 1]
        ELSE [s EXCEPT !.tip = Max(known \cup {@})]

\* Mutant: every block is threaded from the tip the fetch started at.
AppendBlocksFromOldTip(s, g, blocks) ==
    LET old == TipMetadata(s, g)
    IN  FoldLeft(LAMBDA acc, blk :
                    IF Ids(acc, blk) = {}
                    THEN [acc EXCEPT !.log = Append(@, Threaded(old, acc.tip, blk)),
                                     !.tip = Len(acc.log) + 1]
                    ELSE AppendBlock(acc, g, blk),
                 s, blocks)

\* The loop of fetch_chain_updates over the blocks of the answer.  The sink
\* after n blocks is kept as a singleton, which TLC evaluates once.
AppendBlocks(s, g, blocks) ==
    LET after[n \in 0 .. Len(blocks)] ==
            IF n = 0 THEN {s} ELSE {AppendBlock(acc, g, blocks[n]) : acc \in after[n - 1]}
    IN  CHOOSE end \in after[Len(blocks)] : TRUE

-----------------------------------------------------------------------------
(* The worker.                                                             *)

Init ==
    /\ l1 \in [tip : Blocks, pruning : {L1Genesis}] /\ switches = 0
    /\ online = TRUE /\ failures = 0 /\ notes = {}
    /\ config \in Configs
    /\ pc = "starting" /\ shutdown = FALSE /\ genesis = Unseeded /\ threshold = 0
    /\ request = None /\ settlement = None
    /\ sink = [log |-> <<>>, tip |-> 0, base |-> 1]
    /\ anchor = None /\ final = 0 /\ restarts = 0

\* The worker is gone.  When it leaves its loop it shuts the sink down; when it
\* never entered it (ConnectFails) it does not, and only a restart helps.
Stop ==
    /\ pc' = "down" /\ request' = None
    /\ UNCHANGED <<genesis, threshold, shutdown>>

\* The entry of fetch_chain_updates, up to its first await.
BeginFetch(s, g) ==
    /\ pc' = "rpc"
    /\ request' = [from |-> TipMetadata(s, g).hash, threshold |-> threshold, attempt |-> 1]

\* handle_connected on a sink with a chain: subscribe, publish, fetch.
HandleConnected ==
    /\ pc = "starting" /\ online /\ ~shutdown
    /\ IF sink.tip > 0
       THEN settlement' = TipMetadata(sink, genesis).last_settlement /\ BeginFetch(sink, genesis)
       ELSE pc' = "seed" /\ UNCHANGED <<settlement, request>>
    /\ UNCHANGED <<l1Vars, notes, config, genesis, threshold, shutdown, sink, anchor, final, restarts>>

\* The block depth selected parents below blk.
Below(blk, depth) ==
    LET chain == SelectedChain[blk] IN chain[Max({1, Len(chain) - depth})]

\* The block the configuration seeds from.
SeedBlock ==
    CASE config.start_from # None -> config.start_from
      [] config.start_from = None /\ config.seed_depth # None -> Below(l1.tip, config.seed_depth)
      [] OTHER -> l1.pruning

\* seed_from_block, seed_from_recent or seed_from_pruning_point, then publish
\* and fetch.
Seed ==
    /\ pc = "seed" /\ online /\ Has(SeedBlock)
    /\ genesis' = Header(SeedBlock) /\ anchor' = SeedBlock
    /\ settlement' = TipMetadata(sink, genesis').last_settlement
    /\ BeginFetch(sink, genesis')
    /\ UNCHANGED <<l1Vars, notes, config, threshold, shutdown, sink, final, restarts>>

\* An RPC fails because the connection is gone, or else transiently.
RpcFails ==
    IF online THEN failures < MaxFailures /\ failures' = failures + 1 ELSE UNCHANGED failures

\* Creating the client, connecting, subscribing or seeding fails: always fatal.
ConnectFails ==
    /\ \/ pc \in {"starting", "seed"} /\ (pc = "starting" => ~shutdown) /\ RpcFails
       \/ pc = "seed" /\ online /\ ~Has(SeedBlock) /\ UNCHANGED failures
    /\ Stop
    /\ UNCHANGED <<l1, switches, online, notes, config, settlement, sink, anchor, final, restarts>>

\* Mutant: one block too deep.
ForkPointBelow(s, removed) ==
    LET fork == s.log[Max(Ids(s, Last(removed)))].parent_id
    IN  IF fork < s.base THEN fork ELSE s.log[fork].parent_id

\* The id handle_reorg rolls back to.
ForkPoint(s, removed) == s.log[Max(Ids(s, Last(removed)))].parent_id

\* Blue score of an id as handle_reorg sees it.
ScoreOf(s, id) == IF id < s.base \/ id > Len(s.log) THEN 0 ELSE Score[s.log[id].hash]

\* ReorgFilter::record.
Record(depth) == IF Filtering THEN threshold + Max({0, depth}) ELSE threshold

\* The answer asks to roll back past what the sink knows: ReorgBelowFinality.
ReorgBelowFinality ==
    /\ pc = "rpc" /\ online /\ Has(request.from)
    /\ LET removed == Removed(request.from)
       IN  removed # <<>> /\ Ids(sink, Last(removed)) = {}
    /\ Stop
    /\ UNCHANGED <<l1Vars, notes, config, settlement, sink, anchor, final, restarts>>

\* handle_reorg, if the answer removes blocks, and the appends of the first n
\* blocks it adds.
Apply(n) ==
    LET removed == Removed(request.from)
        reorg == removed # <<>>
        forkTip == IF reorg THEN ForkPoint(sink, removed) ELSE sink.tip
    IN  /\ reorg => Ids(sink, Last(removed)) # {}
        /\ \E s \in {AppendBlocks([sink EXCEPT !.tip = forkTip], genesis,
                                   SubSeq(Added(request.from, request.threshold), 1, n))} :
             sink' = s
        /\ threshold' = IF reorg
                        THEN Record(ScoreOf(sink, sink.tip) - ScoreOf(sink, forkTip))
                        ELSE threshold

\* Mutant: the watch is only written when the answer adds blocks.
FetchAnsweredQuietly ==
    /\ pc = "rpc" /\ online /\ Has(request.from)
    /\ LET added == Added(request.from, request.threshold)
       IN  /\ Apply(Len(added))
           /\ settlement' = IF added = <<>> THEN settlement
                            ELSE TipMetadata(sink', genesis).last_settlement
    /\ pc' = "idle" /\ request' = None
    /\ UNCHANGED <<l1Vars, notes, config, genesis, shutdown, anchor, final, restarts>>

\* The rest of fetch_chain_updates: the answer is applied, the tip published.
FetchAnswered ==
    /\ pc = "rpc" /\ online /\ Has(request.from)
    /\ Apply(Len(Added(request.from, request.threshold)))
    /\ settlement' = TipMetadata(sink', genesis).last_settlement
    /\ pc' = "idle" /\ request' = None
    /\ UNCHANGED <<l1Vars, notes, config, genesis, shutdown, anchor, final, restarts>>

\* A malformed block ends the worker after the blocks before it.
FetchMalformed ==
    /\ pc = "rpc" /\ online /\ Has(request.from)
    /\ failures < MaxFailures /\ failures' = failures + 1
    /\ \E n \in 0 .. Len(Added(request.from, request.threshold)) - 1 : Apply(n)
    /\ pc' = "down" /\ request' = None
    /\ UNCHANGED <<l1, switches, online, notes, config, genesis, shutdown, settlement,
                   anchor, final, restarts>>

\* get_vcc_with_retry meets a terminal error: CheckpointLost.
CheckpointLost ==
    /\ pc = "rpc" /\ online /\ ~Has(request.from)
    /\ Stop
    /\ UNCHANGED <<l1Vars, notes, config, settlement, sink, anchor, final, restarts>>

\* A transient failure: another attempt, or give up until the next
\* notification; a shutdown during the backoff is fatal.
FetchFails ==
    /\ pc = "rpc"
    /\ IF request.attempt = 1 THEN RpcFails ELSE UNCHANGED failures
    /\ \/ /\ request.attempt = RpcRetryMaxAttempts
          /\ pc' = "idle" /\ request' = None
          /\ UNCHANGED <<genesis, threshold, shutdown>>
       \/ /\ request.attempt < RpcRetryMaxAttempts /\ ~shutdown
          /\ request' = [request EXCEPT !.attempt = @ + 1]
          /\ UNCHANGED <<pc, genesis, threshold, shutdown>>
       \/ request.attempt < RpcRetryMaxAttempts /\ shutdown /\ Stop
    /\ UNCHANGED <<l1, switches, online, notes, config, settlement, sink, anchor, final, restarts>>
\* The select loop prefers the shutdown latch and the connection state to
\* notifications.
Listening == pc = "idle" /\ ~shutdown /\ online

\* A VirtualChainChanged notification: fetch from the tip.
HandleChainChanged ==
    /\ Listening /\ "chain" \in notes
    /\ notes' = notes \ {"chain"}
    /\ BeginFetch(sink, genesis)
    /\ UNCHANGED <<l1Vars, config, genesis, threshold, shutdown, settlement, sink, anchor,
                   final, restarts>>

\* A pruning point notification: handle_finalization asks for the point.
HandlePruningPoint ==
    /\ Listening /\ "pruning" \in notes
    /\ notes' = notes \ {"pruning"} /\ pc' = "dag"
    /\ UNCHANGED <<l1Vars, config, genesis, threshold, request, shutdown, settlement, sink,
                   anchor, final, restarts>>

\* Mutant: the pruning point itself is finalized away.
FinalizationThrough ==
    /\ pc = "dag" /\ online /\ pc' = "idle"
    /\ \/ /\ Ids(sink, l1.pruning) = {}
          /\ UNCHANGED <<sink, final>>
       \/ \E below \in Ids(sink, l1.pruning) :
            /\ final' = Max({final, below})
            /\ \E root \in sink.base .. below + 1 : sink' = [sink EXCEPT !.base = root]
    /\ UNCHANGED <<l1Vars, notes, config, genesis, threshold, request, shutdown, settlement,
                   anchor, restarts>>

\* The answer: finalize below the pruning point if the sink knows it.  The
\* sink drops its log up to the root its pruning worker has reached.
FinalizationAnswered ==
    /\ pc = "dag" /\ online /\ pc' = "idle"
    /\ \/ /\ Ids(sink, l1.pruning) = {}
          /\ UNCHANGED <<sink, final>>
       \/ \E below \in Ids(sink, l1.pruning) :
            /\ final' = Max({final, below})
            /\ \E root \in sink.base .. below : sink' = [sink EXCEPT !.base = root]
    /\ UNCHANGED <<l1Vars, notes, config, genesis, threshold, request, shutdown, settlement,
                   anchor, restarts>>

\* get_block_dag_info fails: the next notification tries again.
FinalizationFails ==
    /\ pc = "dag" /\ RpcFails /\ pc' = "idle"
    /\ UNCHANGED <<l1, switches, online, notes, config, genesis, threshold, request, shutdown,
                   settlement, sink, anchor, final, restarts>>

\* The latch, or handle_disconnected, which follows Connected in its channel.
Leave ==
    /\ \/ pc \in {"starting", "idle"} /\ shutdown
       \/ pc = "idle" /\ ~online
    /\ Stop
    /\ UNCHANGED <<l1Vars, notes, config, settlement, sink, anchor, final, restarts>>

\* Mutant: the halving rounds up.
DecayRoundsUp ==
    /\ threshold > 0 /\ threshold' = (threshold + 1) \div 2
    /\ UNCHANGED <<l1Vars, notes, pc, genesis, request, settlement, shutdown, config, sink,
                   anchor, final, restarts>>

\* A half-life passes.
Decay ==
    /\ threshold > 0 /\ threshold' = threshold \div 2
    /\ UNCHANGED <<l1Vars, notes, pc, genesis, request, settlement, shutdown, config, sink,
                   anchor, final, restarts>>

-----------------------------------------------------------------------------
(* The environment.                                                        *)

Subscribed == pc \notin {"starting", "down"}
Notify(kind) == notes' = IF Subscribed THEN notes \cup {kind} ELSE notes

WorkerIdle == UNCHANGED <<workerVars, config, sink, anchor, final, restarts>>

\* The chain ending in blk holds the first block of the sink's chain.
OnFirst(s, blk) ==
    s.tip > 0 =>
        LET first == s.log[Min(Ancestry(s, s.tip))]
        IN  first.parent_id = 0 => first.hash \in Past[blk]

\* The selected chain moves to another tip.
L1Switch ==
    /\ switches < MaxSwitches
    /\ \E blk \in Blocks \ {l1.tip} :
         /\ Has(blk) /\ l1' = [l1 EXCEPT !.tip = blk]
         /\ AnchorHolds /\ genesis = Unseeded => OnFirst(sink, blk)
    /\ switches' = switches + 1 /\ Notify("chain")
    /\ UNCHANGED <<online, failures>> /\ WorkerIdle

\* The chain grows by blocks that concern nobody: only the notification.
L1Grows ==
    /\ Subscribed /\ "chain" \notin notes /\ Notify("chain")
    /\ UNCHANGED l1Vars /\ WorkerIdle

\* The pruning point advances along the selected chain.
L1Prunes ==
    /\ \E blk \in Past[l1.tip] \ Past[l1.pruning] :
         /\ PruningIsDeep => Ids(sink, blk) \subseteq Ancestry(sink, sink.tip)
         /\ l1' = [l1 EXCEPT !.pruning = blk]
    /\ Notify("pruning")
    /\ UNCHANGED <<switches, online, failures>> /\ WorkerIdle

\* A life of the worker ends by a lost connection, a shutdown or an error; a
\* shutdown of a worker that has lost its connection is left out.
ConnectionLost ==
    /\ online /\ ~shutdown /\ pc # "down" /\ restarts < MaxRestarts /\ online' = FALSE
    /\ UNCHANGED <<l1, switches, failures, notes>> /\ WorkerIdle

RequestShutdown ==
    /\ online /\ ~shutdown /\ pc # "down" /\ restarts < MaxRestarts /\ shutdown' = TRUE
    /\ UNCHANGED <<l1Vars, notes, pc, genesis, threshold, request, settlement, config, sink,
                   anchor, final, restarts>>

\* The node starts again: a new worker over a sink that restored some prefix
\* of the ids handed out, its tip the highest of them, its floor the root the
\* pruning worker had reached.
Restart ==
    /\ pc = "down" /\ restarts < MaxRestarts /\ restarts' = restarts + 1
    /\ \E root \in sink.base .. Max({sink.base, final}) :
       \E n \in (IF root = 1 THEN 0 ELSE root) .. Len(sink.log) :
         /\ sink' = [log |-> SubSeq(sink.log, 1, n), tip |-> n, base |-> root]
         /\ final' = Min({final, n})
         /\ AnchorHolds => OnFirst(sink', l1.tip)
    /\ pc' = "starting" /\ online' = TRUE /\ shutdown' = FALSE /\ notes' = {}
    /\ genesis' = Unseeded /\ threshold' = 0 /\ request' = None /\ settlement' = None
    /\ UNCHANGED <<l1, switches, failures, config, anchor>>

Worker ==
    \/ HandleConnected \/ Seed \/ ConnectFails \/ FetchFails \/ CheckpointLost
    \/ ReorgBelowFinality \/ FetchAnswered \/ FetchMalformed \/ HandleChainChanged
    \/ HandlePruningPoint \/ FinalizationAnswered \/ FinalizationFails \/ Leave

Next ==
    \/ Worker \/ Decay \/ L1Switch \/ L1Grows \/ L1Prunes \/ ConnectionLost
    \/ RequestShutdown \/ Restart

\* The worker's task runs, time passes, L1 keeps producing blocks.
Spec ==
    /\ Init /\ [][Next]_vars
    /\ WF_vars(Worker) /\ WF_vars(Decay) /\ WF_vars(L1Grows) /\ WF_vars(Restart)

-----------------------------------------------------------------------------
(* Properties.                                                             *)

Metadata ==
    [hash : Blocks, parent_id : Nat, prev_seq_commit : Blocks \cup {None},
     prev_lane_tip : Seq(Blocks \cup {None}), lane_tip : Seq(Blocks \cup {None}),
     lane_blue_score : Nat, lane_expired : BOOLEAN, last_settlement : Blocks \cup {None}]

\* The worker's state is well formed: the metadata of the sink's tip is live, as
\* tip_metadata expects, a parent has a smaller id, and a request is under way
\* exactly in a fetch.
TypeOK ==
    /\ l1.tip \in Blocks /\ l1.pruning \in Past[l1.tip]
    /\ notes \subseteq {"chain", "pruning"}
    /\ pc \in {"starting", "seed", "rpc", "idle", "dag", "down"}
    /\ threshold \in Nat /\ (request # None) = (pc = "rpc")
    /\ \A id \in DOMAIN sink.log :
         sink.log[id] \in Metadata /\ sink.log[id].parent_id < id
    /\ sink.tip \in {0} \cup sink.base .. Len(sink.log) /\ sink.base \in 1 .. Len(sink.log) + 1
    /\ final \in 0 .. Len(sink.log)

\* Ids of the sink's chain whose metadata is live.
Chain == Ancestry(sink, sink.tip)

\* fetch_chain_updates threads each block from the one below it: along the
\* sink's chain a block's parent id names its L1 selected parent (the anchor
\* for the first block) and prev_seq_commit is that parent's commitment, after
\* any reorgs, partial answers, lost connections and restarts.
ChainThreaded ==
    \A id \in Chain :
        LET m == sink.log[id]
        IN  /\ m.prev_seq_commit = Parent[m.hash]
            /\ IF m.parent_id = 0 THEN Parent[m.hash] = anchor
               ELSE sink.log[m.parent_id].hash = Parent[m.hash]

\* The blocks of a set between the anchor and blk, oldest first.
Since(blk, blocks) ==
    SelectSeq(SelectedChain[blk], LAMBDA x : x \notin Past[anchor] /\ x \in blocks)

\* The lane tip the chain up to blk should carry: its active blocks from the
\* last one that follows a gap longer than FinalityDepth, restarted on the
\* commitment before that one.
LaneTipOf(blk) ==
    LET active == Since(blk, LaneBlocks)
        before(n) == IF n = 1 THEN 0 ELSE Score[active[n - 1]]
        resets == {n \in DOMAIN active : Score[active[n]] - before(n) > FinalityDepth}
    IN  IF resets = {} THEN active
        ELSE <<Parent[active[Max(resets)]]>> \o SubSeq(active, Max(resets), Len(active))

\* The last block up to blk that settles the covenant.
SettlementOf(blk) ==
    LET found == Since(blk, SettlingBlocks) IN IF found = <<>> THEN None ELSE Last(found)

\* lane_state and the carried settlement accumulate along the chain block by
\* block and across reorgs; they equal what the chain itself determines.
MetadataIsOfChain ==
    \A id \in Chain :
        LET m == sink.log[id]
        IN  /\ m.lane_tip = LaneTipOf(m.hash)
            /\ m.prev_lane_tip = IF Parent[m.hash] = anchor THEN <<>> ELSE LaneTipOf(Parent[m.hash])
            /\ m.last_settlement = SettlementOf(m.hash)

\* publish_settlement: whenever the worker listens, settlers read the last
\* settlement on the sink's chain, and None after a reorg past it.
SettlementPublished ==
    pc = "idle" => settlement = IF sink.tip = 0 THEN None ELSE SettlementOf(sink.log[sink.tip].hash)

\* handle_reorg never takes an id off the chain that handle_finalization told
\* the sink to finalize below.
FinalStaysOnChain ==
    [][pc = "rpc" /\ final # 0 /\ final \in Chain => (final \in Chain)']_vars

\* Once L1 has settled on a tip the sink's chain ends there for good, unless
\* the worker has stopped: transient failures, the retries and the decaying
\* filter never leave it behind.
FollowsTip ==
    <>[](pc = "down" \/ TipMetadata(sink, genesis).hash = l1.tip)
=============================================================================
