# A TLA+ development for rblib-world-chain

rblib-world-chain is a builder node for World Chain. While it builds a block it
publishes the block in pieces, *flashblocks*, to its peers; every other node
executes the flashblocks it receives and so holds a pending block before the
block is final. This directory models the parts of the program in which several
tasks share state (the p2p protocol, its connections, the network they form, the
executor that turns flashblocks into pending blocks, the payload jobs that
publish them) and the computations these rest on. Paths below are relative to
`src/src/`.

## 1. Inventory

| component | source | state it keeps | operations |
|---|---|---|---|
| p2p protocol state | `flashblocks/p2p.rs` | under one mutex: current `payload_id`, `flashblock_index` (the frontier), the buffer `flashblocks`; two tokio broadcast channels, `peer_tx` (to connections) and `flashblock_tx` (to consumers) | `publish` (from the builder and from every connection), `flashblock_stream` |
| peer connection | `flashblocks/connection.rs`, `flashblocks/p2p.rs` | a receiver of `peer_tx`, the peer's latest `payload_id`, the indices `received` for it | `into_connection`, `poll_next`, `handle_flashblocks_payload_v1`, reputation changes |
| `Flashblocks` collection | `flashblocks/primitives.rs` | the flashblocks of one payload | `default`, `is_new_payload`, `push`, `base`, `last`, `reduce` |
| state executor | `flashblocks/state.rs` | under one rwlock: the collection, `latest_payload`, `payload_events`; a watch channel with the pending block | `publish_built_payload` (builder), `launch` / `process_flashblock` (task), `register_payload_events` |
| `PublishFlashblock` step | `step/publish_flashblocks.rs` | `block_number`, `block_base`; shared by all payload jobs | `before_job`, `step`, `after_job`, `build_op_built_payload`, `unpublished_payload`, `flatten_reverts` |
| flashblock builder | `flashblocks/builder.rs`, `block_builder.rs`, `block_executor.rs`, `block_assembler.rs`, `ctx.rs` | none between calls | `build` on the committed payload |
| limits | `limits.rs` | the interval | `create` |
| platform | `platform.rs`, `context.rs` | the built payload of a barrier | `build_payload`, `extract_external_txs` |
| wire encoding | `flashblocks/primitives.rs`, `p2p.rs` | none | encode, decode |
| assembly | `node.rs`, `config.rs`, `network.rs`, `payload.rs` | none | construction, order of launch and registration |
| devnet, examples | `devnet/`, `examples/` | none | deployment; `examples/pipeline.rs` fixes the order of steps of a job |
| rblib, reth, tokio, revm | dependencies | | modelled from their use, marked external |

### How they interact

A payload job runs the `PublishFlashblock` step, which calls
`publish_built_payload`; this takes the executor's write lock, pushes into the
collection, and calls `publish` of the p2p state, which takes the p2p mutex,
broadcasts to the connections and emits on `flashblock_tx`. The executor task
reads that same stream, so it meets the flashblocks its own builder has just
published. A connection task reads `peer_tx` and sends to its peer, reads the
peer's messages and calls the same `publish`, which broadcasts them to all other
peers: flashblocks spread by gossip. Jobs are created by rblib, all from one
pipeline, so two jobs that run at the same time share one step.

### What is hard, and what makes each component correct

* **p2p state.** Flashblocks arrive out of order, repeated, from many peers and
  from the local builder. Correct: consumers see each payload's flashblocks in
  order and without gap, the buffer never mixes payloads, nothing deliverable
  is left behind.
* **Connections.** A hand-written `poll_next` that waits for two sources, a
  filter against echoes and a check against repeated messages that both look
  only at the peer's latest payload, receivers that lag. Correct: no wake-up is
  lost, every broadcast reaches every peer, no echo, penalties hit exactly the
  peers that repeat themselves.
* **Gossip.** A flashblock is relayed over every path; nodes join late,
  connections break and come back. Correct: each node gets each flashblock once
  and in the builder's order, and nobody is penalised for relaying.
* **Executor.** Builder and task replace the same `latest_payload` and push into
  the same collection in any order; the task blocks under the write lock until
  a header arrives; builds may fail midway; the subscription of the stream is
  two steps. Correct: collection and latest payload agree, a block contains its
  payload's flashblocks and no others, the pending block never goes back,
  the lock is released, an idle executor has caught up.
* **PublishFlashblock.** A counter and a base shared by jobs; the counter is read
  three times in a step and moves before a publish that may fail. Correct: the
  published flashblocks put together are the block, the block has executed what
  it lists, the step is reset once no job runs.
* **Flashblock builder.** A follower executes a flashblock's transactions in
  parallel, on what the builder's block access list says they read. Correct: it
  arrives at the builder's block.
* **Pure parts** (limits, flattening of reverts, extraction of transactions,
  encoding, header fields). Correct: equal to their documented meaning.

## 2. Modules

| module | models | composed of |
|---|---|---|
| `FlashblockStream` | abstract specification: what a consumer of `flashblock_tx` is promised | |
| `FlashblocksP2P` | p2p state and both channels | refines `FlashblockStream` |
| `FlashblocksConnection` | one node's connection tasks and the builder's `publish_new` | extends `FlashblocksP2P` |
| `Gossip` | several nodes, each with its protocol state and connections | instantiates `FlashblocksP2P` per node, which each node is shown to implement |
| `Flashblocks` | the collection, `reduce` and the conversion to a block, as operators | |
| `FlashblocksStateExecutor` | executor task, builder, stream, watch channel, payload events | extends `FlashblocksP2P`, instantiates `Flashblocks` |
| `PublishFlashblock` | payload jobs that share one step, the collection they publish into, the payload a job ends with | instantiates `Flashblocks` |
| `FlattenReverts` | `flatten_reverts` and what it is for | |
| `FlashblockBuilder` | execution of flashblocks by a follower against the builder's own | |
| `FlashblockLimits` | division of gas and time in a job | |
| `*Proofs` | proofs about the module of that name | extend it; those of the executor and the connections also extend `FlashblocksP2PProofs` |
| `MC*` | instances for TLC | |

### FlashblocksP2P

One action per path through `publish`, each a single step because the mutex is
held from beginning to end:

| action | path in `p2p.rs` |
|---|---|
| `RejectIndex` | the index is above `MAX_FLASHBLOCK_INDEX`; note that the reset of step 1 has already happened |
| `AlreadyCached` | the slot is filled; nothing changes |
| `CacheOversize` | the encoded message exceeds `MAX_FRAME`: the flashblock is cached, then `publish` returns without broadcasting or emitting |
| `CacheAndBroadcast` | the rest: cache, broadcast, and `EmitConsecutive`, the `while let` of step 5 |

A tokio broadcast channel is the sequence of everything ever sent on it; a
receiver is a cursor, owned by the module that owns the receiver. It has lagged
when more than `CAPACITY` elements lie ahead of its cursor (the code passes 100,
which tokio rounds up to a power of two; only "some bound" matters here). The
`Vec` buffer is a total function on `0 .. MAX_FLASHBLOCK_INDEX`: an index past
the end reads as `None`, and every write is preceded by a resize.
`payload_timestamp` and `flashblock_timestamp` are written and never read by a
decision, so they are left out.

### FlashblocksConnection

`pc[c]` is where the task of connection `c` is: before its read of `peer_rx`,
before its read of `conn`, `idle` (it returned `Pending`), or `closed`. Tasks
interleave between any two reads. `Ready` makes the caller poll again, hence
`pc = "peer_rx"`. Wakers are explicit: `rx_waker` is set when a poll of
`peer_rx` returns `Pending` and taken by the next send; `conn_waker` likewise
for bytes from the peer; an idle task runs only if `woken`. Decoding is
decodes / does not decode (`Garbage`); `Eof` is the peer closing. A peer that
reconnects gets a new connection with fresh state. `handled`, `sent`, `lagged`
are history variables.

### Gossip

`node[n]` is the protocol state of node n, `conn[<<n, m>>]` its connection with
m, `wire[<<n, m>>]` what is in flight. `Published(n, fb)` is `publish` as a
function of that state, which is what `NodesImplementP2P` compares, action by
action, with `FlashblocksP2P`. The two ends of a session come up separately
(`IntoConnection`); it ends at both ends and with what is in flight (`Break`). A
connection drains `peer_rx`, then reads one message, then drains again; sleeping,
waking and lagging are left to `FlashblocksConnection`. `since[n]` is a history
variable: from which flashblock on n was reachable from the builder.

### Flashblocks and FlashblocksStateExecutor

`StartsNewPayload` and `ContinuesPayload` are the two `Ok` results of
`is_new_payload`; when neither holds it is an error, and so is `push`. `Reduce`
is the fold of `Flashblock::reduce`. The parts of a diff are `txs`,
`access_list`, `block_hash`, and `executed`, which stands for what the execution
of the block yields: its roots, bloom and gas. `BlockOf` converts the reduced
flashblock to a block, or to `None`, the error of a missing base. The conversion
computes a header of its own (`primitives.rs:421-488`): from base and diff, but
without beacon root and requests hash, with no blob gas, and with the hash of
the reduced access list, which is the first flashblock's, since `reduce` leaves it. So
the block put together names the builder's block by the diff's `block_hash` and
seals another header; `ReducesToBuilt` claims the first and not the second.

The executor task is split where it can be interrupted: the stream yields
(`StreamNext`), `process_flashblock` takes the write lock and ends early
(`SkipBuilt`, `RejectOutOfOrder`) or goes on (`Begin`, which resets
`latest_payload`), waits for the header with the lock held (`FetchHeader`), and
builds and stores the result (`Build`). `Fail` is any return by `?` after the
lock was taken: undecodable transactions, missing state, a failed execution.
The builder's `PublishStep` is one action: `publish_built_payload` holds the lock
throughout (`PublishBuiltPayload`). Its job builds on a header that the node has.
`flashblock_stream` is two actions, `TakeSnapshot` and `Subscribe`, because the
code drops the p2p lock before it subscribes. `missed` is a history variable: the
positions of `flashblock_tx` that a stream subscribed like this leaves out. The content of a block is
`executed`, the set of flashblocks whose transactions it contains. The debug
assertion on the block hash (`state.rs:389`) is not part of release builds; what
it says is stated as `BlockIsWhole`. The comment at `state.rs:57-61` has the state
flushed on a forkchoice update; no code does that, and none is modelled.

In that module the builder's step is only its effect on the shared collection;
what it publishes is the subject of `PublishFlashblock`.

### PublishFlashblock

The payload under construction (rblib's `Checkpoint`) is `txs`, the transactions
of its history; `barrier`, how many of them precede the latest barrier; and
`built`, the built payload in that barrier's context. A job starts with the
prologue, which applies the sequencer transactions and places a barrier without
context. `Unpublished` is `unpublished_payload`: the whole history if the counter
is 0, else what follows the barrier. A built block takes its transactions from
the history but its receipts, gas, fees and state from the previous built
payload and the unpublished span; the two are kept apart (`txs`, `executed`),
because nothing in the code says that they agree.

A job may start while others run, and between any two accesses to `block_number`
and `block_base` the other jobs take steps. `step` is therefore five actions, and
`draft` holds its locals:

| action | access |
|---|---|
| `BuildBlock` | `build_op_built_payload` reads the counter for the span it executes |
| `TakeSpan` | the counter again, for the transactions of the flashblock |
| `TakeNumber` | the counter moves; the old value is the index |
| `TakeBase` | the base |
| `Publish` | the collection accepts the flashblock and a barrier is placed, or it does not |

`after_job` is two actions, `ResetNumber` and `ResetBase`. `FailJob` is
`ControlFlow::Fail`. `RemotePush` is the executor task extending the same
collection with another builder's flashblock. `FinalPayload` is `build_payload`:
the barrier's built payload, else the vanilla builder on what `ExternalTxs`
(`extract_external_txs`, which counts agreeing positions) leaves.
`overlapped` is a history variable, the jobs that ran while another did.

### FlattenReverts

Accounts are records of info, storage and status. `Checkpoint` changes some of
them and appends revm's reverts of the change to the bundle; `BlockReverts` is
`flatten_reverts` of the bundle, and `PublishFlashblock` makes it the bundle from
which the next flashblock starts. `Undo` applies reverts, latest transition
first. Whether a change wipes storage is a free choice; what a wiped storage
contained is not modelled, so wiping is checked through the flag alone.

### FlashblockBuilder

The state is `Key -> Value`, where a key is an account or a storage slot; a
bundle, or the writes of a transaction, is a function on the keys written. What
a transaction does is the constant `Effect`, a function of the state it reads.
The access list has for each key a sequence of writes (index, value), in the order
in which they were appended, index 0 for the system calls; `Entries` is what a
list says, whatever the order and the repetitions, and `Extend` appends one list
to another. Upper half of the module: `ExecuteTx` and `PublishFlashblock`
are the builder, whose state starts from `base_bundle_state`. Lower half:
`FollowFlashblock` is `process_flashblock` once it has decided to build, and
`Build` is `FlashblockBuilder::build` on the committed payload. Its steps are
operators: `Prestate`, `TransactionsOffset`, `PreExecution`, `AccessListBefore`,
`ParallelResults` and `Merge`, which a fold applies in the order of the indices.

A transaction pays its miner `Tip` per unit of gas, a deposit nothing (`Fee`).

Three things rest on how revm is used, not on this repository: a transaction at
index i reads the latest entry before i; the bundle taken from a state built
`with_bundle_prestate` contains that prestate; extending a bundle replaces
what it has. The list of each parallel result starts with the entries from before
the flashblock (`AccessListBefore`), as the source seeds it, and `Merge` appends
the lists of all results.

### FlashblockLimits

`OfferTheRest` and `OfferShare` are the results of `create`; `Build` is the
flashblock pipeline under these limits: it lasts until the flashblock's
deadline, perhaps longer (`MaxOverrun`), and uses any amount of gas within the
limit. The loops are rblib's: a deadline is taken to count from the start of the
scope it limits, and the outer loop ends when the job's has passed. `share` and
`overran` are history variables. The interval is positive: `create` divides by it.

## 3. Runs

| run | shows | bounds |
|---|---|---|
| `p2p_safety` | type, coherence of the buffer, order, no deliverable flashblock left behind, broadcast before emission, refinement of `FlashblockStream` | 2 payloads, indices 0..3 with maximum 2 (so one index is rejected), both sizes, 3 broadcasts: enough to fill a payload out of order, to return to a payload, and to leave an oversize flashblock at the frontier |
| `connection_safety` | penalties, echoes, duplicates and wake-ups | 2 peers (symmetric), 2 local flashblocks, 3 messages from peers with 2 payloads and a rejected index, receivers that hold 3 messages, reconnections |
| `connection_liveness` | every broadcast reaches every connected peer | as above, 2 messages, one payload, no lag |
| `gossip` | streams once and in order, nobody penalised, each node runs `FlashblocksP2P`, who joined before a payload gets all of it | a line of three nodes with the builder at its end (two hops), payloads of one and two flashblocks, a connection that breaks once |
| `gossip_mesh` | a node emits a payload again (violation) | three nodes, all connected, two payloads of one flashblock, no break |
| `executor` | collection, latest payload, block content, stream, catching up, pending block; what is emitted is processed, with three exceptions (below) | a local job of 2 flashblocks of one payload, another builder with 3 of the next, the second of them oversize, 3 deliveries of those or of copies of what the node broadcast, failing builds, headers that come late or never, capacity 3 |
| `publish_safety` | the step is reset after the last job; what a job that runs alone builds, publishes and ends with agree, and its flashblocks reduce to one that names its block; publishes fail only through competition; results are whole also if jobs overlap | 2 jobs, in sequence or overlapping, 1 sequencer and 2 pool transactions, a counter of up to 3, a competitor with the timestamp of the second job: enough for failed publishes first, last and between accepted ones, and for each job to reset the other's state |
| `reverts` | flattening at every flashblock undoes the block | 2 accounts, 2 slots, every pair of accounts as parent block; two transitions wait at a time, in blocks of any length |
| `limits` | shares never shrink, all gas is on offer, limits within the job's | deadline 14, interval 3, gas 11 (no two divide evenly), overruns of up to 4 |
| `builder` | parallel execution gives the builder's transactions, receipts, gas and fees; when its access list says the same, when it is the same list, and when its state agrees | 2 accounts and a slot with 3 values, 4 of 5 kinds of transactions that read and write what others do (one a deposit), 3 flashblocks: enough for a key written in two flashblocks and again within one, and for empty flashblocks |
| `builder_hash` | the follower's header differs from the builder's (violation) | the same |
| `executor_failed_build` | see below (violation) | no job |

Deadlock is checked in the runs of `FlashblocksP2P` and `Gossip`. The others say
`CHECK_DEADLOCK FALSE`: the budgets of the environment (`MaxInbound`,
`MaxDeliveries`, the jobs, the flashblocks of a job) run out, after which an idle
node has nothing to do, and a job under limits ends.

### Conditions in properties

Each is needed: without it TLC finds a counterexample.

* `PayloadsInTurn` (connections): the node does not return to a payload it has
  left, and its own flashblocks fit into a message (`LocalFits`; an oversize
  flashblock changes the payload without showing in `peer_tx`). Without it, A0,
  B0 and a second A0 make `publish` start payload A over. If B0 came from the
  peer itself, the echo filter removes it, so the peer sees A0 twice in a row
  and penalises a node that only relays.
* `lagged` (connections): on `Lagged` (`connection.rs:134`) the loop turns to
  `conn` without having polled the receiver to `Pending`, so no waker is
  registered and the task may sleep on messages still buffered. In reth any
  other activity of the session polls the task again, so the effect is a delay.
  `NoLostWakeupInTurn` excepts such a connection, and in `connection_liveness`
  none lags: neither says anything about what follows a lag.
* `failed` (executor): see `executor_failed_build` below.
* `raced` (executor): clone and subscription do not join. A flashblock emitted
  between the two (`p2p.rs:213-221`) is in neither. The clone goes to the first
  gap of the buffer, not to the frontier: an oversize flashblock that waits at
  the frontier is cloned, and with its successor it is emitted again, so the
  consumer gets it twice (TLC: B0, oversize B1, `flashblock_stream`, B2).
* Exceptions of `EmittedIsProcessed` (executor), which otherwise says that whatever is
  emitted comes to be processed, be it read from the clone or from the channel.
  `missed`: flashblocks of payloads that others have replaced before the clone,
  and those emitted between clone and subscription. `phase = "ended"`: one `Lagged` ends
  the stream and the executor task with it (`p2p.rs:224-227`), and nothing brings
  them back. `[]WaitsForHeader`: the task waits forever for the parent of a
  payload's first flashblock. The peer that sends it chooses the parent, and the
  retry (`state.rs:332`) has no limit and holds the write lock; a flashblock that
  continues a payload never waits, which the exception does not cover.
* `FirstOnesHaveBase` (executor): a flashblock 0 without base is refused. And
  `CaughtUpWith` excepts a payload that is no newer than the collection's, which
  is refused too: the stream may return to it, since `publish` compares no
  timestamps.
* `Alone` (publishing): the job's run does not overlap with another's. With
  overlapping jobs TLC violates three properties. *ReducesToBuilt* after 8 steps:
  the second job's `before_job` replaces the base before the first job reads it,
  so a flashblock of the first job carries the second one's base.
  *OnlyCompetitionRejects* after 10: both jobs draw their indices from one
  counter, and the collection refuses what does not continue its payload.
  *BuiltExecutesItsTxs* after 15: the first job's `after_job` resets the counter
  between two flashblocks of the second, whose next span is then its whole
  history, executed on top of the previous built payload. Whether two jobs ever
  run at once depends on rblib and the consensus client; nothing in `src/`
  prevents it.
* Payload ids: a local job's id is its own (`PublishAssumption`). Were one id
  built twice in a row, the second job's first flashblock would be rejected, and
  a later one accepted whose span starts at the prologue's barrier.

### Fairness

`ConnFairSpec`: weak fairness of each connection's task; tokio runs a woken task
eventually, and a step of an idle task is enabled only when it was woken. No
fairness on peers or the builder. `ExecFairSpec`: weak fairness of the executor
task, which is one sequential task; none on headers, failures, deliveries or the
builder. `GossipFairSpec`: weak
fairness of each connection's task, every step of which is one turn of
`poll_next`; that such a task is in fact polled again is what
`FlashblocksConnection` shows. No fairness on the builder, on joins or breaks.

### What the violations mean

1. *gossip_mesh.* `publish` resets on any different payload id, older ones
   included; `payload_timestamp` is stored and never compared. In a triangle
   with one honest builder, a copy of the first payload that took the longer way
   reaches a node that is at the second one: the node resets, emits the first
   payload again and broadcasts it again, against `p2p.rs:157` ("strictly
   ordered"). In the same instance the builder's own stream repeats, nodes are
   penalised for relaying, and copies can go on circulating. On a line of nodes
   none of this happens (`gossip`): the echo filter stops the only way back.
2. *executor_failed_build.* `latest_payload` is cleared before a build that may
   fail, the collection is not; if the stream returns to the old payload, its
   next flashblock is executed on nothing.
3. *builder_hash.* The debug assertion at `state.rs:389` cannot hold: the
   follower seals gas limit 0 (`builder.rs:467`, `state.rs:327`), and its bundle
   lacks what the system calls write (`builder.rs:290-294`), which the builder's
   base bundle has. The conditions of `AccessListAgreesUnlessRepeated` and
   `StateAgreesUnlessReplaced` are three more ways to disagree, which TLC finds
   without them. A flashblock without transactions drops the access list of the
   earlier ones. With several transactions in a flashblock each result brings
   the earlier entries along and `extend` appends them all (`builder.rs:346-360`):
   the list says the same, some of it repeatedly, and has another hash. And in a
   later flashblock the second one's bundle puts the prestate's value over what the
   first wrote. Receipts still agree (`ExecutionAgrees`): a follower reads through the builder's access
   list, never through its own bundle. Blob gas, which is not modelled, differs
   too once Jovian is active: the publisher seals its cumulative DA footprint
   (`publish_flashblocks.rs:385`), the follower 0 (`builder.rs:434`).

## 4. Proofs

`FlashblocksP2PProofs` proves, for any set of payload ids and flashblocks and
any `MAX_FLASHBLOCK_INDEX`, from `P2PAssumption` (the parameters have the types
the code gives them): `TypeCorrect`, `BufferCoherence`, `InOrderDelivery`,
`EmitsWhatIsReady`, `PeersAreSentWhatIsEmitted`, `StreamRefinement`.

`InOrder` is not inductive: it speaks of what was emitted, and the next emission
is decided by the frontier and the buffer. `IInv` adds `LastEmitted` (the last
emitted flashblock is the one just below the frontier, in the buffer), which
makes appending the run from the frontier safe; `BufferCoherent` says that the
run has consecutive indices of one payload; `CachedWasBroadcast` is what
`EmittedWasBroadcast` needs, since a flashblock may be emitted long after it was
cached. The reset is a lemma of its own (`ResetFacts`), and `RunFacts` describes
the emitted run. The refinement maps `RejectIndex` and `CacheOversize` to a
`Deliver` of no flashblock, `AlreadyCached` to a stutter, and
`CacheAndBroadcast` to `Deliver` of the emitted run.

`FlashblockLimitsProofs` proves for every interval, deadline, gas limit and
overrun, from `LimitsAssumption`: `TypeCorrect`, `AllGasOffered`,
`SharesNeverShrink`. That shares never shrink is about the state in which the
next limits are created, so the invariant carries it there: while a flashblock
is built, its share fits into each of the `RemainingBlocks - 1` flashblocks
after it (`Offered`); once it is built, at most so many remain, because at
least an interval has passed (`DivAfterInterval`), and the share still fits into
each of them (`Affordable`); and then the truncated quotient is no smaller
(`DivIsLargest`).

`FlashblocksConnectionProofs` proves for any peers, flashblocks, receiver
capacity and number of messages, from `P2PAssumption` and `ConnectionAssumption`:
`ConnectionsRunP2P` (so all of the above holds of a node with connections),
`ConnectionTypeCorrect`, `PenaltiesAreExact`, `NoLostWakeups`, `NothingSentTwice`,
`NothingEchoed`. None of the properties is inductive. `BroadcastOnce` relates
`peer_tx` to the buffer: while payloads come in turn, what was broadcast of the
current payload is cached, hence nothing is broadcast twice (`PublishOnce`).
`ReceivedIsRun` says that the indices a connection keeps are those of the peer's
last run of one payload, from which `PenaltyIsExact` follows. `EchoesAreFiltered`
is the argument about `poll_next`: a connection reads `conn` only after it has
read `peer_rx` to its end or to an echo; so at most one echo is ever unread, it
is of the payload the filter knows, and the broadcast that made it has woken
the task. Hence leaving `peer_rx` at a filtered echo, without a waker, never
puts a task to sleep on messages. `RestingConnection` shows that whatever the
other tasks do keeps this true, by the observation that a new broadcast is never
an echo to anybody but the peer it was just read from (`NewIsNoEcho`).

`FlashblocksStateExecutorProofs` proves for all flashblocks, jobs and bounds:
`ExecutorRunsP2P`, `ExecutorTypeCorrect`, `CollectionWellFormed`, `LatestMatches`,
`WholeUnlessFailed`, `PendingOnlyAdvances`, `NoGapUnlessRaced`, `IdleHasCaughtUp`, from
`P2PAssumption`, `ExecutorAssumption` and `TimestampAssumption`: a payload id, which
is computed from attributes that contain the timestamp, determines it. The
invariant `Committed` relates the collection to the blocks built on it.
`Locking`: while the executor waits for a header or builds, what it has checked
under the lock stays true, since nobody else can push. `Latest` and `Whole`: the
latest payload is the block of the whole collection; it is missing only for the
default collection, during a build that starts a payload, or after a failure.
`Pending`: the pending block is never newer than the collection, so its
successor is never older. `Joined` is about the stream: what it has yielded and
what is left of its clone has no gap, and whatever `flashblock_tx` holds next for
it continues that; if it holds nothing, the frontier continues it.
`Processed`: the collection has every flashblock that the stream has yielded, or
a payload no older, except for the one at hand. A push never undoes that
(`PushKeepsCaughtUp`), and what is skipped or refused is already in the
collection: its predecessor was processed and the stream has no gap, so it
cannot be one too far (`RefusedIsOld`).

`PublishFlashblockProofs` proves for all jobs, transactions and bounds, from
`PublishAssumption`: `TypeCorrect`, `StepIsReset`, `ResultsAreWhole` for any
overlapping of jobs, and `BlocksExecuteTheirTxs`, `OnlyCompetition` for a job that
runs alone. `SharedInv` is what holds whichever jobs run: the last job to leave
resets the counter (`NumberIsReset`, since `after_job` resets the counter before
the base), a job's transactions begin with the sequencer's and do not repeat
(`History`, which makes counting agreeing positions the same as a prefix), and it
has a built payload exactly if it has published (`PublishedIsBuilt`). `AloneInv`
adds for a job without overlap: two jobs that run are both noted, the counter is
the one the job's flashblock has or will get (`Spent`), it is 0 until the job has
built on a success (`Executed`), it is the length of the collection while that is
at this job's payload (`InStep`), and the base is the job's own (`OwnBase`).

`ReducesToTheBlock`, for a job that runs alone, is about a fold over the collection.
`ReduceOfNext` says what reducing one flashblock more yields; `ReducedInv` that
the reduced flashblock has the base and the transactions which the barrier
precedes, names the block last built by its `block_hash` and has what it executed.
Its access list is the block's only if the collection has one flashblock, and
the theorem claims no more.

`FlattenRevertsProofs` proves `FlattenedUndoes` and `WipesReflected` for all accounts,
slots and values, and for blocks of any number of flashblocks with any number of
transitions between two flattenings, from `RevertsAssumption`. The invariant
says that the transitions of the bundle, flattened so far or not, lead back from
the accounts to the parent block once merged into one (`TransitionLeadsBack`), and
have wiped exactly what was wiped. What makes flattening correct is
`MergeLeadsBack`: if one revert leads back from the new state to the middle one,
and an earlier one from there to the old, the two merged lead back over both
changes.

`FlashblockBuilderProofs` proves for all keys, values and transactions, for any
effect a transaction may have and any number of flashblocks, from
`BuilderAssumption`: `TypeCorrect`, `ParallelEqualsSequential`, `AccessListsAgree`,
`StatesAgree`. The invariant is about the trace of the builder's
block (`IsTrace`): the blocks it has been, one per transaction, where the entries
of its access list up to an index are the access list it had at that index. So
the latest entry before a transaction is what that transaction has read, and a
follower that reads through the list reads what the builder read. The
flashblocks cut the trace (`IsCut`), and the follower agrees with the cut it has
reached (`IsFollower`): in transactions, receipts, gas and fees (`SameExecution`)
always; in what the access list says unless a flashblock was empty, and in the
list itself if each had exactly one transaction; and in the value of a key unless a later transaction of a flashblock carries an older value of it,
hence the condition of `StateAgreesUnlessReplaced`.

`GossipProofs` has two parts. For any graph of nodes and any number of breaks,
from `P2PAssumption` and `GossipAssumption`, `TypeCorrect` and `NodesRunTheProtocol`:
`Published` is `publish` (`PublishedIsPublish`), and every other step leaves a node's
protocol state alone. For trees, `OrderedStreams` and `NoPenalties` (`ASSUME Tree`).
`Upward` are the links that lead from a node to its parent, and `Tree` says that
every link does or its reverse does, and not both; `MCGossip` checks that its line is
such a graph and its triangle is not, where the run `gossip_mesh` refutes
`StreamsInOrder`. The payloads of `Job` come one after another, each with growing
indices, as `PublishFlashblock` produces them. The invariant `TreeInv` is one of
each node and one of each link. A node has broadcast, cached and emitted in the
order of `Job`. On a link that leads away from the builder, what is in flight and
what is still to be sent is newer than all that its lower end has broadcast. On
a link towards the builder nothing is ever in flight: what its lower end has
not yet looked at is at most the flashblock it has just received over that very
link, and the echo filter knows it. So a flashblock reaches a node once, in
order, whatever opens late, breaks or comes back: only then may `publish` skip
what it never compares, the timestamps.

Where a proof needs induction (over the flashblocks of a collection, a run of
transactions, the reverts of a transition) it takes the least counterexample: a
nonempty set of naturals has a least element (`LeastElement`, from
`WellFoundedInduction`), so a set that contains 0 and with n also n + 1 has all of
them (`SetInduction`). A fold is first shown to obey its recursion, element by
element, and is used through that lemma only.

Every safety invariant and action property that a passing run checks is thus
proved. Only model-checked: all liveness (`BroadcastReachesPeers`,
`EmittedIsProcessed`, `JoinedGetEverything`), since neither fairness nor ENABLED is in
the prover's reach.

## 5. Not modelled

* The wire encoding (`primitives.rs` up to the collection, the message framing in
  `p2p.rs`): field-by-field RLP and JSON without state or decisions, whose round
  trips are unit tests (`primitives.rs:625-728`). What the protocol sees of it is
  in the models: a message decodes or not, and it may be too large.
* That two remote builders use one payload id, except as far as peers may send
  any flashblock in `FlashblocksConnection`.
* The withdrawals root, fork rules and blob gas; how roots and hashes are computed.
* `merge_access_list`, which nothing calls, and the finishing path of
  `block_builder.rs`, `block_executor.rs` and `block_assembler.rs`, of which
  `build` uses the pre-execution changes only; `BestPayloadTxns`, which has no
  caller in the program.
* Decoding of transactions and recovery of their senders, beyond that a build may
  fail.
* The storage of self-destructed contracts in reverts.
* Metrics and times: no decision reads them.
* Node assembly, devnet and scripts: construction without state, apart from the
  order of launch and registration, which the executor's model has. External
  libraries beyond their use.

## 6. Plan

1. Composition: the executor of a follower behind a gossip network, so that what
   the mesh repeats meets `is_new_payload`.
2. Two jobs with one payload id in the publishing step.
3. Safety halves of the liveness properties (what must hold for a task to be
   scheduled) for `EmittedIsProcessed` and `JoinedGetEverything`, as
   `NoLostWakeupInTurn` is for `BroadcastReachesPeers`.
