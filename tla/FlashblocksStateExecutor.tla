---------------------- MODULE FlashblocksStateExecutor ----------------------
(***************************************************************************)
(* FlashblocksStateExecutor (flashblocks/state.rs) with everything it      *)
(* shares state with: the p2p state and its stream (FlashblocksP2P), the   *)
(* collection it keeps (Flashblocks), the local payload job whose          *)
(* PublishFlashblock step publishes into it (step/publish_flashblocks.rs), *)
(* and the consumers of the pending block and of the payload events.       *)
(*                                                                         *)
(* A built block is represented by the flashblocks whose transactions it   *)
(* contains.  The executor holds the write lock of `inner` from the first  *)
(* to the last step of process_flashblock, the builder within one step.    *)
(***************************************************************************)
EXTENDS FlashblocksP2P

CONSTANTS
  Hash,             \* block hashes
  ZeroHash,         \* B256::ZERO
  CAPACITY,         \* flashblocks a lagging stream can still read
  Jobs,             \* the payload jobs of this node, in order: [payload_id, base]
  MaxBlocksPerJob,  \* bound on the flashblocks built per job
  RemoteFlashblock, \* the flashblocks of other builders
  MaxDeliveries     \* bound on what the connections hand to the p2p state

INSTANCE Flashblocks

BuiltPayload ==
  [payload_id : PayloadId, index : Nat, executed : SUBSET (PayloadId \X Nat)]

ASSUME ExecutorAssumption ==
  /\ CAPACITY \in Nat \ {0}
  /\ MaxBlocksPerJob \in Nat /\ MaxDeliveries \in Nat
  /\ RemoteFlashblock \subseteq Flashblock
  /\ ZeroHash \notin Hash
  /\ \A fb \in Flashblock :
       fb.base # None => fb.base.timestamp \in Nat \ {0} /\ fb.base.parent_hash \in Hash
  /\ Jobs \in Seq({Jobs[j] : j \in DOMAIN Jobs})
  /\ \A j \in DOMAIN Jobs, i \in 0 .. MaxBlocksPerJob - 1 :
       [payload_id |-> Jobs[j].payload_id, index |-> i, oversize |-> FALSE,
        base |-> Jobs[j].base] \in Flashblock
  /\ BaseOf(DefaultFlashblocks) # None
  /\ None \notin BuiltPayload

\* A payload id is computed from attributes that contain the timestamp.
ASSUME TimestampAssumption ==
  \A fb, gb \in Flashblock :
    fb.payload_id = gb.payload_id /\ fb.base # None /\ gb.base # None
      => fb.base.timestamp = gb.base.timestamp

VARIABLES
  list,            \* inner.flashblocks
  latest_payload,  \* inner.latest_payload: None or [payload_id, index, executed]
  payload_events,  \* inner.payload_events is set
  lock,            \* who holds inner.write() between steps: "free" or "executor"
  pending_block,   \* what the watch channel holds
  events,          \* the BuiltPayload events sent
  phase,           \* the stream: "none", "snapshot", "live" or "ended"
  snapshot,        \* rest of the cached flashblocks the stream starts with
  cursor,          \* how much of flashblock_tx the stream has read
  pc,              \* the executor task
  processing,      \* the flashblock it processes
  known,           \* the headers the provider knows
  job,             \* the running payload job, 0 if none
  jobs_done,       \* how many jobs have ended
  block_number,    \* PublishFlashblock::block_number
  block_base,      \* PublishFlashblock::block_base
  deliveries,      \* number of flashblocks handed over by connections
  consumed,        \* history: what the stream has yielded
  raced,           \* history: clone and subscription do not join: a flashblock was
                   \*   emitted in between, or one is cloned and not yet emitted
  missed,          \* history: positions of flashblock_tx the stream leaves out
  failed           \* history: a build failed after the lock was taken

innerVars == <<list, latest_payload, payload_events, lock>>
outVars == <<pending_block, events>>
streamVars == <<phase, snapshot, cursor, consumed, raced, missed>>
jobVars == <<job, jobs_done, block_number, block_base>>

vars == <<p2pVars, innerVars, outVars, streamVars, jobVars, pc, processing, known,
          deliveries, failed>>

-----------------------------------------------------------------------------
ExecInit ==
  /\ Init
  /\ list = DefaultFlashblocks
  /\ latest_payload = None
  /\ payload_events = FALSE
  /\ lock = "free"
  /\ pending_block = None
  /\ events = <<>>
  /\ phase = "none" /\ snapshot = <<>> /\ cursor = 0
  /\ pc = "next"
  /\ processing = None
  /\ known = {}
  /\ job = 0 /\ jobs_done = 0 /\ block_number = 0 /\ block_base = None
  /\ deliveries = 0
  /\ consumed = <<>>
  /\ raced = FALSE
  /\ missed = {}
  /\ failed = FALSE

\* A publish, noting what of it a stream between its two halves is missing.
PublishNoting(fb) ==
  /\ Publish(fb)
  /\ raced' = (raced \/ (phase = "snapshot" /\ flashblock_tx' # flashblock_tx))
  /\ missed' = IF phase = "snapshot"
                 THEN missed \cup (Len(flashblock_tx) + 1) .. Len(flashblock_tx')
                 ELSE missed
  /\ UNCHANGED <<phase, snapshot, cursor, consumed>>

\* A connection publishes a flashblock of another builder, or a copy of one
\* that this node has broadcast before.
Deliver(fb) ==
  /\ deliveries < MaxDeliveries
  /\ deliveries' = deliveries + 1
  /\ fb \in RemoteFlashblock \/ \E k \in 1 .. Len(peer_tx) : peer_tx[k] = fb
  /\ PublishNoting(fb)
  /\ UNCHANGED <<innerVars, outVars, jobVars, pc, processing, known, failed>>

\* The canonical chain advances.
HeaderArrives(h) ==
  /\ h \notin known
  /\ known' = known \cup {h}
  /\ UNCHANGED <<p2pVars, innerVars, outVars, streamVars, jobVars, pc, processing,
                 deliveries, failed>>

-----------------------------------------------------------------------------
\* What was emitted before the current payload is no longer cached.
OfOlderPayloads == 1 .. (Len(flashblock_tx) - flashblock_index)

TakeSnapshotWithGaps ==  \* mutant: `flatten` instead of `map_while`
  /\ phase = "none"
  /\ snapshot' = SelectSeq(Run(flashblocks, 0, MAX_FLASHBLOCK_INDEX + 1), LAMBDA fb : fb # None)
  /\ phase' = "snapshot"
  /\ raced' = Ready(flashblocks, flashblock_index)
  /\ missed' = OfOlderPayloads
  /\ UNCHANGED <<p2pVars, innerVars, outVars, jobVars, pc, processing, known, deliveries,
                 failed, cursor, consumed>>

TakeNoSnapshot ==  \* mutant: a subscription alone
  /\ phase = "none"
  /\ snapshot' = <<>>
  /\ phase' = "snapshot"
  /\ raced' = Ready(flashblocks, flashblock_index)
  /\ missed' = OfOlderPayloads
  /\ UNCHANGED <<p2pVars, innerVars, outVars, jobVars, pc, processing, known, deliveries,
                 failed, cursor, consumed>>

\* flashblock_stream, first half: clone the buffer up to the first gap.
TakeSnapshot ==
  /\ phase = "none"
  /\ \E hi \in 0 .. (MAX_FLASHBLOCK_INDEX + 1) :
       /\ \A i \in 0 .. (hi - 1) : Ready(flashblocks, i)
       /\ ~Ready(flashblocks, hi)
       /\ snapshot' = Run(flashblocks, 0, hi)
  /\ phase' = "snapshot"
  /\ raced' = Ready(flashblocks, flashblock_index)
  /\ missed' = OfOlderPayloads
  /\ UNCHANGED <<p2pVars, innerVars, outVars, jobVars, pc, processing, known, deliveries,
                 failed, cursor, consumed>>

\* flashblock_stream, second half: subscribe, after the state lock is released.
Subscribe ==
  /\ phase = "snapshot"
  /\ cursor' = Len(flashblock_tx)
  /\ phase' = "live"
  /\ UNCHANGED <<p2pVars, innerVars, outVars, jobVars, pc, processing, known, deliveries,
                 failed, snapshot, consumed, raced, missed>>

\* The task takes the next flashblock from the stream.
StreamYields(fb) ==
  /\ processing' = fb
  /\ consumed' = Append(consumed, fb)
  /\ pc' = "process"

StreamNext ==
  /\ pc = "next"
  /\ phase = "live"
  /\ \/ /\ snapshot # <<>>
        /\ StreamYields(Head(snapshot))
        /\ snapshot' = Tail(snapshot)
        /\ UNCHANGED cursor
     \/ /\ snapshot = <<>>
        /\ Len(flashblock_tx) - cursor \in 1 .. CAPACITY
        /\ StreamYields(flashblock_tx[cursor + 1])
        /\ cursor' = cursor + 1
        /\ UNCHANGED snapshot
  /\ UNCHANGED <<p2pVars, innerVars, outVars, jobVars, known, deliveries, failed, phase,
                 raced, missed>>

\* Lagged becomes the end of the stream (`map_while(|x| x.ok())`), and the end
\* of the stream the end of the task.
StreamLags ==
  /\ pc = "next"
  /\ phase = "live"
  /\ snapshot = <<>>
  /\ Len(flashblock_tx) - cursor > CAPACITY
  /\ phase' = "ended"
  /\ pc' = "done"
  /\ UNCHANGED <<p2pVars, innerVars, outVars, jobVars, processing, known, deliveries,
                 failed, snapshot, cursor, consumed, raced, missed>>

-----------------------------------------------------------------------------
AlreadyBuiltAnyPayload(fb) ==  \* mutant: the payload ids are not compared
  latest_payload # None /\ latest_payload.index >= fb.index

\* process_flashblock up to is_new_payload, once inner.write() is granted.
AlreadyBuilt(fb) ==
  /\ latest_payload # None
  /\ latest_payload.payload_id = fb.payload_id
  /\ latest_payload.index >= fb.index

SkipBuilt ==
  /\ pc = "process" /\ lock = "free"
  /\ AlreadyBuilt(processing)
  /\ pending_block' = latest_payload
  /\ pc' = "next"
  /\ UNCHANGED <<p2pVars, innerVars, events, streamVars, jobVars, processing, known,
                 deliveries, failed>>

RejectOutOfOrder ==
  /\ pc = "process" /\ lock = "free"
  /\ ~AlreadyBuilt(processing)
  /\ ~Accepts(list, processing)
  /\ pc' = "next"
  /\ UNCHANGED <<p2pVars, innerVars, outVars, streamVars, jobVars, processing, known,
                 deliveries, failed>>

BeginKeepsLatest ==  \* mutant: latest_payload survives a new payload
  /\ pc = "process" /\ lock = "free"
  /\ ~AlreadyBuilt(processing)
  /\ Accepts(list, processing)
  /\ lock' = "executor"
  /\ pc' = "decode"
  /\ UNCHANGED <<p2pVars, list, latest_payload, payload_events, outVars, streamVars, jobVars,
                 processing, known, deliveries, failed>>

Begin ==
  /\ pc = "process" /\ lock = "free"
  /\ ~AlreadyBuilt(processing)
  /\ Accepts(list, processing)
  /\ lock' = "executor"
  /\ latest_payload' = IF StartsNewPayload(list, processing) THEN None ELSE latest_payload
  /\ pc' = "decode"
  /\ UNCHANGED <<p2pVars, list, payload_events, outVars, streamVars, jobVars, processing,
                 known, deliveries, failed>>

\* An early return by `?` releases the lock; latest_payload keeps its reset.
Fail ==
  /\ pc \in {"decode", "build"}
  /\ lock' = "free"
  /\ pc' = "next"
  /\ failed' = TRUE
  /\ UNCHANGED <<p2pVars, list, latest_payload, payload_events, outVars, streamVars,
                 jobVars, processing, known, deliveries>>

BaseForOld(fb) == BaseOf(list)  \* mutant: always the base of the collection

BaseFor(fb) == IF StartsNewPayload(list, fb) THEN fb.base ELSE BaseOf(list)

\* The retry loop around fetch_header has no limit: it waits for the header.
FetchHeader ==
  /\ pc = "decode"
  /\ BaseFor(processing).parent_hash \in known
  /\ pc' = "build"
  /\ UNCHANGED <<p2pVars, innerVars, outVars, streamVars, jobVars, processing, known,
                 deliveries, failed>>

\* FlashblockBuilder::build on top of the committed payload, if there is one.
Execute(fb) ==
  [payload_id |-> fb.payload_id, index |-> fb.index,
   executed |-> {<<fb.payload_id, fb.index>>} \cup
                (IF latest_payload = None THEN {} ELSE latest_payload.executed)]

Build ==
  /\ pc = "build"
  /\ list' = Push(list, processing)
  /\ latest_payload' = Execute(processing)
  /\ pending_block' = latest_payload'
  /\ events' = IF payload_events THEN Append(events, latest_payload') ELSE events
  /\ lock' = "free"
  /\ pc' = "next"
  /\ UNCHANGED <<p2pVars, payload_events, streamVars, jobVars, processing, known,
                 deliveries, failed>>

-----------------------------------------------------------------------------
\* register_payload_events, once, when the payload service is spawned.
RegisterPayloadEvents ==
  /\ lock = "free"
  /\ ~payload_events
  /\ payload_events' = TRUE
  /\ UNCHANGED <<p2pVars, list, latest_payload, lock, outVars, streamVars, jobVars, pc,
                 processing, known, deliveries, failed>>

\* before_job of PublishFlashblock: a job builds on a header the node has.
StartJob ==
  /\ job = 0
  /\ jobs_done < Len(Jobs)
  /\ Jobs[jobs_done + 1].base.parent_hash \in known
  /\ job' = jobs_done + 1
  /\ block_base' = Jobs[job'].base
  /\ UNCHANGED <<p2pVars, innerVars, outVars, streamVars, jobs_done, block_number, pc,
                 processing, known, deliveries, failed>>

\* The step's flashblock; the block it was built into holds all of the job's.
JobFlashblock ==
  [payload_id |-> Jobs[job].payload_id, index |-> block_number, oversize |-> FALSE,
   base |-> block_base]

JobPayloadLate ==  \* mutant: the counter is read again after fetch_add
  [payload_id |-> Jobs[job].payload_id, index |-> block_number + 1,
   executed |-> {<<Jobs[job].payload_id, i>> : i \in 0 .. block_number}]

JobPayload ==
  [payload_id |-> Jobs[job].payload_id, index |-> block_number,
   executed |-> {<<Jobs[job].payload_id, i>> : i \in 0 .. block_number}]

\* publish_built_payload: push, remember the block, publish, under one lock.
PublishBuiltPayload(fb, payload) ==
  /\ Accepts(list, fb)
  /\ list' = Push(list, fb)
  /\ latest_payload' = payload
  /\ PublishNoting(fb)

\* PublishFlashblock::step down to publish_built_payload: the counter moves
\* whether or not the collection accepts the flashblock.
PublishStep ==
  /\ job # 0
  /\ block_number < MaxBlocksPerJob
  /\ lock = "free"
  /\ block_number' = block_number + 1
  /\ \/ PublishBuiltPayload(JobFlashblock, JobPayload)
     \/ /\ ~Accepts(list, JobFlashblock)
        /\ UNCHANGED <<p2pVars, streamVars, list, latest_payload>>
  /\ UNCHANGED <<payload_events, lock, outVars, job, jobs_done, block_base, pc, processing,
                 known, deliveries, failed>>

\* after_job.
EndJob ==
  /\ job # 0
  /\ job' = 0
  /\ jobs_done' = job
  /\ block_number' = 0
  /\ block_base' = None
  /\ UNCHANGED <<p2pVars, innerVars, outVars, streamVars, pc, processing, known, deliveries,
                 failed>>

-----------------------------------------------------------------------------
Executor ==
  \/ StreamNext \/ StreamLags
  \/ SkipBuilt \/ RejectOutOfOrder \/ Begin
  \/ FetchHeader \/ Fail \/ Build

ExecNext ==
  \/ \E fb \in Flashblock : Deliver(fb)
  \/ \E h \in Hash : HeaderArrives(h)
  \/ TakeSnapshot \/ Subscribe
  \/ Executor
  \/ RegisterPayloadEvents
  \/ StartJob \/ PublishStep \/ EndJob

ExecSpec == ExecInit /\ [][ExecNext]_vars

-----------------------------------------------------------------------------
TypeOK ==
  /\ P2PTypeOK
  /\ Tail(list) \in Seq(Flashblock) /\ Head(list) \in Flashblock \cup {DefaultFlashblocks[1]}
  /\ latest_payload \in BuiltPayload \cup {None}
  /\ payload_events \in BOOLEAN
  /\ lock \in {"free", "executor"}
  /\ pending_block \in BuiltPayload \cup {None}
  /\ events \in Seq(BuiltPayload)
  /\ phase \in {"none", "snapshot", "live", "ended"}
  /\ snapshot \in Seq(Flashblock)
  /\ cursor \in 0 .. Len(flashblock_tx)
  /\ pc \in {"next", "process", "decode", "build", "done"}
  /\ processing \in Flashblock \cup {None}
  /\ known \subseteq Hash
  /\ job \in 0 .. Len(Jobs) /\ jobs_done \in 0 .. Len(Jobs)
  /\ block_number \in 0 .. MaxBlocksPerJob
  /\ deliveries \in 0 .. MaxDeliveries
  /\ consumed \in Seq(Flashblock)
  /\ raced \in BOOLEAN /\ failed \in BOOLEAN
  /\ missed \subseteq 1 .. Len(flashblock_tx)

(***************************************************************************)
(* The builder and the executor push into the same collection, in any      *)
(* interleaving, and it keeps its documented guarantee                     *)
(* (primitives.rs:490-494).                                                *)
(***************************************************************************)
ListWellFormed == WellFormed(list)

(***************************************************************************)
(* latest_payload is the block built from the last flashblock of the       *)
(* collection: the two are updated by different code in the builder and in *)
(* the executor (state.rs:128-130, 396-397) and must not drift apart, or   *)
(* the next flashblock is executed on the wrong block.                     *)
(***************************************************************************)
LatestMatchesList ==
  latest_payload # None /\ lock = "free" =>
    /\ latest_payload.payload_id = PayloadIdOf(list)
    /\ latest_payload.index = Len(list) - 1

SameFlashblock(x, y) == x.payload_id = y.payload_id /\ x.index = y.index

(***************************************************************************)
(* What process_flashblock asserts with the block hash (state.rs:389-393): *)
(* the latest payload holds every flashblock of its payload up to its      *)
(* index, and no others.                                                   *)
(***************************************************************************)
BlockIsWhole ==
  latest_payload # None =>
    latest_payload.executed =
      {<<latest_payload.payload_id, i>> : i \in 0 .. latest_payload.index}

\* ... which holds as long as no build has failed.
BlockIsWholeUnlessFailed == failed \/ BlockIsWhole

TimestampOf(id) ==
  IF id = NoPayload THEN 0
  ELSE LET fb == CHOOSE fb \in Flashblock : fb.payload_id = id /\ fb.base # None
       IN fb.base.timestamp

\* Built payload x is not newer than y.
NotNewer(x, y) ==
  \/ TimestampOf(x.payload_id) < TimestampOf(y.payload_id)
  \/ x.payload_id = y.payload_id /\ x.index <= y.index

(***************************************************************************)
(* Whoever watches the pending block never sees it go back to an older     *)
(* block or to a shorter prefix of the same block (state.rs:281, 398),     *)
(* though builder and executor race to replace latest_payload.             *)
(***************************************************************************)
PendingBlockNeverGoesBack ==
  [][pending_block # None /\ pending_block' # pending_block =>
       NotNewer(pending_block, pending_block')]_vars

(***************************************************************************)
(* The stream a consumer gets from flashblock_stream starts at the         *)
(* beginning of the current payload and has no gap (p2p.rs:203-209).       *)
(***************************************************************************)
StreamHasNoGap ==
  \A k \in 1 .. Len(consumed) : consumed[k].index > 0 =>
    /\ k > 1
    /\ consumed[k - 1].payload_id = consumed[k].payload_id
    /\ consumed[k - 1].index = consumed[k].index - 1

\* ... which holds when the cloned flashblocks are exactly those emitted before
\* the subscription.  An oversize flashblock at the frontier is cloned, and is
\* emitted again with its successor.
StreamHasNoGapUnlessRaced == raced \/ StreamHasNoGap

\* The executor task waits for the stream to yield.
Idle == pc = "next" /\ phase = "live" /\ snapshot = <<>> /\ cursor = Len(flashblock_tx)

\* The collection has the flashblock, or is at a payload that is no older.
CaughtUpWith(fb) ==
  IF fb.payload_id = PayloadIdOf(list)
    THEN fb.index < Len(list)
    ELSE TimestampOf(fb.payload_id) <= BaseOf(list).timestamp

\* No builder has left out the base of a first flashblock; such a one is refused.
FirstOnesHaveBase ==
  \A k \in 1 .. Len(consumed) : consumed[k].index = 0 => consumed[k].base # None

(***************************************************************************)
(* An idle executor has caught up: when it has read the whole stream, the  *)
(* last flashblock emitted for the current payload is in the collection,   *)
(* whether the builder or the executor put it there (state.rs:112-135,     *)
(* 242-406), unless it belongs to a payload that came too late.  Excepted  *)
(* are failed builds and a raced subscription.                             *)
(***************************************************************************)
IdleMeansCaughtUp ==
  Idle /\ flashblock_index > 0 /\ FirstOnesHaveBase /\ ~failed /\ ~raced =>
    CaughtUpWith(flashblock_tx[Len(flashblock_tx)])

-----------------------------------------------------------------------------
\* What the executor task does next when nothing makes a build fail.
ExecutorTask ==
  \/ TakeSnapshot \/ Subscribe \/ StreamNext \/ StreamLags
  \/ SkipBuilt \/ RejectOutOfOrder \/ Begin \/ FetchHeader \/ Build

\* The runtime keeps running the executor task.  Nothing makes the chain reach
\* the parent that a flashblock names.
ExecFairSpec == ExecSpec /\ WF_vars(ExecutorTask)

\* process_flashblock has ended for the k-th flashblock that was emitted.
IsProcessed(k) ==
  /\ pc = "next"
  /\ cursor >= k
  /\ \E m \in 1 .. Len(consumed) : consumed[m] = flashblock_tx[k]

\* The executor asks for the header that the first flashblock of a payload
\* names as its parent, and the provider does not have it.
WaitsForHeader ==
  /\ pc = "decode"
  /\ StartsNewPayload(list, processing)
  /\ processing.base.parent_hash \notin known

(***************************************************************************)
(* Every flashblock that is emitted is handed to process_flashblock, which *)
(* comes to an end for it (state.rs:209-228), with these exceptions and no *)
(* others: the stream ended because it lagged; the flashblock belongs to a *)
(* payload that was replaced before the buffer was cloned, or was emitted  *)
(* between the clone and the subscription (p2p.rs:213-221); or the         *)
(* executor, holding the write lock, waits for ever for the parent of the  *)
(* first flashblock of a payload that the chain never reaches (state.rs:   *)
(* 332-340).  In particular it never waits for the parent of a later one,  *)
(* and never stops after a build that failed.                              *)
(***************************************************************************)
EmittedIsProcessed ==
  \A k \in 1 .. (MaxDeliveries + MaxBlocksPerJob * Len(Jobs)) :
    Len(flashblock_tx) >= k ~>
      IsProcessed(k) \/ k \in missed \/ phase = "ended" \/ []WaitsForHeader

=============================================================================
