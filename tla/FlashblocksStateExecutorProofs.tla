------------------- MODULE FlashblocksStateExecutorProofs -------------------
(***************************************************************************)
(* Proofs about FlashblocksStateExecutor, for all flashblocks, jobs and    *)
(* bounds.  The invariants of the protocol state carry over from           *)
(* FlashblocksP2PProofs, because every step publishes a flashblock or      *)
(* leaves that state alone.                                                *)
(***************************************************************************)
EXTENDS FlashblocksStateExecutor, FlashblocksP2PProofs

\* The collection is the default one or has flashblocks of the wire only.
Collection ==
  /\ list = DefaultFlashblocks \/ list \in Seq(Flashblock)
  /\ WellFormed(list)
  /\ BaseOf(list).timestamp \in Nat
  /\ BaseOf(list).timestamp = TimestampOf(PayloadIdOf(list))

\* The types of the remaining variables.
OtherTypes ==
  /\ latest_payload \in BuiltPayload \cup {None}
  /\ payload_events \in BOOLEAN
  /\ lock \in {"free", "executor"}
  /\ pending_block \in BuiltPayload \cup {None}
  /\ events \in Seq(BuiltPayload)
  /\ phase \in {"none", "snapshot", "live", "ended"}
  /\ snapshot \in Seq(Flashblock)
  /\ cursor \in 0 .. Len(flashblock_tx)
  /\ pc \in {"next", "process", "decode", "build", "done"}
  /\ processing \in Flashblock \cup {None}
  /\ known \subseteq Hash
  /\ job \in 0 .. Len(Jobs) /\ jobs_done \in 0 .. Len(Jobs)
  /\ block_number \in 0 .. MaxBlocksPerJob
  /\ deliveries \in 0 .. MaxDeliveries
  /\ consumed \in Seq(Flashblock)
  /\ raced \in BOOLEAN /\ failed \in BOOLEAN
  /\ missed \subseteq 1 .. Len(flashblock_tx)

\* While a job runs the step has its base.
JobBase == job # 0 => block_base = Jobs[job].base

\* The executor holds the lock while it builds, and what it has checked stays
\* true: nobody else can push meanwhile.
Locking ==
  /\ lock = "executor" <=> pc \in {"decode", "build"}
  /\ pc \in {"process", "decode", "build"} => processing \in Flashblock
  /\ lock = "executor" =>
       /\ Accepts(list, processing)
       /\ latest_payload # None => ~StartsNewPayload(list, processing)

Latest ==
  latest_payload # None =>
    /\ latest_payload.payload_id = PayloadIdOf(list)
    /\ latest_payload.index = Len(list) - 1

\* Only a failed build leaves a collection without its block.
Whole ==
  ~failed =>
    /\ BlockIsWhole
    /\ latest_payload = None =>
         IF lock = "free" THEN list = DefaultFlashblocks ELSE StartsNewPayload(list, processing)

\* The pending block is not newer than the collection.
Pending ==
  pending_block # None =>
    /\ TimestampOf(pending_block.payload_id) \in Nat
    /\ \/ TimestampOf(pending_block.payload_id) < BaseOf(list).timestamp
       \/ /\ pending_block.payload_id = PayloadIdOf(list)
          /\ pending_block.index <= Len(list) - 1

\* What relates the collection to the blocks built on it.
Committed == Collection /\ Locking /\ Latest /\ Whole /\ Pending

\* Each flashblock but those with index 0 comes right after its predecessor.
Gapless(s) ==
  \A k \in 1 .. Len(s) : s[k].index > 0 =>
    /\ k > 1
    /\ s[k - 1].payload_id = s[k].payload_id
    /\ s[k - 1].index = s[k].index - 1

EndsWith(s, id, i) == s # <<>> /\ s[Len(s)].payload_id = id /\ s[Len(s)].index = i

\* What the stream has yielded and what it will yield of its clone.
InHand == consumed \o snapshot

\* Whatever flashblock_tx yields next continues what the stream has in hand.
\* When it has read flashblock_tx to its end, that is about the next flashblock
\* to be emitted, the one at the frontier.
Joined ==
  /\ phase = "none" => consumed = <<>> /\ snapshot = <<>>
  /\ ~raced =>
       /\ Gapless(InHand)
       /\ \/ phase = "none"
          \/ /\ phase = "snapshot" \/ cursor = Len(flashblock_tx)
             /\ flashblock_index > 0 => EndsWith(InHand, payload_id, flashblock_index - 1)
          \/ /\ phase \in {"live", "ended"} /\ cursor < Len(flashblock_tx)
             /\ LET next == flashblock_tx[cursor + 1]
                IN next.index > 0 => EndsWith(InHand, next.payload_id, next.index - 1)

\* The collection has caught up with the first n flashblocks of the stream.
HasRead(n) ==
  \A k \in 1 .. n :
    CaughtUpWith(consumed[k]) /\ TimestampOf(consumed[k].payload_id) \in Nat

\* ... and with every one but the one it is working on.
Processed ==
  IF pc \in {"process", "decode", "build"}
    THEN /\ consumed # <<>> /\ processing = consumed[Len(consumed)]
         /\ FirstOnesHaveBase /\ ~failed /\ ~raced => HasRead(Len(consumed) - 1)
    ELSE FirstOnesHaveBase /\ ~failed /\ ~raced => HasRead(Len(consumed))

\* The inductive invariant, on top of that of the protocol state.
ExecInv == OtherTypes /\ JobBase /\ Committed

-----------------------------------------------------------------------------
(***************************************************************************)
(* What the assumptions say of a flashblock.                               *)
(***************************************************************************)
LEMMA FlashblockFacts ==
  ASSUME NEW fb \in Flashblock
  PROVE  /\ fb.payload_id \in PayloadId /\ fb.payload_id # NoPayload /\ fb.index \in Nat
         /\ fb # None
         /\ fb.base # None =>
              fb.base.timestamp \in Nat \ {0} /\ fb.base.timestamp = TimestampOf(fb.payload_id)
<1>1. fb.payload_id \in PayloadId /\ fb.payload_id # NoPayload /\ fb.index \in Nat /\ fb # None
  BY P2PAssumption
<1>2. ASSUME fb.base # None
      PROVE  fb.base.timestamp \in Nat \ {0} /\ fb.base.timestamp = TimestampOf(fb.payload_id)
  <2>1. fb.base.timestamp \in Nat \ {0}
    BY <1>2, ExecutorAssumption
  <2> DEFINE P(gb) == gb.payload_id = fb.payload_id /\ gb.base # None
             chosen == CHOOSE gb \in Flashblock : P(gb)
  <2>2. chosen \in Flashblock /\ P(chosen)
    BY <1>2
  <2>3. chosen.base.timestamp = fb.base.timestamp
    BY <1>2, <2>2, TimestampAssumption
  <2>4. TimestampOf(fb.payload_id) = chosen.base.timestamp
    BY <1>1 DEF TimestampOf
  <2> QED  BY <2>1, <2>3, <2>4
<1> QED  BY <1>1, <1>2

(***************************************************************************)
(* What push makes of the collection (primitives.rs:543-593).              *)
(***************************************************************************)
LEMMA PushFacts ==
  ASSUME Collection, NEW fb \in Flashblock, Accepts(list, fb)
  PROVE  LET pushed == Push(list, fb)
         IN /\ pushed \in Seq(Flashblock) /\ WellFormed(pushed)
            /\ PayloadIdOf(pushed) = fb.payload_id /\ Len(pushed) = fb.index + 1
            /\ BaseOf(pushed).timestamp \in Nat
            /\ BaseOf(pushed).timestamp = TimestampOf(PayloadIdOf(pushed))
            /\ StartsNewPayload(list, fb) => BaseOf(pushed).timestamp > BaseOf(list).timestamp
            /\ ~StartsNewPayload(list, fb) =>
                 /\ BaseOf(pushed) = BaseOf(list)
                 /\ fb.payload_id = PayloadIdOf(list) /\ fb.index = Len(list)
<1>1. CASE StartsNewPayload(list, fb)
  <2>1. Push(list, fb) = <<fb>> /\ fb.index = 0 /\ fb.base # None
    BY <1>1 DEF Push, StartsNewPayload
  <2>2. <<fb>> \in Seq(Flashblock) /\ WellFormed(<<fb>>)
    BY <2>1 DEF WellFormed
  <2>3. fb.base.timestamp > BaseOf(list).timestamp
    BY <1>1 DEF StartsNewPayload
  <2> QED  BY <1>1, <2>1, <2>2, <2>3, FlashblockFacts DEF PayloadIdOf, BaseOf
<1>2. CASE ~StartsNewPayload(list, fb)
  <2>1. fb.payload_id = PayloadIdOf(list) /\ fb.index = Len(list)
    BY <1>2 DEF Accepts, ContinuesPayload
  <2>2. list \in Seq(Flashblock)
    <3>1. PayloadIdOf(DefaultFlashblocks) = NoPayload
      BY DEF PayloadIdOf, DefaultFlashblocks
    <3> QED  BY <2>1, <3>1, FlashblockFacts DEF Collection
  <2>3. Push(list, fb) = Append(list, fb) /\ Append(list, fb) \in Seq(Flashblock)
    BY <1>2, <2>2 DEF Push
  <2>4. Head(Append(list, fb)) = Head(list) /\ Len(Append(list, fb)) = Len(list) + 1
    BY <2>2 DEF Collection, WellFormed
  <2>5. WellFormed(Append(list, fb))
    BY <2>1, <2>2, <2>4 DEF Collection, WellFormed, PayloadIdOf
  <2> QED  BY <1>2, <2>1, <2>3, <2>4, <2>5 DEF Collection, PayloadIdOf, BaseOf
<1> QED  BY <1>1, <1>2

(***************************************************************************)
(* The flashblock of a local job is one of the wire, with its index.       *)
(***************************************************************************)
LEMMA JobFlashblockFacts ==
  ASSUME OtherTypes, JobBase, job # 0, block_number < MaxBlocksPerJob
  PROVE  /\ JobFlashblock \in Flashblock
         /\ JobFlashblock.payload_id = Jobs[job].payload_id
         /\ JobFlashblock.index = block_number /\ block_number \in Nat
<1>1. MaxBlocksPerJob \in Nat /\ Jobs \in Seq({Jobs[j] : j \in DOMAIN Jobs})
  BY ExecutorAssumption
<1>2. job \in DOMAIN Jobs /\ block_number \in 0 .. MaxBlocksPerJob - 1
  BY <1>1 DEF OtherTypes
<1>3. JobFlashblock = [payload_id |-> Jobs[job].payload_id, index |-> block_number,
                       oversize |-> FALSE, base |-> Jobs[job].base]
  BY DEF JobFlashblock, JobBase
<1>4. JobFlashblock \in Flashblock
  BY <1>2, <1>3, ExecutorAssumption
<1> QED  BY <1>2, <1>3, <1>4

(***************************************************************************)
(* publish only ever appends to the stream (p2p.rs:322-343).               *)
(***************************************************************************)
LEMMA StreamGrows ==
  ASSUME IInv, NEW fb \in Flashblock, Publish(fb)
  PROVE  Len(flashblock_tx') \in Nat /\ Len(flashblock_tx') >= Len(flashblock_tx)
<1>0. flashblock_tx \in Seq(Flashblock)
  BY DEF IInv, P2PTypeOK
<1>1. CASE UNCHANGED flashblock_tx
  BY <1>0, <1>1
<1>2. CASE CacheAndBroadcast(fb)
  <2> DEFINE lo == FrontierFor(fb)
             buffer == flashblocks'
  <2>1. lo \in 0 .. (MAX_FLASHBLOCK_INDEX + 1)
        /\ BufferFor(fb) \in [Slot -> Flashblock \cup {None}]
    BY ResetFacts
  <2>2. buffer \in [Slot -> Flashblock \cup {None}]
    BY <1>2, <2>1 DEF CacheAndBroadcast
  <2>3. PICK hi \in lo .. (MAX_FLASHBLOCK_INDEX + 1) :
          /\ \A i \in lo .. (hi - 1) : Ready(buffer, i)
          /\ flashblock_tx' = flashblock_tx \o Run(buffer, lo, hi)
    BY <1>2 DEF CacheAndBroadcast, EmitConsecutive
  <2>4. lo \in Nat /\ hi \in Nat /\ lo <= hi
    BY <2>1, <2>3, P2PAssumption
  <2>5. Run(buffer, lo, hi) \in Seq(Flashblock)
    BY <2>2, <2>3, <2>4, RunFacts
  <2> QED  BY <1>0, <2>3, <2>5
<1> QED  BY <1>1, <1>2 DEF Publish, RejectIndex, AlreadyCached, CacheOversize, p2pVars

(***************************************************************************)
(* What a stream between its two halves misses of a publish is a part of   *)
(* what was emitted (p2p.rs:213-221).                                      *)
(***************************************************************************)
LEMMA MissedIsEmitted ==
  ASSUME IInv, OtherTypes, NEW fb \in Flashblock, PublishNoting(fb)
  PROVE  missed' \subseteq 1 .. Len(flashblock_tx')
<1>1. /\ missed \subseteq 1 .. Len(flashblock_tx) /\ Len(flashblock_tx) \in Nat
      /\ Len(flashblock_tx') \in Nat /\ Len(flashblock_tx') >= Len(flashblock_tx)
  BY StreamGrows DEF PublishNoting, OtherTypes, IInv, P2PTypeOK
<1>2. \/ missed' = missed
      \/ missed' = missed \cup (Len(flashblock_tx) + 1) .. Len(flashblock_tx')
  BY DEF PublishNoting
<1>3. 1 .. Len(flashblock_tx) \subseteq 1 .. Len(flashblock_tx')
  BY <1>1
<1>4. (Len(flashblock_tx) + 1) .. Len(flashblock_tx') \subseteq 1 .. Len(flashblock_tx')
  BY <1>1
<1> QED  BY <1>1, <1>2, <1>3, <1>4, Zenon

-----------------------------------------------------------------------------
(***************************************************************************)
(* The executor publishes a flashblock or leaves the protocol state alone. *)
(***************************************************************************)
LEMMA ExecStepIsP2P ==
  ASSUME OtherTypes, JobBase, [ExecNext]_vars
  PROVE  [Next]_p2pVars
<1> USE DEF vars, p2pVars
<1>1. ASSUME NEW fb \in Flashblock, Deliver(fb) PROVE Next
  BY <1>1 DEF Deliver, PublishNoting, Next
<1>2. CASE PublishStep
  <2>1. CASE UNCHANGED p2pVars
    BY <2>1
  <2>2. CASE Publish(JobFlashblock)
    <3>1. JobFlashblock \in Flashblock
      BY <1>2, JobFlashblockFacts DEF PublishStep
    <3> QED  BY <2>2, <3>1 DEF Next
  <2> QED  BY <1>2, <2>1, <2>2 DEF PublishStep, PublishBuiltPayload, PublishNoting
<1>3. ASSUME NEW h \in Hash, HeaderArrives(h) PROVE UNCHANGED p2pVars
  BY <1>3 DEF HeaderArrives
<1>4. CASE TakeSnapshot \/ Subscribe
  BY <1>4 DEF TakeSnapshot, Subscribe
<1>5. CASE Executor
  BY <1>5 DEF Executor, StreamNext, StreamLags, SkipBuilt, RejectOutOfOrder, Begin,
              FetchHeader, Fail, Build
<1>6. CASE RegisterPayloadEvents \/ StartJob \/ EndJob
  BY <1>6 DEF RegisterPayloadEvents, StartJob, EndJob
<1> QED  BY <1>1, <1>2, <1>3, <1>4, <1>5, <1>6 DEF ExecNext

(***************************************************************************)
(* The initial state satisfies the invariant.                              *)
(***************************************************************************)
LEMMA InitExecInv == ExecInit => IInv /\ ExecInv
<1> SUFFICES ASSUME ExecInit PROVE IInv /\ ExecInv
  OBVIOUS
<1> USE DEF ExecInit
<1>1. IInv
  BY InitIInv
<1>2. Collection
  <2>1. WellFormed(DefaultFlashblocks)
    BY ExecutorAssumption DEF WellFormed, DefaultFlashblocks, BaseOf
  <2>2. PayloadIdOf(DefaultFlashblocks) = NoPayload /\ BaseOf(DefaultFlashblocks).timestamp = 0
    BY DEF DefaultFlashblocks, PayloadIdOf, BaseOf
  <2> QED  BY <2>1, <2>2 DEF Collection, TimestampOf
<1>3. OtherTypes
  <2>1. Len(Jobs) \in Nat /\ MaxBlocksPerJob \in Nat /\ MaxDeliveries \in Nat
    BY ExecutorAssumption
  <2>2. 0 \in 0 .. Len(flashblock_tx)
    BY DEF Init
  <2>3. events \in Seq(BuiltPayload) /\ snapshot \in Seq(Flashblock)
        /\ consumed \in Seq(Flashblock)
    OBVIOUS
  <2>4. /\ cursor \in 0 .. Len(flashblock_tx)
        /\ job \in 0 .. Len(Jobs) /\ jobs_done \in 0 .. Len(Jobs)
        /\ block_number \in 0 .. MaxBlocksPerJob /\ deliveries \in 0 .. MaxDeliveries
    BY <2>1, <2>2
  <2>5. /\ latest_payload \in BuiltPayload \cup {None}
        /\ pending_block \in BuiltPayload \cup {None}
        /\ processing \in Flashblock \cup {None} /\ known \subseteq Hash
    OBVIOUS
  <2>6. /\ payload_events \in BOOLEAN /\ raced \in BOOLEAN /\ failed \in BOOLEAN
        /\ lock \in {"free", "executor"} /\ phase \in {"none", "snapshot", "live", "ended"}
        /\ pc \in {"next", "process", "decode", "build", "done"}
    OBVIOUS
  <2>7. missed \subseteq 1 .. Len(flashblock_tx)
    OBVIOUS
  <2> QED  BY <2>3, <2>4, <2>5, <2>6, <2>7, Zenon DEF OtherTypes
<1>4. JobBase /\ Locking /\ Latest /\ Whole /\ Pending
  BY DEF JobBase, Locking, Latest, Whole, BlockIsWhole, Pending
<1> QED  BY <1>1, <1>2, <1>3, <1>4 DEF ExecInv, Committed

(***************************************************************************)
(* What the stream yields is a flashblock, and it reads no further than    *)
(* what was sent.                                                          *)
(***************************************************************************)
LEMMA StreamNextFacts ==
  ASSUME IInv, OtherTypes, StreamNext
  PROVE  /\ processing' \in Flashblock /\ snapshot' \in Seq(Flashblock)
         /\ cursor' \in 0 .. Len(flashblock_tx)
         /\ consumed' \in Seq(Flashblock) /\ pc' = "process"
<1>1. flashblock_tx \in Seq(Flashblock)
  BY DEF IInv, P2PTypeOK
<1>2. /\ CAPACITY \in Nat /\ snapshot \in Seq(Flashblock) /\ consumed \in Seq(Flashblock)
      /\ cursor \in 0 .. Len(flashblock_tx)
  BY ExecutorAssumption DEF OtherTypes
<1>3. /\ processing' \in Flashblock /\ snapshot' \in Seq(Flashblock)
      /\ cursor' \in 0 .. Len(flashblock_tx)
      /\ consumed' = Append(consumed, processing') /\ pc' = "process"
  <2>1. CASE snapshot # <<>> /\ StreamYields(Head(snapshot)) /\ snapshot' = Tail(snapshot)
             /\ UNCHANGED cursor
    BY <2>1, <1>2 DEF StreamYields
  <2>2. CASE /\ Len(flashblock_tx) - cursor \in 1 .. CAPACITY
             /\ StreamYields(flashblock_tx[cursor + 1])
             /\ cursor' = cursor + 1 /\ UNCHANGED snapshot
    <3>1. cursor + 1 \in 1 .. Len(flashblock_tx)
      BY <2>2, <1>1, <1>2
    <3> QED  BY <2>2, <3>1, <1>1, <1>2 DEF StreamYields
  <2> QED  BY <2>1, <2>2 DEF StreamNext
<1> QED  BY <1>2, <1>3

(***************************************************************************)
(* The types and the base of the running job are preserved by every step   *)
(* but the two that build a block.                                         *)
(***************************************************************************)
LEMMA TypesPreserved ==
  ASSUME IInv, ExecInv, ExecNext, ~PublishStep, ~Build
  PROVE  OtherTypes' /\ JobBase'
<1> USE DEF ExecInv, innerVars, outVars, streamVars, jobVars, p2pVars
<1>1. ASSUME NEW fb \in Flashblock, Deliver(fb) PROVE OtherTypes' /\ JobBase'
  <2>1. cursor \in 0 .. Len(flashblock_tx')
    BY <1>1, StreamGrows DEF Deliver, PublishNoting, OtherTypes
  <2>2. raced' \in BOOLEAN /\ deliveries' \in 0 .. MaxDeliveries
    BY <1>1, ExecutorAssumption DEF Deliver, PublishNoting, OtherTypes
  <2>3. missed' \subseteq 1 .. Len(flashblock_tx')
    BY <1>1, MissedIsEmitted DEF Deliver
  <2> QED  BY <1>1, <2>1, <2>2, <2>3 DEF Deliver, PublishNoting, OtherTypes, JobBase
<1>2. ASSUME NEW h \in Hash, HeaderArrives(h) PROVE OtherTypes' /\ JobBase'
  BY <1>2 DEF HeaderArrives, OtherTypes, JobBase
<1>3. CASE TakeSnapshot
  <2>1. snapshot' \in Seq(Flashblock)
    <3>1. PICK hi \in 0 .. (MAX_FLASHBLOCK_INDEX + 1) :
            /\ \A i \in 0 .. (hi - 1) : Ready(flashblocks, i)
            /\ snapshot' = Run(flashblocks, 0, hi)
      BY <1>3 DEF TakeSnapshot
    <3>2. hi \in Nat /\ flashblocks \in [Slot -> Flashblock \cup {None}]
      BY P2PAssumption DEF IInv, P2PTypeOK
    <3> QED  BY <3>1, <3>2, RunFacts
  <2>2. raced' \in BOOLEAN
    BY <1>3, Zenon DEF TakeSnapshot, Ready
  <2>3. missed' \subseteq 1 .. Len(flashblock_tx')
    <3>1. /\ missed' = 1 .. (Len(flashblock_tx) - flashblock_index)
          /\ flashblock_tx' = flashblock_tx
      BY <1>3 DEF TakeSnapshot, OfOlderPayloads
    <3>2. Len(flashblock_tx) \in Nat /\ flashblock_index \in Nat
      BY P2PAssumption DEF IInv, P2PTypeOK
    <3> QED  BY <3>1, <3>2
  <2> QED  BY <1>3, <2>1, <2>2, <2>3 DEF TakeSnapshot, OtherTypes, JobBase
<1>4. CASE Subscribe
  <2>1. Len(flashblock_tx) \in Nat
    BY DEF IInv, P2PTypeOK
  <2> QED  BY <1>4, <2>1 DEF Subscribe, OtherTypes, JobBase
<1>5. CASE StreamNext
  BY <1>5, StreamNextFacts DEF StreamNext, OtherTypes, JobBase
<1>6. CASE StreamLags
  BY <1>6 DEF StreamLags, OtherTypes, JobBase
<1>7. CASE SkipBuilt
  BY <1>7 DEF SkipBuilt, OtherTypes, JobBase
<1>8. CASE RejectOutOfOrder
  BY <1>8 DEF RejectOutOfOrder, OtherTypes, JobBase
<1>9. CASE Begin
  BY <1>9 DEF Begin, OtherTypes, JobBase
<1>10. CASE FetchHeader
  BY <1>10 DEF FetchHeader, OtherTypes, JobBase
<1>11. CASE Fail
  BY <1>11 DEF Fail, OtherTypes, JobBase
<1>12. CASE RegisterPayloadEvents
  BY <1>12 DEF RegisterPayloadEvents, OtherTypes, JobBase
<1>13. CASE StartJob
  <2>1. Len(Jobs) \in Nat
    BY ExecutorAssumption
  <2>2. job' \in 0 .. Len(Jobs)
    BY <1>13, <2>1 DEF StartJob, OtherTypes
  <2> QED  BY <1>13, <2>2 DEF StartJob, OtherTypes, JobBase
<1>14. CASE EndJob
  BY <1>14, ExecutorAssumption DEF EndJob, OtherTypes, JobBase
<1> QED  BY <1>1, <1>2, <1>3, <1>4, <1>5, <1>6, <1>7, <1>8, <1>9, <1>10, <1>11, <1>12,
            <1>13, <1>14 DEF ExecNext, Executor

(***************************************************************************)
(* A block that either task builds keeps the types.                        *)
(***************************************************************************)
LEMMA BuildTypes ==
  ASSUME IInv, ExecInv, PublishStep \/ Build
  PROVE  OtherTypes' /\ JobBase' /\ (Build => latest_payload' \in BuiltPayload)
<1> USE DEF ExecInv, Committed, innerVars, outVars, streamVars, jobVars, p2pVars
<1>0. PublishStep => ~Build
  BY DEF PublishStep, Build, Locking
<1>1. ASSUME PublishStep PROVE OtherTypes' /\ JobBase'
  <2>1. block_number' \in 0 .. MaxBlocksPerJob
    BY <1>1, ExecutorAssumption DEF PublishStep, OtherTypes
  <2>2. CASE UNCHANGED <<p2pVars, streamVars, list, latest_payload>>
    BY <1>1, <2>1, <2>2 DEF PublishStep, OtherTypes, JobBase
  <2>3. CASE latest_payload' = JobPayload /\ PublishNoting(JobFlashblock)
    <3>1. JobFlashblock \in Flashblock /\ Jobs[job].payload_id \in PayloadId
          /\ block_number \in Nat
      BY <1>1, JobFlashblockFacts, FlashblockFacts DEF PublishStep
    <3>2. latest_payload' \in BuiltPayload
      BY <2>3, <3>1 DEF JobPayload, BuiltPayload
    <3>3. cursor \in 0 .. Len(flashblock_tx')
      BY <2>3, <3>1, StreamGrows DEF PublishNoting, OtherTypes
    <3>4. raced' \in BOOLEAN /\ UNCHANGED <<phase, snapshot, cursor, consumed>>
      BY <2>3 DEF PublishNoting, OtherTypes
    <3>5. missed' \subseteq 1 .. Len(flashblock_tx')
      BY <2>3, <3>1, MissedIsEmitted
    <3> QED  BY <1>1, <2>1, <3>2, <3>3, <3>4, <3>5 DEF PublishStep, OtherTypes, JobBase
  <2> QED  BY <1>1, <2>2, <2>3 DEF PublishStep, PublishBuiltPayload
<1>2. ASSUME Build PROVE OtherTypes' /\ JobBase' /\ latest_payload' \in BuiltPayload
  <2>1. processing \in Flashblock
    BY <1>2 DEF Build, Locking
  <2>2. latest_payload' \in BuiltPayload
    <3>1. processing.payload_id \in PayloadId /\ processing.index \in Nat
      BY <2>1, FlashblockFacts
    <3>2. latest_payload # None =>
            latest_payload.executed \in SUBSET (PayloadId \X Nat)
      BY DEF OtherTypes, BuiltPayload
    <3>3. {<<processing.payload_id, processing.index>>} \cup
            (IF latest_payload = None THEN {} ELSE latest_payload.executed)
              \in SUBSET (PayloadId \X Nat)
      BY <3>1, <3>2
    <3> QED  BY <1>2, <3>1, <3>3 DEF Build, Execute, BuiltPayload
  <2>3. events' \in Seq(BuiltPayload)
    BY <1>2, <2>2, AppendFacts DEF Build, OtherTypes
  <2>4. pending_block' \in BuiltPayload
    BY <1>2, <2>2 DEF Build
  <2> QED  BY <1>2, <2>2, <2>3, <2>4 DEF Build, OtherTypes, JobBase
<1> QED  BY <1>0, <1>1, <1>2

(***************************************************************************)
(* A push by either task moves the collection on, past the pending block.  *)
(***************************************************************************)
LEMMA PushPreserves ==
  ASSUME Collection, OtherTypes, NEW fb \in Flashblock, Accepts(list, fb), list' = Push(list, fb)
  PROVE  /\ Collection'
         /\ PayloadIdOf(list') = fb.payload_id /\ Len(list') - 1 = fb.index
         /\ Pending /\ UNCHANGED pending_block => Pending'
<1>1. Collection' /\ PayloadIdOf(list') = fb.payload_id /\ Len(list') - 1 = fb.index
  BY PushFacts, FlashblockFacts DEF Collection
<1>2. ASSUME Pending, UNCHANGED pending_block PROVE Pending'
  <2> SUFFICES ASSUME pending_block # None PROVE Pending'
    BY <1>2 DEF Pending
  <2>0. pending_block \in BuiltPayload
    BY DEF OtherTypes
  <2> DEFINE t == TimestampOf(pending_block.payload_id)
  <2>1. t \in Nat /\ t <= BaseOf(list).timestamp
    BY <1>2 DEF Pending, Collection
  <2>2. CASE StartsNewPayload(list, fb)
    <3>1. t < BaseOf(list').timestamp
      BY <2>1, <2>2, PushFacts DEF Collection
    <3> HIDE DEF t
    <3> QED  BY <1>2, <2>1, <3>1 DEF Pending, t
  <2>3. CASE ~StartsNewPayload(list, fb)
    <3>1. BaseOf(list') = BaseOf(list) /\ PayloadIdOf(list') = PayloadIdOf(list)
          /\ Len(list') = Len(list) + 1
      BY <2>3, PushFacts, FlashblockFacts
    <3>2. CASE t < BaseOf(list).timestamp
      BY <1>2, <2>1, <3>1, <3>2 DEF Pending
    <3>3. CASE pending_block.payload_id = PayloadIdOf(list)
               /\ pending_block.index <= Len(list) - 1
      <4>1. pending_block.index \in Nat /\ Len(list) \in Nat
        BY <2>0, FlashblockFacts DEF OtherTypes, BuiltPayload, Collection, DefaultFlashblocks
      <4>2. pending_block.index <= Len(list') - 1
        BY <3>1, <3>3, <4>1
      <4> QED  BY <4>2, <1>2, <2>1, <3>1, <3>3, <4>1 DEF Pending
    <3> QED  BY <1>2, <3>2, <3>3 DEF Pending
  <2> QED  BY <2>2, <2>3
<1> QED  BY <1>1, <1>2

(***************************************************************************)
(* The collection and what is built on it are preserved by the steps that  *)
(* push nothing.                                                           *)
(***************************************************************************)
LEMMA RestPreserved ==
  ASSUME IInv, ExecInv, ExecNext, ~PublishStep, ~Build
  PROVE  Committed'
<1> USE DEF ExecInv, innerVars, outVars, streamVars, jobVars, p2pVars
<1>1. ASSUME UNCHANGED <<list, latest_payload, lock, pending_block, pc, processing, failed>>
      PROVE  Committed'
  BY <1>1 DEF Committed, Collection, Locking, Latest, Whole, BlockIsWhole, Pending
<1>2. CASE \/ \E fb \in Flashblock : Deliver(fb)
           \/ \E h \in Hash : HeaderArrives(h)
           \/ TakeSnapshot \/ Subscribe \/ RegisterPayloadEvents \/ StartJob \/ EndJob
  <2>1. UNCHANGED <<list, latest_payload, lock, pending_block, pc, processing, failed>>
    BY <1>2 DEF Deliver, HeaderArrives, TakeSnapshot, Subscribe, RegisterPayloadEvents,
                StartJob, EndJob
  <2> QED  BY <1>1, <2>1
<1>3. ASSUME UNCHANGED <<list, latest_payload, pending_block, failed>>, lock = "free",
             UNCHANGED lock, pc' \in {"next", "process", "done"},
             pc' = "process" => processing' \in Flashblock
      PROVE  Committed'
  BY <1>3 DEF Committed, Collection, Locking, Latest, Whole, BlockIsWhole, Pending
<1>4. CASE StreamNext \/ StreamLags
  <2>1. pc' = "process" => processing' \in Flashblock
    BY <1>4, StreamNextFacts DEF StreamLags
  <2>2. lock = "free"
    BY <1>4 DEF StreamNext, StreamLags, Committed, Locking, OtherTypes
  <2>3. UNCHANGED <<list, latest_payload, pending_block, failed, lock>>
        /\ pc' \in {"process", "done"}
    BY <1>4 DEF StreamNext, StreamYields, StreamLags
  <2> QED  BY <1>3, <2>1, <2>2, <2>3
<1>5. CASE RejectOutOfOrder
  <2> QED  BY <1>3, <1>5 DEF RejectOutOfOrder
<1>6. CASE SkipBuilt
  <2>1. Collection' /\ Locking' /\ Latest' /\ Whole'
    BY <1>6 DEF SkipBuilt, Committed, Collection, Locking, Latest, Whole, BlockIsWhole
  <2>2. pending_block' = latest_payload /\ latest_payload # None /\ UNCHANGED list
    BY <1>6 DEF SkipBuilt, AlreadyBuilt
  <2>3. latest_payload.payload_id = PayloadIdOf(list) /\ latest_payload.index = Len(list) - 1
        /\ latest_payload.index \in Nat
    BY <2>2 DEF Committed, Latest, OtherTypes, BuiltPayload
  <2>4. TimestampOf(latest_payload.payload_id) \in Nat
    BY <2>3 DEF Committed, Collection
  <2>5. Pending'
    BY <2>2, <2>3, <2>4 DEF Pending
  <2> QED  BY <2>1, <2>5 DEF Committed
<1>7. CASE Begin
  <2>1. /\ UNCHANGED <<list, pending_block, processing, failed>>
        /\ lock = "free" /\ lock' = "executor" /\ pc' = "decode" /\ Accepts(list, processing)
        /\ latest_payload' = IF StartsNewPayload(list, processing) THEN None ELSE latest_payload
        /\ processing \in Flashblock
    BY <1>7 DEF Begin, Committed, Locking
  <2>2. Collection' /\ Pending'
    BY <2>1 DEF Committed, Collection, Pending
  <2>3. Locking' /\ Latest'
    BY <2>1 DEF Committed, Locking, Latest
  <2>4. ASSUME ~failed, latest_payload' = None PROVE StartsNewPayload(list, processing)
    <3> SUFFICES ASSUME ~StartsNewPayload(list, processing) PROVE FALSE
      OBVIOUS
    <3>1. list = DefaultFlashblocks
      BY <2>1, <2>4 DEF Committed, Whole
    <3>2. processing.payload_id = NoPayload
      BY <2>1, <3>1 DEF Accepts, ContinuesPayload, PayloadIdOf, DefaultFlashblocks
    <3> QED  BY <2>1, <3>2, FlashblockFacts
  <2>5. Whole'
    BY <2>1, <2>4 DEF Committed, Whole, BlockIsWhole
  <2> QED  BY <2>2, <2>3, <2>5 DEF Committed
<1>8. CASE FetchHeader
  BY <1>8 DEF FetchHeader, Committed, Collection, Locking, Latest, Whole, BlockIsWhole, Pending
<1>9. CASE Fail
  <2>1. Collection' /\ Locking' /\ Latest' /\ Pending'
    BY <1>9 DEF Fail, Committed, Collection, Locking, Latest, Pending
  <2>2. Whole'
    BY <1>9 DEF Fail, Whole
  <2> QED  BY <2>1, <2>2 DEF Committed
<1> QED  BY <1>2, <1>4, <1>5, <1>6, <1>7, <1>8, <1>9 DEF ExecNext, Executor

(***************************************************************************)
(* ... and by the two that push a flashblock with its block.               *)
(***************************************************************************)
LEMMA BuildPreserves ==
  ASSUME IInv, ExecInv, PublishStep \/ Build
  PROVE  Committed'
<1> USE DEF ExecInv, Committed, innerVars, outVars, streamVars, jobVars, p2pVars
<1>0. None \notin BuiltPayload /\ OtherTypes'
  BY ExecutorAssumption, BuildTypes
<1>1. CASE PublishStep
  <2>1. /\ UNCHANGED <<lock, pending_block, pc, processing, failed>>
        /\ lock = "free"
    BY <1>1 DEF PublishStep
  <2>2. CASE UNCHANGED <<list, latest_payload>>
    BY <2>1, <2>2 DEF Collection, Locking, Latest, Whole, BlockIsWhole, Pending
  <2>3. CASE /\ Accepts(list, JobFlashblock)
             /\ list' = Push(list, JobFlashblock)
             /\ latest_payload' = JobPayload
    <3>1. /\ JobFlashblock \in Flashblock
          /\ JobFlashblock.payload_id = Jobs[job].payload_id
          /\ JobFlashblock.index = block_number /\ block_number \in Nat
      BY <1>1, JobFlashblockFacts DEF PublishStep
    <3>2. /\ Collection' /\ Pending'
          /\ PayloadIdOf(list') = Jobs[job].payload_id /\ Len(list') - 1 = block_number
      BY <2>1, <2>3, <3>1, PushPreserves
    <3>3. Latest'
      BY <2>3, <3>2 DEF Latest, JobPayload
    <3>4. latest_payload' # None
      BY <1>1, <2>3, <3>1, FlashblockFacts, ExecutorAssumption DEF JobPayload, BuiltPayload
    <3>5. BlockIsWhole'
      BY <2>3, <3>4 DEF BlockIsWhole, JobPayload
    <3>6. Whole'
      BY <3>4, <3>5 DEF Whole
    <3>7. Locking'
      BY <2>1 DEF Locking
    <3> QED  BY <3>2, <3>3, <3>6, <3>7
  <2> QED  BY <1>1, <2>2, <2>3 DEF PublishStep, PublishBuiltPayload
<1>2. CASE Build
  <2> DEFINE fb == processing
  <2>1. /\ fb \in Flashblock /\ Accepts(list, fb)
        /\ latest_payload # None => ~StartsNewPayload(list, fb)
        /\ lock = "executor"
    BY <1>2 DEF Build, Locking
  <2>2. /\ list' = Push(list, fb) /\ latest_payload' = Execute(fb)
        /\ pending_block' = latest_payload' /\ lock' = "free" /\ pc' = "next"
        /\ UNCHANGED <<failed, processing>>
    BY <1>2 DEF Build
  <2>3. /\ Collection'
        /\ PayloadIdOf(list') = fb.payload_id /\ Len(list') - 1 = fb.index
    BY <2>1, <2>2, PushPreserves
  <2>4. /\ latest_payload' = [payload_id |-> fb.payload_id, index |-> fb.index,
                              executed |-> Execute(fb).executed]
    BY <2>2 DEF Execute
  <2>5. latest_payload' # None /\ latest_payload'.payload_id = fb.payload_id
        /\ latest_payload'.index = fb.index /\ fb.index \in Nat
    <3>1. fb.index \in Nat
      BY <2>1, FlashblockFacts
    <3>2. latest_payload' \in BuiltPayload
      BY <1>2, BuildTypes
    <3> QED  BY <3>1, <3>2, <2>4, <1>0
  <2>6. Latest'
    BY <2>3, <2>5 DEF Latest
  <2>7. Locking'
    BY <2>2 DEF Locking
  <2>8. Pending'
    <3>1. TimestampOf(fb.payload_id) \in Nat
      BY <2>3 DEF Collection
    <3> QED  BY <3>1, <2>2, <2>3, <2>5 DEF Pending
  <2>9. ASSUME ~failed PROVE BlockIsWhole'
    <3>1. CASE latest_payload = None
      <4>1. StartsNewPayload(list, fb)
        BY <3>1, <2>1, <2>9 DEF Whole
      <4>2. fb.index = 0 /\ latest_payload'.executed = {<<fb.payload_id, fb.index>>}
        BY <3>1, <4>1, <2>2 DEF StartsNewPayload, Execute
      <4>3. {<<fb.payload_id, i>> : i \in 0 .. 0} = {<<fb.payload_id, 0>>}
        OBVIOUS
      <4> QED  BY <4>2, <4>3, <2>5 DEF BlockIsWhole
    <3>2. CASE latest_payload # None
      <4>1. fb.payload_id = PayloadIdOf(list) /\ fb.index = Len(list)
        BY <3>2, <2>1 DEF Accepts, ContinuesPayload
      <4>2. /\ latest_payload.payload_id = fb.payload_id
            /\ latest_payload.index = fb.index - 1
        BY <3>2, <4>1 DEF Latest
      <4>3. latest_payload.executed = {<<fb.payload_id, i>> : i \in 0 .. fb.index - 1}
        BY <3>2, <4>2, <2>9 DEF Whole, BlockIsWhole
      <4>4. latest_payload'.executed = {<<fb.payload_id, fb.index>>} \cup latest_payload.executed
        BY <3>2, <2>2 DEF Execute
      <4>5. {<<fb.payload_id, i>> : i \in 0 .. fb.index}
              = {<<fb.payload_id, fb.index>>} \cup {<<fb.payload_id, i>> : i \in 0 .. fb.index - 1}
        BY <2>5
      <4> QED  BY <4>3, <4>4, <4>5, <2>5 DEF BlockIsWhole
    <3> QED  BY <3>1, <3>2
  <2>10. Whole'
    BY <2>2, <2>5, <2>9 DEF Whole
  <2> QED  BY <2>3, <2>6, <2>7, <2>8, <2>10
<1> QED  BY <1>1, <1>2

(***************************************************************************)
(* Every step preserves the invariant.                                     *)
(***************************************************************************)
LEMMA NextExecInv == IInv /\ ExecInv /\ [ExecNext]_vars => IInv' /\ ExecInv'
<1> SUFFICES ASSUME IInv, ExecInv, [ExecNext]_vars PROVE IInv' /\ ExecInv'
  OBVIOUS
<1>1. IInv'
  BY ExecStepIsP2P, NextIInv DEF ExecInv
<1>2. CASE ExecNext
  <2>1. CASE PublishStep \/ Build
    BY <1>1, <2>1, BuildTypes, BuildPreserves DEF ExecInv
  <2>2. CASE ~PublishStep /\ ~Build
    BY <1>1, <1>2, <2>2, TypesPreserved, RestPreserved DEF ExecInv
  <2> QED  BY <2>1, <2>2
<1>3. CASE UNCHANGED vars
  <2> USE DEF vars, p2pVars, innerVars, outVars, streamVars, jobVars
  <2>1. OtherTypes' /\ JobBase'
    BY <1>3 DEF ExecInv, OtherTypes, JobBase
  <2>2. Committed'
    BY <1>3 DEF ExecInv, Committed, Collection, Locking, Latest, Whole, BlockIsWhole, Pending
  <2> QED  BY <1>1, <2>1, <2>2 DEF ExecInv
<1> QED  BY <1>2, <1>3

(***************************************************************************)
(* The invariant holds in every execution of the executor and the builder. *)
(***************************************************************************)
THEOREM ExecutorInvariance == ExecSpec => [](IInv /\ ExecInv)
<1> QED  BY InitExecInv, NextExecInv, PTL DEF ExecSpec

(***************************************************************************)
(* The composed system runs the p2p protocol: whatever is proved of        *)
(* FlashblocksP2P holds of the p2p state the executor and the builder use  *)
(* (p2p.rs:241-344).                                                       *)
(***************************************************************************)
THEOREM ExecutorRunsP2P == ExecSpec => Spec
<1>1. ExecInit => Init
  BY DEF ExecInit
<1>2. ExecInv /\ [ExecNext]_vars => [Next]_p2pVars
  BY ExecStepIsP2P DEF ExecInv
<1> QED  BY <1>1, <1>2, ExecutorInvariance, PTL DEF ExecSpec, Spec

(***************************************************************************)
(* Every variable of the executor, the builder and the stream keeps its    *)
(* type.                                                                   *)
(***************************************************************************)
THEOREM ExecutorTypeCorrect == ExecSpec => []TypeOK
<1>1. IInv /\ ExecInv => TypeOK
  <2> SUFFICES ASSUME IInv, ExecInv PROVE TypeOK
    OBVIOUS
  <2>1. Tail(list) \in Seq(Flashblock) /\ Head(list) \in Flashblock \cup {DefaultFlashblocks[1]}
    <3>1. CASE list = DefaultFlashblocks
      <4>1. Tail(DefaultFlashblocks) = <<>> /\ Head(DefaultFlashblocks) = DefaultFlashblocks[1]
        BY DEF DefaultFlashblocks
      <4>2. <<>> \in Seq(Flashblock)
        OBVIOUS
      <4> QED  BY <3>1, <4>1, <4>2
    <3>2. CASE list \in Seq(Flashblock)
      <4>1. list # <<>>
        BY DEF ExecInv, Committed, Collection, WellFormed
      <4> QED  BY <3>2, <4>1
    <3> QED  BY <3>1, <3>2 DEF ExecInv, Committed, Collection
  <2> QED  BY <2>1 DEF IInv, ExecInv, OtherTypes, TypeOK
<1> QED  BY <1>1, ExecutorInvariance, PTL

(***************************************************************************)
(* Whatever the builder and the executor push, and in whichever order, the *)
(* collection is one payload from its first flashblock on                  *)
(* (primitives.rs:490-494).                                                *)
(***************************************************************************)
THEOREM CollectionWellFormed == ExecSpec => []ListWellFormed
<1>1. ExecInv => ListWellFormed
  BY DEF ExecInv, Committed, Collection, ListWellFormed
<1> QED  BY <1>1, ExecutorInvariance, PTL

(***************************************************************************)
(* While nobody holds the lock, the latest payload is the block of the     *)
(* last flashblock of the collection (state.rs:128-130, 396-397).          *)
(***************************************************************************)
THEOREM LatestMatches == ExecSpec => []LatestMatchesList
<1>1. ExecInv => LatestMatchesList
  BY DEF ExecInv, Committed, Latest, LatestMatchesList
<1> QED  BY <1>1, ExecutorInvariance, PTL

(***************************************************************************)
(* As long as no build has failed, the latest payload holds every          *)
(* flashblock of its payload up to its index (state.rs:389-393).           *)
(***************************************************************************)
THEOREM WholeUnlessFailed == ExecSpec => []BlockIsWholeUnlessFailed
<1>1. ExecInv => BlockIsWholeUnlessFailed
  BY DEF ExecInv, Committed, Whole, BlockIsWholeUnlessFailed
<1> QED  BY <1>1, ExecutorInvariance, PTL

(***************************************************************************)
(* The pending block never goes back to an older block or to a shorter     *)
(* prefix of the same block (state.rs:281, 398).                           *)
(***************************************************************************)
THEOREM PendingOnlyAdvances == ExecSpec => PendingBlockNeverGoesBack
<1> DEFINE Advances == pending_block # None /\ pending_block' # pending_block =>
                         NotNewer(pending_block, pending_block')
<1>1. ExecInv /\ [ExecNext]_vars => [Advances]_vars
  <2> SUFFICES ASSUME ExecInv, ExecNext, pending_block # None, pending_block' # pending_block
               PROVE  NotNewer(pending_block, pending_block')
    OBVIOUS
  <2> USE DEF ExecInv, Committed
  <2> DEFINE t == TimestampOf(pending_block.payload_id)
  <2>1. SkipBuilt \/ Build
    BY DEF ExecNext, Executor, Deliver, HeaderArrives, TakeSnapshot, Subscribe, StreamNext,
           StreamLags, RejectOutOfOrder, Begin, FetchHeader, Fail, RegisterPayloadEvents,
           StartJob, PublishStep, EndJob, outVars
  <2>2. /\ t \in Nat /\ BaseOf(list).timestamp \in Nat
        /\ pending_block.index \in Nat
        /\ BaseOf(list).timestamp = TimestampOf(PayloadIdOf(list))
        /\ \/ t < BaseOf(list).timestamp
           \/ pending_block.payload_id = PayloadIdOf(list)
              /\ pending_block.index <= Len(list) - 1
    BY DEF Pending, Collection, OtherTypes, BuiltPayload
  <2>3. CASE SkipBuilt
    <3>1. /\ pending_block'.payload_id = PayloadIdOf(list)
          /\ pending_block'.index = Len(list) - 1
      BY <2>3 DEF SkipBuilt, AlreadyBuilt, Latest
    <3> QED  BY <2>2, <3>1 DEF NotNewer
  <2>4. CASE Build
    <3>1. processing \in Flashblock /\ Accepts(list, processing)
      BY <2>4 DEF Build, Locking
    <3>2. /\ pending_block'.payload_id = processing.payload_id
          /\ pending_block'.index = processing.index
      BY <2>4 DEF Build, Execute
    <3>3. /\ BaseOf(Push(list, processing)).timestamp = TimestampOf(processing.payload_id)
          /\ BaseOf(Push(list, processing)).timestamp \in Nat
      BY <3>1, PushFacts
    <3>4. CASE StartsNewPayload(list, processing)
      <4>1. BaseOf(Push(list, processing)).timestamp > BaseOf(list).timestamp
        BY <3>1, <3>4, PushFacts
      <4> QED  BY <2>2, <3>2, <3>3, <4>1 DEF NotNewer
    <3>5. CASE ~StartsNewPayload(list, processing)
      <4>1. processing.payload_id = PayloadIdOf(list) /\ processing.index = Len(list)
        BY <3>1, <3>5, PushFacts
      <4> QED  BY <2>2, <3>1, <3>2, <4>1, FlashblockFacts DEF NotNewer
    <3> QED  BY <3>4, <3>5
  <2> QED  BY <2>1, <2>3, <2>4
<1> QED  BY <1>1, ExecutorInvariance, PTL DEF ExecSpec, PendingBlockNeverGoesBack

-----------------------------------------------------------------------------
(***************************************************************************)
(* The stream yields the head of its clone (p2p.rs:213-228): what it has   *)
(* in hand stays the same.                                                 *)
(***************************************************************************)
LEMMA YieldHead ==
  ASSUME NEW c \in Seq(Flashblock), NEW s \in Seq(Flashblock), s # <<>>
  PROVE  Append(c, Head(s)) \o Tail(s) = c \o s
<1> DEFINE l == Append(c, Head(s)) \o Tail(s)
           r == c \o s
<1>1. /\ Head(s) \in Flashblock /\ Tail(s) \in Seq(Flashblock)
      /\ Len(Tail(s)) = Len(s) - 1 /\ Len(s) \in Nat \ {0} /\ Len(c) \in Nat
      /\ \A k \in 1 .. Len(s) - 1 : Tail(s)[k] = s[k + 1]
      /\ Head(s) = s[1]
  OBVIOUS
<1>2. /\ Append(c, Head(s)) \in Seq(Flashblock) /\ Len(Append(c, Head(s))) = Len(c) + 1
      /\ \A k \in 1 .. Len(c) : Append(c, Head(s))[k] = c[k]
      /\ Append(c, Head(s))[Len(c) + 1] = Head(s)
  BY <1>1, AppendFacts
<1>3. l \in Seq(Flashblock) /\ r \in Seq(Flashblock) /\ Len(l) = Len(c) + Len(s) /\ Len(r) = Len(l)
  BY <1>1, <1>2
<1>4. ASSUME NEW k \in 1 .. Len(l) PROVE l[k] = r[k]
  <2>1. CASE k <= Len(c)
    BY <1>1, <1>2, <1>3, <2>1
  <2>2. CASE k = Len(c) + 1
    BY <1>1, <1>2, <1>3, <2>2
  <2>3. CASE k > Len(c) + 1
    <3>1. l[k] = Tail(s)[k - (Len(c) + 1)] /\ r[k] = s[k - Len(c)]
      BY <1>1, <1>2, <1>3, <2>3
    <3>2. k - (Len(c) + 1) \in 1 .. Len(s) - 1 /\ k - (Len(c) + 1) + 1 = k - Len(c)
      BY <1>1, <1>3, <2>3
    <3> QED  BY <1>1, <3>1, <3>2
  <2> QED  BY <1>1, <1>3, <2>1, <2>2, <2>3
<1> QED  BY <1>3, <1>4

(***************************************************************************)
(* The stream yields a flashblock that continues what came before.         *)
(***************************************************************************)
LEMMA GaplessAppend ==
  ASSUME NEW s \in Seq(Flashblock), NEW fb \in Flashblock, Gapless(s),
         fb.index > 0 => EndsWith(s, fb.payload_id, fb.index - 1)
  PROVE  Gapless(Append(s, fb)) /\ EndsWith(Append(s, fb), fb.payload_id, fb.index)
<1> DEFINE t == Append(s, fb)
           n == Len(s)
<1>1. /\ t \in Seq(Flashblock) /\ Len(t) = n + 1 /\ n \in Nat
      /\ \A k \in 1 .. n : t[k] = s[k]
      /\ t[n + 1] = fb
  BY AppendFacts
<1> HIDE DEF t
<1>2. ASSUME NEW k \in 1 .. Len(t), t[k].index > 0
      PROVE  k > 1 /\ t[k - 1].payload_id = t[k].payload_id /\ t[k - 1].index = t[k].index - 1
  <2>1. CASE k <= n
    <3>1. k \in 1 .. n /\ t[k] = s[k]
      BY <1>1, <2>1
    <3>2. k > 1 /\ s[k - 1].payload_id = s[k].payload_id /\ s[k - 1].index = s[k].index - 1
      BY <1>2, <3>1 DEF Gapless
    <3>3. t[k - 1] = s[k - 1]
      BY <1>1, <3>1, <3>2
    <3> QED  BY <3>1, <3>2, <3>3
  <2>2. CASE k = n + 1
    <3>1. s # <<>> /\ s[n].payload_id = fb.payload_id /\ s[n].index = fb.index - 1
      BY <1>1, <1>2, <2>2 DEF EndsWith
    <3>2. n >= 1
      BY <1>1, <3>1
    <3>3. t[k] = fb /\ t[k - 1] = s[n] /\ k > 1
      BY <1>1, <2>2, <3>2
    <3> QED  BY <3>1, <3>3
  <2> QED  BY <1>1, <2>1, <2>2
<1>3. Gapless(t)
  BY <1>2 DEF Gapless
<1>4. EndsWith(t, fb.payload_id, fb.index)
  <2>1. t # <<>>
    BY <1>1
  <2> QED  BY <1>1, <2>1 DEF EndsWith
<1> QED  BY <1>3, <1>4 DEF t

(***************************************************************************)
(* The clone of the buffer up to its first gap is a run from flashblock 0  *)
(* (p2p.rs:213-219).                                                       *)
(***************************************************************************)
LEMMA CloneFacts ==
  ASSUME IInv, NEW hi \in 0 .. (MAX_FLASHBLOCK_INDEX + 1),
         \A i \in 0 .. (hi - 1) : Ready(flashblocks, i)
  PROVE  LET clone == Run(flashblocks, 0, hi)
         IN /\ clone \in Seq(Flashblock) /\ Len(clone) = hi /\ Gapless(clone)
            /\ hi > 0 => EndsWith(clone, payload_id, hi - 1)
<1> DEFINE clone == Run(flashblocks, 0, hi)
<1>1. hi \in Nat /\ flashblocks \in [Slot -> Flashblock \cup {None}] /\ None \notin Flashblock
  BY P2PAssumption DEF IInv, P2PTypeOK
<1>2. /\ clone \in Seq(Flashblock) /\ Len(clone) = hi
      /\ \A k \in 1 .. hi : /\ clone[k] = flashblocks[k - 1]
                            /\ k - 1 \in Slot /\ flashblocks[k - 1] \in Flashblock
  <2>1. 0 <= hi /\ hi - 0 = hi /\ \A k \in 1 .. hi : 0 + k - 1 = k - 1
    BY <1>1
  <2>2. /\ clone \in Seq(Flashblock) /\ Len(clone) = hi - 0
        /\ \A k \in 1 .. (hi - 0) : /\ clone[k] = flashblocks[0 + k - 1]
                                    /\ 0 + k - 1 \in Slot /\ flashblocks[0 + k - 1] \in Flashblock
    BY <1>1, <2>1, RunFacts
  <2> QED  BY <2>1, <2>2
<1> HIDE DEF clone
<1>3. \A k \in 1 .. hi : clone[k].payload_id = payload_id /\ clone[k].index = k - 1
  BY <1>1, <1>2 DEF IInv, BufferCoherent
<1>4. Gapless(clone)
  <2> SUFFICES ASSUME NEW k \in 1 .. hi, clone[k].index > 0
               PROVE  /\ k > 1
                      /\ clone[k - 1].payload_id = clone[k].payload_id
                      /\ clone[k - 1].index = clone[k].index - 1
    BY <1>2 DEF Gapless
  <2>1. k > 1
    BY <1>1, <1>3
  <2>2. k - 1 \in 1 .. hi
    BY <1>1, <2>1
  <2> QED  BY <1>1, <1>3, <2>1, <2>2
<1>5. hi > 0 => EndsWith(clone, payload_id, hi - 1)
  BY <1>1, <1>2, <1>3 DEF EndsWith
<1> QED  BY <1>2, <1>4, <1>5 DEF clone

(***************************************************************************)
(* What a publish means to a receiver of flashblock_tx (p2p.rs:241-344):   *)
(* what was sent stays, what comes next is flashblock 0 or the one at the  *)
(* frontier, and without any emission the frontier stays or is reset.      *)
(***************************************************************************)
LEMMA PublishEmits ==
  ASSUME IInv, IInv', NEW fb \in Flashblock, Publish(fb)
  PROVE  /\ Len(flashblock_tx) \in Nat /\ Len(flashblock_tx') \in Nat
         /\ Len(flashblock_tx') >= Len(flashblock_tx)
         /\ \A k \in 1 .. Len(flashblock_tx) : flashblock_tx'[k] = flashblock_tx[k]
         /\ Len(flashblock_tx') = Len(flashblock_tx) =>
              /\ flashblock_tx' = flashblock_tx
              /\ \/ flashblock_index' = 0
                 \/ flashblock_index' = flashblock_index /\ payload_id' = payload_id
         /\ Len(flashblock_tx') > Len(flashblock_tx) =>
              LET next == flashblock_tx'[Len(flashblock_tx) + 1]
              IN next.index > 0 => /\ flashblock_index > 0
                                   /\ next.payload_id = payload_id
                                   /\ next.index = flashblock_index
<1> DEFINE tx == flashblock_tx
           n == Len(tx)
<1>0. tx \in Seq(Flashblock) /\ n \in Nat /\ tx' \in Seq(Flashblock)
  BY DEF IInv, P2PTypeOK
<1>1. CASE UNCHANGED tx /\ ( \/ flashblock_index' = FrontierFor(fb) /\ payload_id' = fb.payload_id
                             \/ flashblock_index' = flashblock_index /\ payload_id' = payload_id)
  BY <1>0, <1>1 DEF FrontierFor
<1>2. CASE CacheAndBroadcast(fb)
  <2> DEFINE lo == FrontierFor(fb)
             buffer == flashblocks'
  <2>1. lo \in 0 .. (MAX_FLASHBLOCK_INDEX + 1)
        /\ BufferFor(fb) \in [Slot -> Flashblock \cup {None}]
    BY ResetFacts
  <2>2. buffer \in [Slot -> Flashblock \cup {None}] /\ payload_id' = fb.payload_id
    BY <1>2, <2>1 DEF CacheAndBroadcast
  <2>3. PICK hi \in lo .. (MAX_FLASHBLOCK_INDEX + 1) :
          /\ \A i \in lo .. (hi - 1) : Ready(buffer, i)
          /\ tx' = tx \o Run(buffer, lo, hi)
          /\ flashblock_index' = hi
    BY <1>2 DEF CacheAndBroadcast, EmitConsecutive
  <2>4. lo \in Nat /\ hi \in Nat /\ lo <= hi
    BY <2>1, <2>3, P2PAssumption
  <2> DEFINE r == Run(buffer, lo, hi)
  <2>5. /\ r \in Seq(Flashblock) /\ Len(r) = hi - lo
        /\ \A k \in 1 .. (hi - lo) : /\ r[k] = buffer[lo + k - 1]
                                     /\ lo + k - 1 \in Slot
                                     /\ buffer[lo + k - 1] \in Flashblock
    BY <2>2, <2>3, <2>4, RunFacts
  <2>6. lo = 0 \/ (lo = flashblock_index /\ fb.payload_id = payload_id)
    <3>1. CASE fb.payload_id = payload_id
      BY <3>1 DEF FrontierFor
    <3>2. CASE fb.payload_id # payload_id
      BY <3>2 DEF FrontierFor
    <3> QED  BY <3>1, <3>2
  <2>7. tx' = tx \o r /\ flashblock_index' = hi
    BY <2>3
  <2> HIDE DEF r, lo
  <2>8. /\ Len(tx') = n + (hi - lo)
        /\ \A k \in 1 .. n : tx'[k] = tx[k]
    BY <1>0, <2>4, <2>5, <2>7
  <2>9. CASE hi = lo
    <3>1. Len(r) = 0
      BY <2>4, <2>5, <2>9
    <3>2. tx' = tx
      BY <1>0, <2>5, <2>7, <3>1
    <3>3. \/ flashblock_index' = 0
          \/ flashblock_index' = flashblock_index /\ payload_id' = payload_id
      BY <2>2, <2>6, <2>7, <2>9
    <3>4. Len(tx') = n
      BY <3>2
    <3> QED  BY <1>0, <3>2, <3>3, <3>4
  <2>10. CASE hi > lo
    <3>1. 1 \in 1 .. (hi - lo) /\ lo + 1 - 1 = lo
      BY <2>4, <2>10
    <3>2. r[1] = buffer[lo] /\ lo \in Slot /\ buffer[lo] \in Flashblock
      BY <2>5, <3>1
    <3>3. tx'[n + 1] = r[1]
      BY <1>0, <2>4, <2>5, <2>7, <2>10
    <3>4. buffer[lo].index = lo /\ buffer[lo].payload_id = fb.payload_id
      BY <2>2, <3>2, P2PAssumption DEF IInv, BufferCoherent
    <3> QED  BY <1>0, <2>4, <2>6, <2>8, <2>10, <3>2, <3>3, <3>4
  <2> QED  BY <2>4, <2>9, <2>10
<1> QED  BY <1>1, <1>2 DEF Publish, RejectIndex, AlreadyCached, CacheOversize, p2pVars

(***************************************************************************)
(* Whatever is published, by the builder or by a connection, the stream    *)
(* goes on where it is, or the history notes that it cannot.               *)
(***************************************************************************)
LEMMA PublishKeepsJoined ==
  ASSUME IInv, IInv', OtherTypes, Joined, NEW fb \in Flashblock, PublishNoting(fb)
  PROVE  Joined'
<1> DEFINE tx == flashblock_tx
           n == Len(tx)
<1>1. /\ UNCHANGED <<phase, snapshot, cursor, consumed>> /\ InHand' = InHand
      /\ raced' = (raced \/ (phase = "snapshot" /\ tx' # tx))
      /\ Publish(fb)
  BY DEF PublishNoting, InHand
<1>2. phase' = "none" => consumed' = <<>> /\ snapshot' = <<>>
  BY <1>1 DEF Joined
<1>3. SUFFICES ASSUME ~raced', phase # "none"
      PROVE  \/ /\ phase = "snapshot" \/ cursor = Len(tx')
                /\ flashblock_index' > 0 => EndsWith(InHand, payload_id', flashblock_index' - 1)
             \/ /\ phase \in {"live", "ended"} /\ cursor < Len(tx')
                /\ LET next == tx'[cursor + 1]
                   IN next.index > 0 => EndsWith(InHand, next.payload_id, next.index - 1)
  BY <1>1, <1>2 DEF Joined
<1>4. ~raced /\ (phase = "snapshot" => tx' = tx)
  BY <1>1, <1>3
<1>5. /\ n \in Nat /\ Len(tx') \in Nat /\ Len(tx') >= n
      /\ \A k \in 1 .. n : tx'[k] = tx[k]
      /\ Len(tx') = n => /\ tx' = tx
                         /\ \/ flashblock_index' = 0
                            \/ flashblock_index' = flashblock_index /\ payload_id' = payload_id
      /\ Len(tx') > n => LET next == tx'[n + 1]
                         IN next.index > 0 => /\ flashblock_index > 0
                                              /\ next.payload_id = payload_id
                                              /\ next.index = flashblock_index
  BY <1>1, PublishEmits
<1>6. phase \in {"snapshot", "live", "ended"} /\ cursor \in 0 .. n
  BY <1>3 DEF OtherTypes
<1>7. CASE /\ phase = "snapshot" \/ cursor = n
           /\ flashblock_index > 0 => EndsWith(InHand, payload_id, flashblock_index - 1)
  <2>1. CASE Len(tx') = n
    BY <1>5, <1>7, <2>1
  <2>2. CASE Len(tx') > n
    <3>1. phase \in {"live", "ended"} /\ cursor = n
      BY <1>4, <1>5, <1>6, <1>7, <2>2
    <3> QED  BY <1>5, <1>7, <2>2, <3>1
  <2> QED  BY <1>5, <2>1, <2>2
<1>8. CASE /\ phase \in {"live", "ended"} /\ cursor < n
           /\ LET next == tx[cursor + 1]
              IN next.index > 0 => EndsWith(InHand, next.payload_id, next.index - 1)
  <2>1. cursor + 1 \in 1 .. n /\ cursor < Len(tx')
    BY <1>5, <1>6, <1>8
  <2>2. tx'[cursor + 1] = tx[cursor + 1]
    BY <1>5, <2>1
  <2> QED  BY <1>8, <2>1, <2>2
<1> QED  BY <1>3, <1>4, <1>7, <1>8 DEF Joined

(***************************************************************************)
(* The task takes a flashblock from the clone, and what is in hand stays,  *)
(* or from flashblock_tx, and it continues what is in hand.                *)
(***************************************************************************)
LEMMA YieldKeepsJoined ==
  ASSUME IInv, OtherTypes, Joined, StreamNext
  PROVE  Joined'
<1> DEFINE tx == flashblock_tx
           n == Len(tx)
<1>1. /\ tx \in Seq(Flashblock) /\ n \in Nat
      /\ consumed \in Seq(Flashblock) /\ snapshot \in Seq(Flashblock) /\ cursor \in 0 .. n
      /\ CAPACITY \in Nat
  BY ExecutorAssumption DEF IInv, P2PTypeOK, OtherTypes
<1>2. /\ phase = "live" /\ phase' = "live" /\ raced' = raced
      /\ tx' = tx /\ payload_id' = payload_id /\ flashblock_index' = flashblock_index
      /\ consumed' = Append(consumed, processing')
  BY DEF StreamNext, StreamYields, p2pVars
<1>3. SUFFICES ASSUME ~raced
      PROVE  /\ Gapless(InHand')
             /\ \/ /\ cursor' = n
                   /\ flashblock_index > 0 => EndsWith(InHand', payload_id, flashblock_index - 1)
                \/ /\ cursor' < n
                   /\ LET next == tx[cursor' + 1]
                      IN next.index > 0 => EndsWith(InHand', next.payload_id, next.index - 1)
  BY <1>2 DEF Joined
<1>4. /\ Gapless(InHand)
      /\ \/ /\ cursor = n
            /\ flashblock_index > 0 => EndsWith(InHand, payload_id, flashblock_index - 1)
         \/ /\ cursor < n
            /\ LET next == tx[cursor + 1]
               IN next.index > 0 => EndsWith(InHand, next.payload_id, next.index - 1)
  BY <1>2, <1>3 DEF Joined
<1>5. CASE /\ snapshot # <<>> /\ StreamYields(Head(snapshot))
           /\ snapshot' = Tail(snapshot) /\ UNCHANGED cursor
  <2>1. InHand' = Append(consumed, Head(snapshot)) \o Tail(snapshot)
    BY <1>5 DEF InHand, StreamYields
  <2>2. InHand' = InHand
    BY <1>1, <1>5, <2>1, YieldHead DEF InHand
  <2> QED  BY <1>4, <1>5, <2>2
<1>6. CASE /\ snapshot = <<>> /\ n - cursor \in 1 .. CAPACITY
           /\ StreamYields(tx[cursor + 1])
           /\ cursor' = cursor + 1 /\ UNCHANGED snapshot
  <2> DEFINE fb == tx[cursor + 1]
  <2>1. cursor < n /\ cursor + 1 \in 1 .. n /\ cursor # n
    BY <1>1, <1>6
  <2>2. fb \in Flashblock
    BY <1>1, <2>1
  <2>3. InHand = consumed /\ InHand' = Append(consumed, fb)
    <3>1. \A s \in Seq(Flashblock) : s \o <<>> = s
      OBVIOUS
    <3>2. Append(consumed, fb) \in Seq(Flashblock)
      BY <1>1, <2>2
    <3>3. InHand = consumed \o <<>> /\ InHand' = Append(consumed, fb) \o <<>>
      BY <1>6 DEF InHand, StreamYields
    <3> QED  BY <1>1, <3>1, <3>2, <3>3
  <2>4. fb.index > 0 => EndsWith(consumed, fb.payload_id, fb.index - 1)
    BY <1>4, <2>1, <2>3
  <2>5. Gapless(InHand') /\ EndsWith(InHand', fb.payload_id, fb.index)
    BY <1>1, <1>4, <2>2, <2>3, <2>4, GaplessAppend
  <2>6. CASE cursor + 1 = n
    <3>1. flashblock_index > 0 => fb.payload_id = payload_id /\ fb.index = flashblock_index - 1
      <4> SUFFICES ASSUME flashblock_index > 0
                   PROVE  fb.payload_id = payload_id /\ fb.index = flashblock_index - 1
        OBVIOUS
      <4>1. fb = flashblocks[flashblock_index - 1]
        BY <2>6 DEF IInv, LastEmitted
      <4>2. flashblock_index - 1 \in Slot
        BY P2PAssumption DEF IInv, P2PTypeOK, Slot
      <4>3. fb # None
        BY <2>2, P2PAssumption
      <4> QED  BY <4>1, <4>2, <4>3 DEF IInv, BufferCoherent
    <3> QED  BY <1>6, <2>5, <2>6, <3>1
  <2>7. CASE cursor + 1 # n
    <3> DEFINE next == tx[cursor + 2]
    <3>1. cursor' < n /\ cursor + 2 \in 1 .. n /\ cursor' + 1 = cursor + 2 /\ cursor + 2 - 1 = cursor + 1
      BY <1>1, <1>6, <2>1, <2>7
    <3>2. next.index > 0 => fb.payload_id = next.payload_id /\ fb.index = next.index - 1
      <4>1. ASSUME NEW j \in 1 .. n, NEW k \in 1 .. n, k = j + 1, tx[k].index > 0
            PROVE  tx[j].payload_id = tx[k].payload_id /\ tx[j].index = tx[k].index - 1
        <5>1. k - 1 = j
          BY <1>1, <4>1
        <5> QED  BY <4>1, <5>1 DEF IInv, InOrder
      <4>2. cursor + 1 \in 1 .. n /\ cursor + 2 = cursor + 1 + 1
        BY <1>1, <2>1
      <4> QED  BY <3>1, <4>1, <4>2
    <3> HIDE DEF next, fb
    <3>3. next.index > 0 => EndsWith(InHand', next.payload_id, next.index - 1)
      BY <2>5, <3>2
    <3>4. tx[cursor' + 1] = next
      BY <3>1 DEF next
    <3> QED  BY <2>5, <3>1, <3>3, <3>4
  <2> QED  BY <2>6, <2>7
<1> QED  BY <1>5, <1>6 DEF StreamNext

(***************************************************************************)
(* The stream starts with the clone, which ends just below the frontier    *)
(* unless a cached flashblock waits there (p2p.rs:210-221).                *)
(***************************************************************************)
LEMMA CloneJoins ==
  ASSUME IInv, OtherTypes, Joined, TakeSnapshot
  PROVE  Joined'
<1>1. PICK hi \in 0 .. (MAX_FLASHBLOCK_INDEX + 1) :
        /\ \A i \in 0 .. (hi - 1) : Ready(flashblocks, i)
        /\ ~Ready(flashblocks, hi)
        /\ snapshot' = Run(flashblocks, 0, hi)
  BY DEF TakeSnapshot
<1>2. /\ phase' = "snapshot" /\ consumed' = <<>>
      /\ raced' = Ready(flashblocks, flashblock_index)
      /\ payload_id' = payload_id /\ flashblock_index' = flashblock_index
  BY DEF TakeSnapshot, Joined, p2pVars
<1>3. /\ snapshot' \in Seq(Flashblock) /\ Gapless(snapshot')
      /\ hi > 0 => EndsWith(snapshot', payload_id, hi - 1)
  BY <1>1, CloneFacts
<1>4. InHand' = snapshot'
  <2>1. \A s \in Seq(Flashblock) : <<>> \o s = s
    OBVIOUS
  <2> QED  BY <1>2, <1>3, <2>1 DEF InHand
<1>5. ASSUME ~Ready(flashblocks, flashblock_index) PROVE flashblock_index = hi
  <2>1. hi \in Nat /\ flashblock_index \in 0 .. (MAX_FLASHBLOCK_INDEX + 1)
        /\ MAX_FLASHBLOCK_INDEX \in Nat
    BY P2PAssumption DEF IInv, P2PTypeOK
  <2>2. ~(flashblock_index < hi)
    BY <1>1, <1>5, <2>1
  <2>3. ~(hi < flashblock_index)
    <3> SUFFICES ASSUME hi < flashblock_index PROVE FALSE
      OBVIOUS
    <3>1. hi \in 0 .. (flashblock_index - 1) /\ hi \in Slot
      BY <2>1 DEF Slot
    <3>2. flashblocks[hi] # None
      BY <3>1 DEF IInv, BufferCoherent
    <3> QED  BY <1>1, <3>1, <3>2 DEF Ready
  <2> QED  BY <2>1, <2>2, <2>3
<1> QED  BY <1>2, <1>3, <1>4, <1>5 DEF Joined

(***************************************************************************)
(* Every step of the executor and the builder keeps the stream joined.     *)
(***************************************************************************)
LEMMA JoinedPreserved ==
  ASSUME IInv, IInv', ExecInv, Joined, [ExecNext]_vars
  PROVE  Joined'
<1> USE DEF ExecInv
<1>1. ASSUME UNCHANGED <<p2pVars, streamVars>> PROVE Joined'
  BY <1>1 DEF Joined, InHand, p2pVars, streamVars
<1>2. ASSUME NEW fb \in Flashblock, Deliver(fb) PROVE Joined'
  BY <1>2, PublishKeepsJoined DEF Deliver
<1>3. CASE PublishStep
  <2>1. CASE UNCHANGED <<p2pVars, streamVars>>
    BY <1>1, <2>1
  <2>2. CASE PublishNoting(JobFlashblock)
    <3>1. JobFlashblock \in Flashblock
      BY <1>3, JobFlashblockFacts DEF PublishStep
    <3> QED  BY <2>2, <3>1, PublishKeepsJoined
  <2> QED  BY <1>3, <2>1, <2>2 DEF PublishStep, PublishBuiltPayload
<1>4. CASE TakeSnapshot
  BY <1>4, CloneJoins
<1>5. CASE Subscribe
  <2>1. /\ phase = "snapshot" /\ phase' = "live" /\ cursor' = Len(flashblock_tx)
        /\ UNCHANGED <<snapshot, consumed, raced>> /\ UNCHANGED p2pVars
    BY <1>5 DEF Subscribe
  <2>2. InHand' = InHand
    BY <2>1 DEF InHand
  <2> QED  BY <2>1, <2>2 DEF Joined, p2pVars
<1>6. CASE StreamNext
  BY <1>6, YieldKeepsJoined
<1>7. CASE StreamLags
  <2>1. /\ phase = "live" /\ phase' = "ended"
        /\ UNCHANGED <<snapshot, consumed, cursor, raced>> /\ UNCHANGED p2pVars
    BY <1>7 DEF StreamLags
  <2>2. InHand' = InHand
    BY <2>1 DEF InHand
  <2> QED  BY <2>1, <2>2 DEF Joined, p2pVars
<1>8. CASE SkipBuilt \/ RejectOutOfOrder \/ Begin \/ FetchHeader \/ Fail \/ Build
  BY <1>1, <1>8 DEF SkipBuilt, RejectOutOfOrder, Begin, FetchHeader, Fail, Build
<1>9. CASE \/ \E h \in Hash : HeaderArrives(h)
           \/ RegisterPayloadEvents \/ StartJob \/ EndJob
  BY <1>1, <1>9 DEF HeaderArrives, RegisterPayloadEvents, StartJob, EndJob
<1>10. CASE UNCHANGED vars
  BY <1>1, <1>10 DEF vars
<1> QED  BY <1>2, <1>3, <1>4, <1>5, <1>6, <1>7, <1>8, <1>9, <1>10 DEF ExecNext, Executor

(***************************************************************************)
(* A push by either task never takes the collection back: what it had      *)
(* caught up with it still has, or has passed (primitives.rs:543-593).     *)
(***************************************************************************)
LEMMA PushKeepsCaughtUp ==
  ASSUME Collection, NEW fb \in Flashblock, Accepts(list, fb), list' = Push(list, fb),
         NEW e \in Flashblock, CaughtUpWith(e), TimestampOf(e.payload_id) \in Nat
  PROVE  CaughtUpWith(e)'
<1> DEFINE t == TimestampOf(e.payload_id)
<1>1. /\ PayloadIdOf(list') = fb.payload_id /\ Len(list') = fb.index + 1
      /\ BaseOf(list').timestamp \in Nat
      /\ BaseOf(list').timestamp = TimestampOf(PayloadIdOf(list'))
      /\ BaseOf(list).timestamp \in Nat
      /\ BaseOf(list).timestamp = TimestampOf(PayloadIdOf(list))
  BY PushFacts DEF Collection
<1>2. t \in Nat
  OBVIOUS
<1>3. CASE StartsNewPayload(list, fb)
  <2>1. BaseOf(list').timestamp > BaseOf(list).timestamp
    BY <1>3, PushFacts
  <2>2. t <= BaseOf(list).timestamp
    BY <1>1 DEF CaughtUpWith
  <2>3. e.payload_id # PayloadIdOf(list')
    BY <1>1, <1>2, <2>1, <2>2
  <2> HIDE DEF t
  <2>4. t <= BaseOf(list').timestamp
    BY <1>1, <1>2, <2>1, <2>2
  <2> QED  BY <2>3, <2>4 DEF CaughtUpWith, t
<1>4. CASE ~StartsNewPayload(list, fb)
  <2>1. BaseOf(list') = BaseOf(list) /\ PayloadIdOf(list') = PayloadIdOf(list)
        /\ Len(list') = Len(list) + 1
    BY <1>4, PushFacts
  <2>2. CASE e.payload_id = PayloadIdOf(list)
    <3>1. Len(list) \in Nat
      BY DEF Collection, DefaultFlashblocks
    <3>2. e.index < Len(list)
      BY <2>2 DEF CaughtUpWith
    <3>3. e.index < Len(list')
      BY <2>1, <3>1, <3>2, FlashblockFacts
    <3> QED  BY <2>1, <2>2, <3>3 DEF CaughtUpWith
  <2>3. CASE e.payload_id # PayloadIdOf(list)
    BY <2>1, <2>3 DEF CaughtUpWith
  <2> QED  BY <2>2, <2>3
<1> QED  BY <1>3, <1>4

(***************************************************************************)
(* What the executor had caught up with stays so while the collection is   *)
(* left alone or extended by either task (state.rs:112-135, 396).          *)
(***************************************************************************)
LEMMA ReadKept ==
  ASSUME OtherTypes, Collection, UNCHANGED consumed,
         NEW n \in 0 .. Len(consumed), HasRead(n),
         \/ UNCHANGED list
         \/ \E fb \in Flashblock : Accepts(list, fb) /\ list' = Push(list, fb)
  PROVE  HasRead(n)'
<1> SUFFICES ASSUME NEW k \in 1 .. n
             PROVE  CaughtUpWith(consumed[k])' /\ TimestampOf(consumed[k].payload_id)' \in Nat
  BY DEF HasRead
<1> DEFINE e == consumed[k]
<1>1. consumed[k] \in Flashblock
  BY DEF OtherTypes
<1>2. CaughtUpWith(consumed[k]) /\ TimestampOf(consumed[k].payload_id) \in Nat
  BY DEF HasRead
<1>3. TimestampOf(consumed[k].payload_id)' \in Nat
  BY <1>2
<1>4. CASE UNCHANGED list
  BY <1>2, <1>3, <1>4 DEF CaughtUpWith
<1>5. ASSUME NEW fb \in Flashblock, Accepts(list, fb), list' = Push(list, fb)
      PROVE  CaughtUpWith(consumed[k])'
  <2>1. PICK x \in Flashblock : x = consumed[k]
    BY <1>1
  <2>2. CaughtUpWith(x) /\ TimestampOf(x.payload_id) \in Nat
    BY <1>2, <2>1
  <2>3. CaughtUpWith(x)'
    BY <1>5, <2>2, PushKeepsCaughtUp
  <2>4. x = consumed'[k]
    BY <2>1
  <2> QED  BY <2>3, <2>4 DEF CaughtUpWith
<1> QED  BY <1>3, <1>4, <1>5

(***************************************************************************)
(* A flashblock that process_flashblock skips or refuses is in the         *)
(* collection already, or its payload came too late (state.rs:255-275):    *)
(* its predecessor was processed, so it cannot be one too far.             *)
(***************************************************************************)
LEMMA RefusedIsOld ==
  ASSUME IInv, ExecInv, Joined, Processed, pc = "process",
         FirstOnesHaveBase, ~failed, ~raced,
         AlreadyBuilt(processing) \/ ~Accepts(list, processing)
  PROVE  HasRead(Len(consumed))
<1> USE DEF ExecInv, Committed
<1> DEFINE e == processing
           m == Len(consumed)
<1>1. /\ consumed \in Seq(Flashblock) /\ consumed # <<>> /\ m \in Nat \ {0}
      /\ e = consumed[m] /\ HasRead(m - 1) /\ snapshot \in Seq(Flashblock)
  BY DEF Processed, OtherTypes
<1>2. e \in Flashblock /\ e.index \in Nat
  BY <1>1, FlashblockFacts
<1>3. /\ BaseOf(list).timestamp \in Nat
      /\ BaseOf(list).timestamp = TimestampOf(PayloadIdOf(list))
      /\ Len(list) \in Nat \ {0}
  BY DEF Collection, WellFormed, DefaultFlashblocks
<1>4. CaughtUpWith(e) /\ TimestampOf(e.payload_id) \in Nat
  <2>1. CASE AlreadyBuilt(e)
    <3>1. /\ e.payload_id = PayloadIdOf(list) /\ latest_payload.index = Len(list) - 1
          /\ latest_payload.index >= e.index
      BY <2>1 DEF AlreadyBuilt, Latest
    <3>2. e.index < Len(list)
      BY <1>2, <1>3, <3>1
    <3> QED  BY <1>3, <3>1, <3>2 DEF CaughtUpWith
  <2>2. CASE ~Accepts(list, e) /\ e.index = 0
    <3>1. e.base # None
      BY <1>1, <2>2 DEF FirstOnesHaveBase
    <3>2. e.base.timestamp \in Nat /\ e.base.timestamp = TimestampOf(e.payload_id)
      BY <1>2, <3>1, FlashblockFacts
    <3>3. CASE e.payload_id = PayloadIdOf(list)
      BY <1>3, <2>2, <3>2, <3>3 DEF CaughtUpWith
    <3>4. CASE e.payload_id # PayloadIdOf(list)
      <4>1. ~(e.base.timestamp > BaseOf(list).timestamp)
        BY <2>2, <3>1, <3>4 DEF Accepts, StartsNewPayload
      <4> QED  BY <1>3, <3>2, <3>4, <4>1 DEF CaughtUpWith
    <3> QED  BY <3>3, <3>4
  <2>3. CASE ~Accepts(list, e) /\ e.index > 0
    <3> DEFINE p == consumed[m - 1]
    <3>1. m > 1 /\ p.payload_id = e.payload_id /\ p.index = e.index - 1
      <4>1. Gapless(InHand) /\ Len(InHand) = m + Len(snapshot) /\ Len(snapshot) \in Nat
        BY <1>1 DEF Joined, InHand
      <4>2. \A k \in 1 .. m : InHand[k] = consumed[k]
        BY <1>1 DEF InHand
      <4>3. InHand[m] = e /\ m \in 1 .. Len(InHand)
        BY <1>1, <4>1, <4>2
      <4>4. m > 1 /\ InHand[m - 1].payload_id = e.payload_id /\ InHand[m - 1].index = e.index - 1
        BY <2>3, <4>1, <4>3 DEF Gapless
      <4>5. InHand[m - 1] = p
        BY <1>1, <4>2, <4>4
      <4> QED  BY <4>4, <4>5
    <3>2. CaughtUpWith(p) /\ TimestampOf(p.payload_id) \in Nat
      BY <1>1, <3>1 DEF HasRead
    <3>3. CASE e.payload_id = PayloadIdOf(list)
      <4>1. e.index # Len(list)
        BY <2>3, <3>3 DEF Accepts, ContinuesPayload
      <4>2. e.index - 1 < Len(list)
        BY <3>1, <3>2, <3>3 DEF CaughtUpWith
      <4> QED  BY <1>2, <1>3, <3>1, <3>2, <3>3, <4>1, <4>2 DEF CaughtUpWith
    <3>4. CASE e.payload_id # PayloadIdOf(list)
      BY <3>1, <3>2, <3>4 DEF CaughtUpWith
    <3> QED  BY <3>3, <3>4
  <2> QED  BY <1>2, <2>1, <2>2, <2>3
<1> QED
  <2> SUFFICES ASSUME NEW k \in 1 .. m
               PROVE  CaughtUpWith(consumed[k]) /\ TimestampOf(consumed[k].payload_id) \in Nat
    BY DEF HasRead
  <2>1. CASE k = m
    BY <1>1, <1>4, <2>1
  <2>2. CASE k # m
    <3>1. k \in 1 .. m - 1
      BY <1>1, <2>2
    <3> QED  BY <1>1, <3>1 DEF HasRead
  <2> QED  BY <2>1, <2>2

(***************************************************************************)
(* process_flashblock ends for the flashblock at hand, and the executor    *)
(* has caught up with everything the stream has yielded.                   *)
(***************************************************************************)
LEMMA BuildCatchesUp ==
  ASSUME IInv, ExecInv, Processed, Build, FirstOnesHaveBase, ~failed, ~raced
  PROVE  HasRead(Len(consumed))'
<1> USE DEF ExecInv, Committed
<1> DEFINE m == Len(consumed)
<1>1. /\ consumed \in Seq(Flashblock) /\ m \in Nat \ {0} /\ m - 1 \in 0 .. m
      /\ processing = consumed[m] /\ HasRead(m - 1)
      /\ consumed' = consumed
  BY DEF Build, Processed, OtherTypes, streamVars
<1>2. /\ processing \in Flashblock /\ Accepts(list, processing)
      /\ list' = Push(list, processing)
  BY DEF Build, Locking
<1>3. HasRead(m - 1)'
  <2>1. PICK n \in 0 .. Len(consumed) : n = m - 1
    BY <1>1
  <2>2. HasRead(n)
    BY <1>1, <2>1
  <2>3. HasRead(n)'
    BY <1>1, <1>2, <2>2, ReadKept
  <2> QED  BY <1>1, <2>1, <2>3 DEF HasRead
<1>4. CaughtUpWith(processing)' /\ TimestampOf(processing.payload_id) \in Nat
  <2>1. /\ PayloadIdOf(list') = processing.payload_id
        /\ Len(list') = processing.index + 1
        /\ BaseOf(list').timestamp \in Nat
        /\ BaseOf(list').timestamp = TimestampOf(PayloadIdOf(list'))
    BY <1>2, PushFacts
  <2>2. processing' = processing /\ processing.index \in Nat
    BY <1>2, FlashblockFacts DEF Build
  <2>3. processing.index < Len(list')
    BY <2>1, <2>2
  <2> QED  BY <2>1, <2>2, <2>3 DEF CaughtUpWith
<1> SUFFICES ASSUME NEW k \in 1 .. m
             PROVE  CaughtUpWith(consumed[k])' /\ TimestampOf(consumed[k].payload_id)' \in Nat
  BY <1>1 DEF HasRead
<1>5. CASE k = m
  <2>1. processing' = consumed'[k] /\ processing = consumed[k]
    BY <1>1, <1>5 DEF Build
  <2> QED  BY <1>1, <1>4, <2>1 DEF CaughtUpWith
<1>6. CASE k # m
  <2>1. k \in 1 .. m - 1
    BY <1>1, <1>6
  <2> QED  BY <1>1, <1>3, <2>1 DEF HasRead
<1> QED  BY <1>5, <1>6

(***************************************************************************)
(* Every step of the executor and the builder keeps to what was processed. *)
(***************************************************************************)
LEMMA ProcessedPreserved ==
  ASSUME IInv, IInv', ExecInv, Joined, Processed, [ExecNext]_vars
  PROVE  Processed'
<1> USE DEF ExecInv
<1>0. consumed \in Seq(Flashblock) /\ Len(consumed) \in Nat /\ Collection
  BY DEF OtherTypes, Committed
\* The executor stands still, while others push or publish.
<1>1. ASSUME UNCHANGED <<pc, processing, consumed>>, failed => failed', raced => raced',
             \/ UNCHANGED list
             \/ \E fb \in Flashblock : Accepts(list, fb) /\ list' = Push(list, fb)
      PROVE  Processed'
  <2>1. FirstOnesHaveBase' => FirstOnesHaveBase
    BY <1>1 DEF FirstOnesHaveBase
  <2>2. CASE pc \in {"process", "decode", "build"}
    <3>1. /\ consumed # <<>> /\ processing = consumed[Len(consumed)]
          /\ FirstOnesHaveBase /\ ~failed /\ ~raced => HasRead(Len(consumed) - 1)
      BY <2>2 DEF Processed
    <3>2. PICK n \in 0 .. Len(consumed) : n = Len(consumed) - 1
      <4>1. consumed # <<>>
        BY <3>1
      <4>2. Len(consumed) - 1 \in 0 .. Len(consumed)
        BY <1>0, <4>1
      <4> QED  BY <4>2
    <3>3. HasRead(Len(consumed) - 1) => HasRead(n)'
      BY <1>0, <1>1, <3>2, ReadKept
    <3>4. HasRead(n)' => HasRead(Len(consumed) - 1)'
      BY <1>1, <3>2 DEF HasRead
    <3> QED  BY <1>1, <2>1, <2>2, <3>1, <3>3, <3>4 DEF Processed
  <2>3. CASE pc \notin {"process", "decode", "build"}
    <3>1. FirstOnesHaveBase /\ ~failed /\ ~raced => HasRead(Len(consumed))
      BY <2>3 DEF Processed
    <3>2. PICK n \in 0 .. Len(consumed) : n = Len(consumed)
      BY <1>0
    <3>3. HasRead(Len(consumed)) => HasRead(n)'
      BY <1>0, <1>1, <3>2, ReadKept
    <3>4. HasRead(n)' => HasRead(Len(consumed))'
      BY <1>1, <3>2 DEF HasRead
    <3> QED  BY <1>1, <2>1, <2>3, <3>1, <3>3, <3>4 DEF Processed
  <2> QED  BY <2>2, <2>3
\* It goes on to the next flashblock without having pushed.
<1>2. ASSUME UNCHANGED <<processing, consumed, list, failed, raced>>,
             pc' \notin {"process", "decode", "build"},
             FirstOnesHaveBase /\ ~failed /\ ~raced => HasRead(Len(consumed))
      PROVE  Processed'
  BY <1>2 DEF Processed, FirstOnesHaveBase, HasRead, CaughtUpWith
<1>3. ASSUME NEW fb \in Flashblock, Deliver(fb) PROVE Processed'
  <2>1. UNCHANGED <<pc, processing, consumed, list>> /\ failed' = failed
    BY <1>3 DEF Deliver, PublishNoting, innerVars
  <2>2. raced => raced'
    BY <1>3 DEF Deliver, PublishNoting
  <2> QED  BY <1>1, <2>1, <2>2
<1>4. CASE PublishStep
  <2>1. JobFlashblock \in Flashblock
    BY <1>4, JobFlashblockFacts DEF PublishStep
  <2>2. UNCHANGED <<pc, processing, consumed>> /\ failed' = failed
    BY <1>4 DEF PublishStep, PublishBuiltPayload, PublishNoting, streamVars
  <2>4. raced => raced'
    BY <1>4 DEF PublishStep, PublishBuiltPayload, PublishNoting, streamVars
  <2>3. \/ UNCHANGED list
        \/ Accepts(list, JobFlashblock) /\ list' = Push(list, JobFlashblock)
    BY <1>4 DEF PublishStep, PublishBuiltPayload
  <2> QED  BY <1>1, <2>1, <2>2, <2>3, <2>4
<1>5. CASE TakeSnapshot
  <2>1. consumed = <<>> /\ UNCHANGED <<pc, consumed, list>>
    BY <1>5 DEF TakeSnapshot, Joined, innerVars
  <2>2. pc' \notin {"process", "decode", "build"}
    BY <2>1 DEF Processed
  <2>3. HasRead(Len(consumed))'
    BY <2>1 DEF HasRead
  <2> QED  BY <2>2, <2>3 DEF Processed
<1>6. CASE StreamNext
  <2>1. /\ pc = "next" /\ pc' = "process" /\ consumed' = Append(consumed, processing')
        /\ UNCHANGED <<list, failed, raced>> /\ processing' \in Flashblock
    BY <1>6, StreamNextFacts DEF StreamNext, StreamYields, innerVars
  <2>2. /\ Len(consumed') = Len(consumed) + 1 /\ consumed'[Len(consumed')] = processing'
        /\ \A k \in 1 .. Len(consumed) : consumed'[k] = consumed[k]
        /\ consumed' # <<>>
    BY <1>0, <2>1, AppendFacts
  <2>3. FirstOnesHaveBase' => FirstOnesHaveBase
    BY <1>0, <2>2 DEF FirstOnesHaveBase
  <2>4. FirstOnesHaveBase /\ ~failed /\ ~raced => HasRead(Len(consumed))
    BY <2>1 DEF Processed
  <2>5. HasRead(Len(consumed)) => HasRead(Len(consumed) - 1)'
    <3>1. Len(consumed') - 1 = Len(consumed)
      BY <1>0, <2>2
    <3> QED  BY <2>1, <2>2, <3>1 DEF HasRead, CaughtUpWith
  <2> QED  BY <2>1, <2>2, <2>3, <2>4, <2>5 DEF Processed
<1>7. CASE StreamLags
  <2>1. UNCHANGED <<processing, consumed, list, failed, raced>> /\ pc = "next" /\ pc' = "done"
    BY <1>7 DEF StreamLags, innerVars
  <2> QED  BY <1>2, <2>1 DEF Processed
<1>8. CASE SkipBuilt \/ RejectOutOfOrder
  <2>1. /\ UNCHANGED <<processing, consumed, list, failed, raced>>
        /\ pc = "process" /\ pc' = "next"
        /\ AlreadyBuilt(processing) \/ ~Accepts(list, processing)
    BY <1>8 DEF SkipBuilt, RejectOutOfOrder, innerVars, streamVars
  <2> QED  BY <1>2, <2>1, RefusedIsOld
<1>9. CASE Begin \/ FetchHeader
  <2>1. /\ UNCHANGED <<processing, consumed, list, failed, raced>>
        /\ pc \in {"process", "decode", "build"} /\ pc' \in {"process", "decode", "build"}
    BY <1>9 DEF Begin, FetchHeader, innerVars, streamVars
  <2> QED  BY <2>1 DEF Processed, FirstOnesHaveBase, HasRead, CaughtUpWith
<1>10. CASE Fail
  BY <1>10 DEF Fail, Processed
<1>11. CASE Build
  <2>1. UNCHANGED <<consumed, failed, raced>> /\ pc' = "next"
    BY <1>11 DEF Build, streamVars
  <2>2. FirstOnesHaveBase' => FirstOnesHaveBase
    BY <2>1 DEF FirstOnesHaveBase
  <2> QED  BY <1>11, <2>1, <2>2, BuildCatchesUp DEF Processed
<1>12. CASE \/ \E h \in Hash : HeaderArrives(h)
            \/ Subscribe \/ RegisterPayloadEvents \/ StartJob \/ EndJob
  BY <1>1, <1>12 DEF HeaderArrives, Subscribe, RegisterPayloadEvents, StartJob, EndJob,
                     innerVars, streamVars
<1>13. CASE UNCHANGED vars
  BY <1>1, <1>13 DEF vars, innerVars, streamVars
<1> QED  BY <1>3, <1>4, <1>5, <1>6, <1>7, <1>8, <1>9, <1>10, <1>11, <1>12, <1>13
         DEF ExecNext, Executor

(***************************************************************************)
(* The stream stays joined and what it yields is processed, in every       *)
(* execution of the executor and the builder.                              *)
(***************************************************************************)
THEOREM StreamInvariance == ExecSpec => [](IInv /\ ExecInv /\ Joined /\ Processed)
<1> DEFINE All == IInv /\ ExecInv /\ Joined /\ Processed
<1>1. ExecInit => All
  <2> SUFFICES ASSUME ExecInit PROVE Joined /\ Processed
    BY InitExecInv
  <2>1. InHand = <<>>
    BY DEF ExecInit, InHand
  <2>2. Joined
    BY <2>1 DEF ExecInit, Joined, Gapless
  <2>3. Processed
    BY DEF ExecInit, Processed, HasRead
  <2> QED  BY <2>2, <2>3
<1>2. All /\ [ExecNext]_vars => All'
  BY NextExecInv, JoinedPreserved, ProcessedPreserved
<1> QED  BY <1>1, <1>2, PTL DEF ExecSpec

(***************************************************************************)
(* The stream starts at the beginning of a payload and has no gap          *)
(* (p2p.rs:203-209), unless a flashblock is emitted between the clone and  *)
(* the subscription or is cloned before it is emitted.                     *)
(***************************************************************************)
THEOREM NoGapUnlessRaced == ExecSpec => []StreamHasNoGapUnlessRaced
<1>1. ExecInv /\ Joined => StreamHasNoGapUnlessRaced
  <2> SUFFICES ASSUME ExecInv, Joined, ~raced, NEW k \in 1 .. Len(consumed),
                      consumed[k].index > 0
               PROVE  /\ k > 1
                      /\ consumed[k - 1].payload_id = consumed[k].payload_id
                      /\ consumed[k - 1].index = consumed[k].index - 1
    BY DEF StreamHasNoGapUnlessRaced, StreamHasNoGap
  <2>1. consumed \in Seq(Flashblock) /\ snapshot \in Seq(Flashblock)
    BY DEF ExecInv, OtherTypes
  <2>2. /\ Len(InHand) = Len(consumed) + Len(snapshot)
        /\ Len(consumed) \in Nat /\ Len(snapshot) \in Nat
        /\ \A j \in 1 .. Len(consumed) : InHand[j] = consumed[j]
    BY <2>1 DEF InHand
  <2>3. k \in 1 .. Len(InHand) /\ InHand[k] = consumed[k]
    BY <2>2
  <2>4. k > 1 /\ InHand[k - 1].payload_id = InHand[k].payload_id
        /\ InHand[k - 1].index = InHand[k].index - 1
    BY <2>3 DEF Joined, Gapless
  <2>5. InHand[k - 1] = consumed[k - 1]
    BY <2>2, <2>4
  <2> QED  BY <2>3, <2>4, <2>5
<1> QED  BY <1>1, StreamInvariance, PTL

(***************************************************************************)
(* When the executor has read the whole stream, the last flashblock        *)
(* emitted for the current payload is in the collection, or its payload    *)
(* came too late (state.rs:112-135, 242-406).                              *)
(***************************************************************************)
THEOREM IdleHasCaughtUp == ExecSpec => []IdleMeansCaughtUp
<1>1. IInv /\ ExecInv /\ Joined /\ Processed => IdleMeansCaughtUp
  <2> SUFFICES ASSUME IInv, ExecInv, Joined, Processed,
                      Idle, flashblock_index > 0, FirstOnesHaveBase, ~failed, ~raced
               PROVE  CaughtUpWith(flashblock_tx[Len(flashblock_tx)])
    BY DEF IdleMeansCaughtUp
  <2> DEFINE last == flashblock_tx[Len(flashblock_tx)]
             mine == consumed[Len(consumed)]
  <2>1. consumed \in Seq(Flashblock) /\ InHand = consumed
    <3>1. \A s \in Seq(Flashblock) : s \o <<>> = s
      OBVIOUS
    <3> QED  BY <3>1 DEF ExecInv, OtherTypes, Idle, InHand
  <2>2. EndsWith(consumed, payload_id, flashblock_index - 1)
    <3>1. ~(cursor < Len(flashblock_tx))
      BY DEF Idle, IInv, P2PTypeOK
    <3> QED  BY <2>1, <3>1 DEF Joined, Idle
  <2>3. consumed # <<>> /\ mine.payload_id = payload_id /\ mine.index = flashblock_index - 1
    BY <2>2 DEF EndsWith
  <2>4. last.payload_id = payload_id /\ last.index = flashblock_index - 1
    <3>1. flashblock_index - 1 \in Slot /\ flashblock_index - 1 \in 0 .. (flashblock_index - 1)
      BY P2PAssumption DEF IInv, P2PTypeOK, Slot
    <3>2. last = flashblocks[flashblock_index - 1]
      BY DEF IInv, LastEmitted
    <3> QED  BY <3>1, <3>2 DEF IInv, BufferCoherent
  <2>5. CaughtUpWith(mine)
    <3>1. HasRead(Len(consumed))
      BY DEF Processed, Idle
    <3>2. Len(consumed) \in 1 .. Len(consumed)
      BY <2>1, <2>3
    <3> QED  BY <3>1, <3>2 DEF HasRead
  <2> QED  BY <2>3, <2>4, <2>5 DEF CaughtUpWith
<1> QED  BY <1>1, StreamInvariance, PTL

=============================================================================
