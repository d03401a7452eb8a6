--------------------------- MODULE FlashblocksP2P ---------------------------
(***************************************************************************)
(* The shared state of the flashblocks p2p protocol (flashblocks/p2p.rs):  *)
(* FlashblocksP2PState behind its mutex, and the two tokio broadcast       *)
(* channels of FlashblocksP2PCtx.                                          *)
(*                                                                         *)
(* A channel is the sequence of everything ever sent on it.  A receiver is *)
(* a cursor into that sequence, kept by the module that owns the receiver. *)
(* The buffer is a total function on the admissible indices: the length of *)
(* the Vec never matters, because an index past its end reads as None and  *)
(* every write is preceded by a resize.                                    *)
(***************************************************************************)
EXTENDS Integers, Sequences

CONSTANTS
  PayloadId,             \* payload ids that occur on the wire
  NoPayload,             \* PayloadId::default(), the id before the first publish
  None,                  \* Option::None
  MAX_FLASHBLOCK_INDEX,  \* highest index the buffer accepts
  Flashblock             \* the flashblocks that may reach the node: records with
                         \*   payload_id, index, and
                         \*   oversize (the encoded message exceeds MAX_FRAME)

ASSUME P2PAssumption ==
  /\ MAX_FLASHBLOCK_INDEX \in Nat
  /\ NoPayload \notin PayloadId
  /\ None \notin Flashblock
  /\ \A fb \in Flashblock : /\ fb.payload_id \in PayloadId
                            /\ fb.index \in Nat
                            /\ fb.oversize \in BOOLEAN

VARIABLES
  payload_id,        \* FlashblocksP2PState::payload_id
  flashblock_index,  \* next index to emit on the stream
  flashblocks,       \* buffer of the current payload
  peer_tx,           \* everything sent on the channel to the connections
  flashblock_tx      \* everything sent on the channel to the consumers

p2pVars == <<payload_id, flashblock_index, flashblocks, peer_tx, flashblock_tx>>

Slot == 0 .. MAX_FLASHBLOCK_INDEX

EmptyBuffer == [i \in Slot |-> None]

-----------------------------------------------------------------------------
Init ==
  /\ payload_id = NoPayload
  /\ flashblock_index = 0
  /\ flashblocks = EmptyBuffer
  /\ peer_tx = <<>>
  /\ flashblock_tx = <<>>

BufferForNoReset(fb) == flashblocks  \* mutant: the buffer is not cleared

FrontierForNoReset(fb) == flashblock_index  \* mutant: the frontier is not reset

\* Step 1 of publish: a different payload id discards the buffer.
BufferFor(fb) == IF fb.payload_id = payload_id THEN flashblocks ELSE EmptyBuffer

FrontierFor(fb) == IF fb.payload_id = payload_id THEN flashblock_index ELSE 0

\* The flashblocks of slots lo .. hi - 1, in order.
Run(buffer, lo, hi) == [k \in 1 .. (hi - lo) |-> buffer[lo + k - 1]]

\* `flashblocks.get(i)` is Some(Some(_)).
Ready(buffer, i) == i \in Slot /\ buffer[i] # None

EmitOnlyOne(buffer, lo) ==  \* mutant: `if let` instead of `while let`
  IF Ready(buffer, lo)
    THEN /\ flashblock_tx' = Append(flashblock_tx, buffer[lo])
         /\ flashblock_index' = lo + 1
    ELSE UNCHANGED flashblock_tx /\ flashblock_index' = lo

EmitAdvanceTooFar(buffer, lo) ==  \* mutant: the frontier moves before the test
  \E hi \in lo .. (MAX_FLASHBLOCK_INDEX + 1) :
    /\ \A i \in lo .. (hi - 1) : Ready(buffer, i)
    /\ ~Ready(buffer, hi)
    /\ flashblock_tx' = flashblock_tx \o Run(buffer, lo, hi)
    /\ flashblock_index' = hi + 1

EmitWithoutAdvance(buffer, lo) ==  \* mutant: the frontier is not stored
  \E hi \in lo .. (MAX_FLASHBLOCK_INDEX + 1) :
    /\ \A i \in lo .. (hi - 1) : Ready(buffer, i)
    /\ ~Ready(buffer, hi)
    /\ flashblock_tx' = flashblock_tx \o Run(buffer, lo, hi)
    /\ flashblock_index' = lo

\* Step 5: emit from the frontier up to the first missing flashblock.
EmitConsecutive(buffer, lo) ==
  \E hi \in lo .. (MAX_FLASHBLOCK_INDEX + 1) :
    /\ \A i \in lo .. (hi - 1) : Ready(buffer, i)
    /\ ~Ready(buffer, hi)
    /\ flashblock_tx' = flashblock_tx \o Run(buffer, lo, hi)
    /\ flashblock_index' = hi

\* Step 2: the index is checked after the reset of step 1 has taken effect.
RejectIndex(fb) ==
  /\ fb.index > MAX_FLASHBLOCK_INDEX
  /\ payload_id' = fb.payload_id
  /\ flashblocks' = BufferFor(fb)
  /\ flashblock_index' = FrontierFor(fb)
  /\ UNCHANGED <<peer_tx, flashblock_tx>>

AlreadyCachedRebroadcast(fb) ==  \* mutant: broadcast before the cache check
  /\ fb.index <= MAX_FLASHBLOCK_INDEX
  /\ BufferFor(fb)[fb.index] # None
  /\ peer_tx' = Append(peer_tx, fb)
  /\ UNCHANGED <<payload_id, flashblock_index, flashblocks, flashblock_tx>>

\* Step 3: this index of the current payload is cached already.
AlreadyCached(fb) ==
  /\ fb.index <= MAX_FLASHBLOCK_INDEX
  /\ BufferFor(fb)[fb.index] # None
  /\ UNCHANGED p2pVars

\* Steps 3 and 4 of a flashblock whose message is larger than MAX_FRAME: it is
\* cached, then publish returns before it broadcasts or emits anything.
CacheOversize(fb) ==
  /\ fb.index <= MAX_FLASHBLOCK_INDEX
  /\ BufferFor(fb)[fb.index] = None
  /\ fb.oversize
  /\ payload_id' = fb.payload_id
  /\ flashblocks' = [BufferFor(fb) EXCEPT ![fb.index] = fb]
  /\ flashblock_index' = FrontierFor(fb)
  /\ UNCHANGED <<peer_tx, flashblock_tx>>

BroadcastInOrderOnly(fb) ==  \* mutant: only a flashblock at the frontier is relayed
  /\ fb.index <= MAX_FLASHBLOCK_INDEX
  /\ BufferFor(fb)[fb.index] = None
  /\ ~fb.oversize
  /\ payload_id' = fb.payload_id
  /\ flashblocks' = [BufferFor(fb) EXCEPT ![fb.index] = fb]
  /\ peer_tx' = IF fb.index = FrontierFor(fb) THEN Append(peer_tx, fb) ELSE peer_tx
  /\ EmitConsecutive(flashblocks', FrontierFor(fb))

\* Steps 3 to 5 of every other flashblock.
CacheAndBroadcast(fb) ==
  /\ fb.index <= MAX_FLASHBLOCK_INDEX
  /\ BufferFor(fb)[fb.index] = None
  /\ ~fb.oversize
  /\ payload_id' = fb.payload_id
  /\ flashblocks' = [BufferFor(fb) EXCEPT ![fb.index] = fb]
  /\ peer_tx' = Append(peer_tx, fb)
  /\ EmitConsecutive(flashblocks', FrontierFor(fb))

\* FlashblocksP2PCtx::publish, one step under the state mutex.
Publish(fb) ==
  \/ RejectIndex(fb)
  \/ AlreadyCached(fb)
  \/ CacheOversize(fb)
  \/ CacheAndBroadcast(fb)

Next == \E fb \in Flashblock : Publish(fb)

Spec == Init /\ [][Next]_p2pVars

-----------------------------------------------------------------------------
P2PTypeOK ==
  /\ payload_id \in PayloadId \cup {NoPayload}
  /\ flashblock_index \in 0 .. (MAX_FLASHBLOCK_INDEX + 1)
  /\ flashblocks \in [Slot -> Flashblock \cup {None}]
  /\ peer_tx \in Seq(Flashblock)
  /\ flashblock_tx \in Seq(Flashblock)

(***************************************************************************)
(* Slot i holds flashblock i of the current payload, and nothing below the *)
(* frontier is missing: publish never leaves a flashblock of an earlier    *)
(* payload in the buffer when it resets it (p2p.rs:251-257).               *)
(***************************************************************************)
BufferCoherent ==
  /\ \A i \in Slot : flashblocks[i] # None =>
       flashblocks[i].payload_id = payload_id /\ flashblocks[i].index = i
  /\ \A i \in 0 .. (flashblock_index - 1) : flashblocks[i] # None

(***************************************************************************)
(* In-order delivery (p2p.rs:138-143): whatever the order in which         *)
(* flashblocks arrive, a consumer of flashblock_tx sees flashblock k > 0   *)
(* of a payload immediately after flashblock k - 1 of the same payload.    *)
(***************************************************************************)
InOrder ==
  \A k \in 1 .. Len(flashblock_tx) : flashblock_tx[k].index > 0 =>
    /\ k > 1
    /\ flashblock_tx[k - 1].payload_id = flashblock_tx[k].payload_id
    /\ flashblock_tx[k - 1].index = flashblock_tx[k].index - 1

(***************************************************************************)
(* The emit loop leaves nothing behind (p2p.rs:329-343): a flashblock that *)
(* is cached and whose predecessors were all emitted has been emitted too, *)
(* unless it is itself too large to broadcast and waits for the next       *)
(* publish of its payload.                                                 *)
(***************************************************************************)
FrontierAtGap ==
  Ready(flashblocks, flashblock_index) => flashblocks[flashblock_index].oversize

(***************************************************************************)
(* What the node's own consumers see, its peers were sent first            *)
(* (p2p.rs:314-343); only a flashblock above MAX_FRAME is emitted locally  *)
(* without ever being broadcast.                                           *)
(***************************************************************************)
EmittedWasBroadcast ==
  \A k \in 1 .. Len(flashblock_tx) :
    flashblock_tx[k].oversize \/ \E j \in 1 .. Len(peer_tx) : peer_tx[j] = flashblock_tx[k]

\* The in-order stream, read off the state of the protocol.
Stream == INSTANCE FlashblockStream
            WITH current <- payload_id, next <- flashblock_index, out <- flashblock_tx

(***************************************************************************)
(* The buffering protocol implements the in-order stream: every publish is *)
(* a delivery of the next flashblocks of one payload, or is invisible to   *)
(* the consumers (p2p.rs:241-344 against the promise at 138-143).          *)
(***************************************************************************)
ImplementsStream == Stream!Spec

=============================================================================
