---------------------- MODULE FlashblocksConnectionProofs ----------------------
(***************************************************************************)
(* Proofs about FlashblocksConnection, for any peers, flashblocks, receiver *)
(* capacity and number of messages.                                        *)
(***************************************************************************)
EXTENDS FlashblocksConnection, FlashblocksP2PProofs

ConnTypes == TypeOK /\ peer_rx \in [Peer -> Nat]

\* As long as payloads come in turn, the payload of the last broadcast is the
\* current one, what was broadcast of it is cached, and nothing is broadcast
\* twice.
BroadcastOnce ==
  /\ \A j \in 1 .. Len(peer_tx) : peer_tx[j].index \in Slot
  /\ PayloadsInTurn =>
       /\ \A i \in Slot : flashblocks[i] # None => ~flashblocks[i].oversize
       /\ Len(peer_tx) > 0 => peer_tx[Len(peer_tx)].payload_id = payload_id
       /\ \A j \in 1 .. Len(peer_tx) :
            peer_tx[j].payload_id = payload_id => flashblocks[peer_tx[j].index] # None
       /\ \A j, k \in 1 .. Len(peer_tx) : j < k => ~SameFlashblock(peer_tx[j], peer_tx[k])

\* `received` holds the indices of the last run of one payload.
ReceivedIsRun(c) ==
  /\ \A x \in Slot : x \in received[c] <=>
       \E j \in 1 .. Len(handled[c]) :
         /\ handled[c][j].index = x
         /\ \A i \in j .. Len(handled[c]) : handled[c][i].payload_id = conn_payload_id[c]
  /\ Len(handled[c]) > 0 => handled[c][Len(handled[c])].payload_id = conn_payload_id[c]

PenaltyIsExact(c) ==
  (\E k \in 1 .. Len(penalties[c]) : penalties[c][k] = "AlreadySeenTransaction")
    <=> HasDuplicate(handled[c])

\* A task that waits for its peer is registered with conn.
WaitsForPeer(c) ==
  pc[c] = "idle" => woken[c] \/ (conn_waker[c] /\ inbox[c] = <<>>)

\* What was read from the peer has been broadcast, by whichever connection.
HandledWasBroadcast(c) ==
  PayloadsInTurn =>
    \A j \in 1 .. Len(handled[c]) : handled[c][j].index \in Slot =>
      \E k \in 1 .. Len(peer_tx) : SameFlashblock(peer_tx[k], handled[c][j])

\* What is sent is read off peer_tx in order.
SentInOrder(c) ==
  /\ \A k \in 1 .. Len(sent[c]) : \E p \in 1 .. peer_rx[c] : peer_tx[p] = sent[c][k]
  /\ \A j, k \in 1 .. Len(sent[c]) : j < k =>
       \E p, q \in 1 .. peer_rx[c] : p < q /\ peer_tx[p] = sent[c][j] /\ peer_tx[q] = sent[c][k]

\* Message k of peer_tx is unread and came from peer c.
UnreadEcho(c, k) ==
  /\ k \in (peer_rx[c] + 1) .. Len(peer_tx)
  /\ \E j \in 1 .. Len(handled[c]) : SameFlashblock(peer_tx[k], handled[c][j])

\* Only between a read of conn and the end of the next reads of peer_rx can an
\* echo be unread, one at most, and then the task is woken; so the filter, after
\* which the loop leaves peer_rx without a waker, never puts it to sleep.
EchoesAreFiltered(c) ==
  PayloadsInTurn /\ ~lagged[c] =>
    /\ pc[c] \in {"conn", "idle"} =>
         /\ \A k \in 1 .. Len(peer_tx) : ~UnreadEcho(c, k)
         /\ peer_rx[c] < Len(peer_tx) => woken[c]
         /\ woken[c] \/ rx_waker[c]
    /\ pc[c] = "peer_rx" =>
         \A k \in 1 .. Len(peer_tx) : UnreadEcho(c, k) =>
           /\ Originated(c, peer_tx[k])
           /\ woken[c]
           /\ \A l \in 1 .. Len(peer_tx) : UnreadEcho(c, l) => l = k

\* What holds of one connection.
Connection(c) ==
  /\ ReceivedIsRun(c) /\ PenaltyIsExact(c) /\ WaitsForPeer(c)
  /\ HandledWasBroadcast(c) /\ SentInOrder(c) /\ EchoesAreFiltered(c)

\* A step that at most broadcasts one flashblock, as connection c sees it.
Broadcasts(c) ==
  \/ UNCHANGED <<peer_tx, woken[c], rx_waker[c]>>
  \/ /\ Len(peer_tx') = Len(peer_tx) + 1
     /\ \A k \in 1 .. Len(peer_tx) : peer_tx'[k] = peer_tx[k]
     /\ woken'[c] = (woken[c] \/ rx_waker[c])

\* The task of connection c does not move, nor does its peer.
TaskRests(c) ==
  UNCHANGED <<pc[c], conn_waker[c], peer_rx[c], conn_payload_id[c], received[c], inbox[c],
              penalties[c], handled[c], sent[c], lagged[c]>>

\* The inductive invariant, on top of that of the protocol state.
ConnInv == ConnTypes /\ BroadcastOnce /\ \A c \in Peer : Connection(c)

-----------------------------------------------------------------------------
(***************************************************************************)
(* The next flashblock of the local builder.                               *)
(***************************************************************************)
LEMMA LocalFlashblock ==
  ASSUME TypeOK, local_next <= Len(LocalJob)
  PROVE  LocalJob[local_next] \in Flashblock /\ local_next \in 1 .. Len(LocalJob)
<1>1. LocalJob \in Seq(Flashblock) /\ local_next \in 1 .. (Len(LocalJob) + 1)
  BY ConnectionAssumption DEF TypeOK
<1> QED  BY <1>1

(***************************************************************************)
(* Every step publishes a flashblock or leaves the protocol state alone.   *)
(***************************************************************************)
LEMMA ConnStepIsP2P ==
  ASSUME TypeOK, [ConnNext]_vars
  PROVE  [Next]_p2pVars
<1>1. CASE PublishNew
  BY <1>1, LocalFlashblock DEF PublishNew, PublishAndWake, Next
<1>2. ASSUME NEW c \in Peer, Connect(c) \/ \E msg : Arrive(c, msg) PROVE UNCHANGED p2pVars
  BY <1>2 DEF Connect, Arrive
<1>3. ASSUME NEW c \in Peer, HandleFlashblock(c) PROVE [Next]_p2pVars
  BY <1>3 DEF HandleFlashblock, PublishAndWake, Next
<1>4. ASSUME NEW c \in Peer, Task(c), ~HandleFlashblock(c) PROVE UNCHANGED p2pVars
  BY <1>4 DEF Task, Poll, RxPending, RxLagged, RxReady, ConnPending, ConnEnds
<1>5. CASE UNCHANGED vars
  BY <1>5 DEF vars
<1> QED  BY <1>1, <1>2, <1>3, <1>4, <1>5 DEF ConnNext

(***************************************************************************)
(* What publish does to the channel of the connections (p2p.rs:314-321).   *)
(***************************************************************************)
LEMMA PeerTxGrows ==
  ASSUME IInv, NEW fb \in Flashblock, Publish(fb)
  PROVE  /\ peer_tx \in Seq(Flashblock) /\ peer_tx' \in Seq(Flashblock)
         /\ Len(peer_tx) \in Nat /\ Len(peer_tx') >= Len(peer_tx)
         /\ \A k \in 1 .. Len(peer_tx) : peer_tx'[k] = peer_tx[k]
         /\ \/ peer_tx' = peer_tx
            \/ /\ Len(peer_tx') = Len(peer_tx) + 1
               /\ peer_tx'[Len(peer_tx) + 1] = fb
               /\ CacheAndBroadcast(fb)
<1>1. peer_tx \in Seq(Flashblock)
  BY DEF IInv, P2PTypeOK
<1>2. CASE UNCHANGED peer_tx
  BY <1>1, <1>2
<1>3. CASE CacheAndBroadcast(fb)
  BY <1>1, <1>3, AppendFacts DEF CacheAndBroadcast
<1> QED  BY <1>2, <1>3 DEF Publish, RejectIndex, AlreadyCached, CacheOversize, p2pVars

(***************************************************************************)
(* A publish wakes exactly the tasks that wait for peer_tx, if it sends.   *)
(***************************************************************************)
LEMMA WakeFacts ==
  ASSUME ConnTypes, NEW fb, PublishAndWake(fb)
  PROVE  /\ woken' \in [Peer -> BOOLEAN] /\ rx_waker' \in [Peer -> BOOLEAN]
         /\ \A c \in Peer : woken[c] => woken'[c]
         /\ peer_tx' # peer_tx => \A c \in Peer : woken'[c] = (woken[c] \/ rx_waker[c])
         /\ peer_tx' = peer_tx => UNCHANGED <<woken, rx_waker>>
<1>1. woken \in [Peer -> BOOLEAN] /\ rx_waker \in [Peer -> BOOLEAN]
  BY DEF ConnTypes, TypeOK
<1> QED  BY <1>1 DEF PublishAndWake

(***************************************************************************)
(* The initial state satisfies the invariant.                              *)
(***************************************************************************)
LEMMA InitConnInv == ConnInit => IInv /\ ConnInv
<1> SUFFICES ASSUME ConnInit PROVE IInv /\ ConnInv
  OBVIOUS
<1>1. IInv
  BY InitIInv DEF ConnInit
<1>2. peer_tx = <<>> /\ Len(LocalJob) \in Nat /\ MaxInbound \in Nat
      /\ \A i \in Slot : flashblocks[i] = None
  BY ConnectionAssumption DEF ConnInit, Init, EmptyBuffer
<1>3. ConnTypes
  <2>1. /\ inbox \in [Peer -> Seq(RemoteFlashblock \cup {Garbage, Eof})]
        /\ penalties \in [Peer -> Seq({"BadMessage", "AlreadySeenTransaction"})]
        /\ handled \in [Peer -> Seq(RemoteFlashblock)]
        /\ sent \in [Peer -> Seq(Flashblock)]
    BY DEF ConnInit
  <2>2. /\ pc \in [Peer -> {"closed", "idle", "peer_rx", "conn"}]
        /\ woken \in [Peer -> BOOLEAN] /\ rx_waker \in [Peer -> BOOLEAN]
        /\ conn_waker \in [Peer -> BOOLEAN] /\ lagged \in [Peer -> BOOLEAN]
        /\ received \in [Peer -> SUBSET Slot]
        /\ conn_payload_id \in [Peer -> PayloadId \cup {NoPayload}]
    BY DEF ConnInit
  <2>3. peer_rx \in [Peer -> Nat] /\ \A c \in Peer : peer_rx[c] \in 0 .. Len(peer_tx)
    BY <1>2 DEF ConnInit
  <2>4. local_next \in 1 .. (Len(LocalJob) + 1) /\ inbound \in 0 .. MaxInbound
    BY <1>2 DEF ConnInit
  <2> QED  BY <1>1, <2>1, <2>2, <2>3, <2>4 DEF IInv, ConnTypes, TypeOK
<1>4. BroadcastOnce
  BY <1>2 DEF BroadcastOnce
<1>5. ASSUME NEW c \in Peer PROVE Connection(c)
  <2>1. ReceivedIsRun(c) /\ PenaltyIsExact(c) /\ WaitsForPeer(c)
    BY DEF ConnInit, ReceivedIsRun, PenaltyIsExact, WaitsForPeer, HasDuplicate
  <2>2. HandledWasBroadcast(c) /\ SentInOrder(c) /\ EchoesAreFiltered(c)
    BY DEF ConnInit, HandledWasBroadcast, SentInOrder, EchoesAreFiltered
  <2> QED  BY <2>1, <2>2 DEF Connection
<1> QED  BY <1>1, <1>3, <1>4, <1>5 DEF ConnInv

(***************************************************************************)
(* The types are preserved.                                                *)
(***************************************************************************)
LEMMA ConnTypesPreserved ==
  ASSUME IInv, IInv', ConnTypes, ConnNext
  PROVE  ConnTypes'
<1> USE DEF ConnTypes, p2pVars
<1> DEFINE Msg == RemoteFlashblock \cup {Garbage, Eof}
           Penalty == {"BadMessage", "AlreadySeenTransaction"}
<1>0. P2PTypeOK' /\ peer_tx \in Seq(Flashblock) /\ Len(peer_tx) \in Nat
  BY DEF IInv, P2PTypeOK
<1>a. /\ CAPACITY \in Nat \ {0} /\ MaxInbound \in Nat /\ Len(LocalJob) \in Nat
      /\ RemoteFlashblock \subseteq Flashblock
  BY ConnectionAssumption
<1>1. CASE PublishNew
  <2>1. LocalJob[local_next] \in Flashblock /\ local_next' \in 1 .. (Len(LocalJob) + 1)
    BY <1>1, <1>a, LocalFlashblock DEF PublishNew, TypeOK
  <2>2. woken' \in [Peer -> BOOLEAN] /\ rx_waker' \in [Peer -> BOOLEAN]
    BY <1>1, WakeFacts DEF PublishNew
  <2>3. \A c \in Peer : peer_rx[c] \in 0 .. Len(peer_tx')
    BY <1>1, <2>1, PeerTxGrows DEF PublishNew, PublishAndWake, TypeOK
  <2> QED  BY <1>0, <1>1, <2>1, <2>2, <2>3 DEF PublishNew, TypeOK
<1>2. ASSUME NEW c \in Peer, Connect(c) PROVE ConnTypes'
  <2>1. /\ inbox' \in [Peer -> Seq(Msg)] /\ penalties' \in [Peer -> Seq(Penalty)]
        /\ handled' \in [Peer -> Seq(RemoteFlashblock)] /\ sent' \in [Peer -> Seq(Flashblock)]
    BY <1>2 DEF Connect, TypeOK
  <2>2. /\ pc' \in [Peer -> {"closed", "idle", "peer_rx", "conn"}]
        /\ woken' \in [Peer -> BOOLEAN] /\ rx_waker' \in [Peer -> BOOLEAN]
        /\ conn_waker' \in [Peer -> BOOLEAN] /\ lagged' \in [Peer -> BOOLEAN]
        /\ received' \in [Peer -> SUBSET Slot]
        /\ conn_payload_id' \in [Peer -> PayloadId \cup {NoPayload}]
    BY <1>2 DEF Connect, TypeOK
  <2>3. peer_rx' \in [Peer -> Nat] /\ \A d \in Peer : peer_rx'[d] \in 0 .. Len(peer_tx')
    BY <1>0, <1>2 DEF Connect, TypeOK
  <2> QED  BY <1>0, <1>2, <2>1, <2>2, <2>3 DEF Connect, TypeOK
<1>3. ASSUME NEW c \in Peer, NEW msg \in Msg, Arrive(c, msg) PROVE ConnTypes'
  <2>1. inbox' \in [Peer -> Seq(Msg)]
    BY <1>3 DEF Arrive, TypeOK
  <2>2. woken' \in [Peer -> BOOLEAN] /\ conn_waker' \in [Peer -> BOOLEAN]
    BY <1>3 DEF Arrive, TypeOK
  <2>3. inbound' \in 0 .. MaxInbound
    BY <1>3, <1>a DEF Arrive, TypeOK
  <2> QED  BY <1>0, <1>3, <2>1, <2>2, <2>3 DEF Arrive, TypeOK
<1>4. ASSUME NEW c \in Peer, Poll(c) PROVE ConnTypes'
  BY <1>0, <1>4 DEF Poll, TypeOK
<1>5. ASSUME NEW c \in Peer, RxPending(c) PROVE ConnTypes'
  BY <1>0, <1>5 DEF RxPending, TypeOK
<1>6. ASSUME NEW c \in Peer, RxLagged(c) PROVE ConnTypes'
  <2>1. peer_rx' \in [Peer -> Nat] /\ \A d \in Peer : peer_rx'[d] \in 0 .. Len(peer_tx')
    BY <1>0, <1>a, <1>6 DEF RxLagged, TypeOK
  <2> QED  BY <1>0, <1>6, <2>1 DEF RxLagged, TypeOK
<1>7. ASSUME NEW c \in Peer, RxReady(c) PROVE ConnTypes'
  <2>1. peer_rx[c] + 1 \in 1 .. Len(peer_tx)
    BY <1>0, <1>a, <1>7 DEF RxReady, TypeOK
  <2>2. peer_rx' \in [Peer -> Nat] /\ \A d \in Peer : peer_rx'[d] \in 0 .. Len(peer_tx')
    BY <1>0, <1>7, <2>1 DEF RxReady, TypeOK
  <2>3. sent' \in [Peer -> Seq(Flashblock)]
    <3>1. peer_tx[peer_rx[c] + 1] \in Flashblock
      BY <1>0, <2>1
    <3>2. sent' = sent \/ sent' = [sent EXCEPT ![c] = Append(@, peer_tx[peer_rx[c] + 1])]
      BY <1>7 DEF RxReady
    <3>3. sent \in [Peer -> Seq(Flashblock)]
      BY DEF TypeOK
    <3>4. Append(sent[c], peer_tx[peer_rx[c] + 1]) \in Seq(Flashblock)
      BY <3>1, <3>3
    <3> QED  BY <3>2, <3>3, <3>4
  <2>4. pc' \in [Peer -> {"closed", "idle", "peer_rx", "conn"}]
    BY <1>7 DEF RxReady, TypeOK
  <2> QED  BY <1>0, <1>7, <2>2, <2>3, <2>4 DEF RxReady, TypeOK
<1>8. ASSUME NEW c \in Peer, ConnPending(c) PROVE ConnTypes'
  BY <1>0, <1>8 DEF ConnPending, TypeOK
<1>9. ASSUME NEW c \in Peer, ConnEnds(c) PROVE ConnTypes'
  <2>1. penalties' \in [Peer -> Seq(Penalty)] /\ inbox' \in [Peer -> Seq(Msg)]
    BY <1>9 DEF ConnEnds, TypeOK
  <2> QED  BY <1>0, <1>9, <2>1 DEF ConnEnds, TypeOK
<1>10. ASSUME NEW c \in Peer, HandleFlashblock(c) PROVE ConnTypes'
  <2> DEFINE fb == Head(inbox[c])
  <2>1. inbox[c] \in Seq(Msg) /\ inbox[c] # <<>> /\ fb \in Flashblock
    BY <1>10 DEF HandleFlashblock, TypeOK
  <2>2. fb \in RemoteFlashblock /\ fb.payload_id \in PayloadId /\ fb.index \in Nat
    <3>1. fb \in Msg /\ Garbage \notin Flashblock /\ Eof \notin Flashblock
      BY <2>1, ConnectionAssumption
    <3> QED  BY <2>1, <3>1, P2PAssumption
  <2> HIDE DEF fb
  <2>3. inbox' \in [Peer -> Seq(Msg)]
    BY <1>10, <2>1 DEF HandleFlashblock, TypeOK
  <2>4. handled' \in [Peer -> Seq(RemoteFlashblock)]
        /\ conn_payload_id' \in [Peer -> PayloadId \cup {NoPayload}]
        /\ pc' \in [Peer -> {"closed", "idle", "peer_rx", "conn"}]
    BY <1>10, <2>2 DEF HandleFlashblock, TypeOK, fb
  <2>5. received' \in [Peer -> SUBSET Slot] /\ penalties' \in [Peer -> Seq(Penalty)]
    <3>1. /\ received \in [Peer -> SUBSET Slot] /\ penalties \in [Peer -> Seq(Penalty)]
          /\ ReceivedFor(c, fb) \in SUBSET Slot
      BY DEF TypeOK, ReceivedFor
    <3>2. Append(penalties[c], "AlreadySeenTransaction") \in Seq(Penalty)
      BY <3>1
    <3>3. \/ UNCHANGED received
          \/ received' = [received EXCEPT ![c] = ReceivedFor(c, fb)]
          \/ /\ fb.index \in Slot
             /\ received' = [received EXCEPT ![c] = ReceivedFor(c, fb) \cup {fb.index}]
      BY <1>10 DEF HandleFlashblock, fb
    <3>4. \/ UNCHANGED penalties
          \/ penalties' = [penalties EXCEPT ![c] = Append(@, "AlreadySeenTransaction")]
      BY <1>10 DEF HandleFlashblock
    <3>5. received' \in [Peer -> SUBSET Slot]
      BY <3>1, <3>3
    <3>6. penalties' \in [Peer -> Seq(Penalty)]
      BY <3>1, <3>2, <3>4
    <3> QED  BY <3>5, <3>6
  <2>6. woken' \in [Peer -> BOOLEAN] /\ rx_waker' \in [Peer -> BOOLEAN]
    BY <1>10, WakeFacts DEF HandleFlashblock, TypeOK
  <2>7. \A d \in Peer : peer_rx[d] \in 0 .. Len(peer_tx')
    <3>1. CASE peer_tx' = peer_tx
      BY <3>1 DEF TypeOK
    <3>2. CASE Publish(fb)
      BY <2>1, <3>2, PeerTxGrows DEF TypeOK, fb
    <3> QED  BY <1>10, <3>1, <3>2 DEF HandleFlashblock, PublishAndWake, fb
  <2> QED  BY <1>0, <1>10, <2>3, <2>4, <2>5, <2>6, <2>7 DEF HandleFlashblock, TypeOK
<1> QED  BY <1>1, <1>2, <1>3, <1>4, <1>5, <1>6, <1>7, <1>8, <1>9, <1>10 DEF ConnNext, Task

(***************************************************************************)
(* Payloads that come in turn came in turn before (p2p.rs:314-321).        *)
(***************************************************************************)
LEMMA InTurnBefore ==
  ASSUME peer_tx \in Seq(Flashblock), peer_tx' \in Seq(Flashblock),
         Len(peer_tx') >= Len(peer_tx),
         \A k \in 1 .. Len(peer_tx) : peer_tx'[k] = peer_tx[k],
         PayloadsInTurn'
  PROVE  PayloadsInTurn
<1>1. Len(peer_tx) \in Nat /\ Len(peer_tx') \in Nat
  OBVIOUS
<1>2. LocalFits
  BY DEF PayloadsInTurn, LocalFits
<1>3. ASSUME NEW i \in 1 .. Len(peer_tx), NEW k \in 1 .. Len(peer_tx), i < k,
             peer_tx[i].payload_id = peer_tx[k].payload_id, NEW j \in i .. k
      PROVE  peer_tx[j].payload_id = peer_tx[k].payload_id
  <2>1. i \in 1 .. Len(peer_tx') /\ k \in 1 .. Len(peer_tx') /\ j \in 1 .. Len(peer_tx)
    BY <1>1, <1>3
  <2>2. peer_tx'[i].payload_id = peer_tx'[k].payload_id
    BY <1>3
  <2>3. peer_tx'[j].payload_id = peer_tx'[k].payload_id
    BY <1>3, <2>1, <2>2 DEF PayloadsInTurn
  <2> QED  BY <1>3, <2>1, <2>3
<1> QED  BY <1>2, <1>3 DEF PayloadsInTurn

(***************************************************************************)
(* While payloads come in turn, publish broadcasts a flashblock once, and  *)
(* what it is given has been broadcast when it returns (p2p.rs:251-321).   *)
(***************************************************************************)
LEMMA PublishOnce ==
  ASSUME IInv, BroadcastOnce, NEW fb \in Flashblock, Publish(fb),
         LocalFits => fb.index \in Slot /\ ~fb.oversize
  PROVE  /\ BroadcastOnce'
         /\ PayloadsInTurn' =>
              \E k \in 1 .. Len(peer_tx') : SameFlashblock(peer_tx'[k], fb)
<1> DEFINE n == Len(peer_tx)
<1>1. /\ peer_tx \in Seq(Flashblock) /\ peer_tx' \in Seq(Flashblock)
      /\ n \in Nat /\ Len(peer_tx') >= n
      /\ \A k \in 1 .. n : peer_tx'[k] = peer_tx[k]
  BY PeerTxGrows
<1>2. PayloadsInTurn' => PayloadsInTurn /\ fb.index \in Slot /\ ~fb.oversize
  BY <1>1, InTurnBefore DEF PayloadsInTurn, LocalFits
<1>3. fb.index \in Nat /\ MAX_FLASHBLOCK_INDEX \in Nat /\ fb # None
  BY P2PAssumption
<1>4. flashblocks \in [Slot -> Flashblock \cup {None}]
  BY DEF IInv, P2PTypeOK
<1>5. CASE RejectIndex(fb) \/ CacheOversize(fb)
  <2>1. ~PayloadsInTurn'
    BY <1>2, <1>3, <1>5 DEF RejectIndex, CacheOversize, Slot
  <2>2. peer_tx' = peer_tx
    BY <1>5 DEF RejectIndex, CacheOversize
  <2> QED  BY <2>1, <2>2 DEF BroadcastOnce
<1>6. CASE AlreadyCached(fb)
  <2>1. BroadcastOnce'
    BY <1>6 DEF AlreadyCached, BroadcastOnce, p2pVars, PayloadsInTurn, LocalFits
  <2>2. ASSUME PayloadsInTurn'
        PROVE  \E k \in 1 .. Len(peer_tx') : SameFlashblock(peer_tx'[k], fb)
    <3>1. fb.index \in Slot /\ PayloadsInTurn
      BY <1>2, <2>2
    <3>2. fb.payload_id = payload_id /\ flashblocks[fb.index] # None
      BY <1>6, <3>1 DEF AlreadyCached, BufferFor, EmptyBuffer
    <3>3. ~flashblocks[fb.index].oversize
      BY <3>1, <3>2 DEF BroadcastOnce
    <3>4. PICK k \in 1 .. n : peer_tx[k] = flashblocks[fb.index]
      BY <3>1, <3>2, <3>3 DEF IInv, CachedWasBroadcast
    <3>5. peer_tx[k].payload_id = fb.payload_id /\ peer_tx[k].index = fb.index
      BY <3>1, <3>2, <3>4 DEF IInv, BufferCoherent
    <3> QED  BY <1>6, <3>5 DEF SameFlashblock, AlreadyCached, p2pVars
  <2> QED  BY <2>1, <2>2
<1>7. CASE CacheAndBroadcast(fb)
  <2>1. /\ payload_id' = fb.payload_id /\ fb.index \in Slot
        /\ BufferFor(fb)[fb.index] = None
        /\ BufferFor(fb) \in [Slot -> Flashblock \cup {None}]
        /\ flashblocks' = [BufferFor(fb) EXCEPT ![fb.index] = fb]
        /\ Len(peer_tx') = n + 1 /\ peer_tx'[n + 1] = fb
    BY <1>1, <1>3, <1>7, ResetFacts, AppendFacts DEF CacheAndBroadcast, Slot
  <2>2. \A i \in Slot : flashblocks'[i] = IF i = fb.index THEN fb ELSE BufferFor(fb)[i]
    BY <2>1
  <2>3. \A j \in 1 .. Len(peer_tx') : peer_tx'[j].index \in Slot
    BY <1>1, <2>1 DEF BroadcastOnce
  <2>4. ASSUME PayloadsInTurn', NEW j \in 1 .. n, peer_tx[j].payload_id = fb.payload_id
        PROVE  /\ BufferFor(fb)[peer_tx[j].index] # None
               /\ peer_tx[j].index # fb.index
    <3>1. n \in j .. (n + 1) /\ j \in 1 .. (n + 1) /\ j < n + 1 /\ n \in 1 .. n
      BY <1>1
    <3>2. peer_tx'[j].payload_id = peer_tx'[n + 1].payload_id
      BY <1>1, <2>1, <2>4
    <3>3. peer_tx'[n].payload_id = peer_tx'[n + 1].payload_id
      BY <2>1, <2>4, <3>1, <3>2 DEF PayloadsInTurn
    <3>4. fb.payload_id = payload_id
      BY <1>1, <1>2, <2>1, <2>4, <3>1, <3>3 DEF BroadcastOnce
    <3>5. flashblocks[peer_tx[j].index] # None
      BY <1>2, <2>4, <3>4 DEF BroadcastOnce
    <3> QED  BY <2>1, <3>4, <3>5 DEF BufferFor
  <2>5. ASSUME PayloadsInTurn' PROVE \A i \in Slot : flashblocks'[i] # None => ~flashblocks'[i].oversize
    BY <1>2, <2>1, <2>2, <2>5 DEF BufferFor, EmptyBuffer, BroadcastOnce
  <2>6. ASSUME PayloadsInTurn', NEW j \in 1 .. Len(peer_tx'), peer_tx'[j].payload_id = payload_id'
        PROVE  flashblocks'[peer_tx'[j].index] # None
    <3>1. CASE j = n + 1
      BY <1>3, <2>1, <2>2, <3>1
    <3>2. CASE j \in 1 .. n
      BY <1>1, <2>1, <2>2, <2>3, <2>4, <2>6, <3>2
    <3> QED  BY <1>1, <2>1, <3>1, <3>2
  <2>7. ASSUME PayloadsInTurn', NEW j \in 1 .. Len(peer_tx'), NEW k \in 1 .. Len(peer_tx'), j < k
        PROVE  ~SameFlashblock(peer_tx'[j], peer_tx'[k])
    <3>1. j \in 1 .. n
      BY <1>1, <2>1, <2>7
    <3>2. CASE k = n + 1
      BY <1>1, <2>1, <2>4, <2>7, <3>1, <3>2 DEF SameFlashblock
    <3>3. CASE k \in 1 .. n
      BY <1>1, <1>2, <2>7, <3>1, <3>3 DEF SameFlashblock, BroadcastOnce
    <3> QED  BY <1>1, <2>1, <3>2, <3>3
  <2>8. peer_tx'[Len(peer_tx')].payload_id = payload_id' /\ n + 1 \in 1 .. Len(peer_tx')
    BY <1>1, <2>1
  <2>9. SameFlashblock(peer_tx'[n + 1], fb)
    BY <2>1 DEF SameFlashblock
  <2> QED  BY <2>3, <2>5, <2>6, <2>7, <2>8, <2>9 DEF BroadcastOnce
<1> QED  BY <1>5, <1>6, <1>7 DEF Publish

(***************************************************************************)
(* A publish as the connections see it, those of the publisher's own peers *)
(* included.                                                               *)
(***************************************************************************)
LEMMA PublishBroadcasts ==
  ASSUME IInv, ConnTypes, NEW fb \in Flashblock, PublishAndWake(fb), NEW c \in Peer
  PROVE  Broadcasts(c)
<1>1. Publish(fb)
  BY DEF PublishAndWake
<1>2. CASE peer_tx' = peer_tx
  BY <1>2, WakeFacts DEF Broadcasts
<1>3. CASE peer_tx' # peer_tx
  BY <1>1, <1>3, WakeFacts, PeerTxGrows DEF Broadcasts
<1> QED  BY <1>2, <1>3

(***************************************************************************)
(* What is broadcast next is never an echo to a peer that had sent it:     *)
(* that would be a second broadcast of it (connection.rs:116-120).         *)
(***************************************************************************)
LEMMA NewIsNoEcho ==
  ASSUME peer_tx \in Seq(Flashblock), peer_tx' \in Seq(Flashblock), NEW c \in Peer, Broadcasts(c),
         HandledWasBroadcast(c), BroadcastOnce', PayloadsInTurn', peer_tx' # peer_tx
  PROVE  \A j \in 1 .. Len(handled[c]) :
           ~SameFlashblock(peer_tx'[Len(peer_tx')], handled[c][j])
<1> DEFINE n == Len(peer_tx)
<1>1. /\ n \in Nat /\ Len(peer_tx') = n + 1
      /\ \A k \in 1 .. n : peer_tx'[k] = peer_tx[k]
  BY DEF Broadcasts
<1>2. PayloadsInTurn
  BY <1>1, InTurnBefore
<1>3. SUFFICES ASSUME NEW j \in 1 .. Len(handled[c]), SameFlashblock(peer_tx'[n + 1], handled[c][j])
               PROVE  FALSE
  BY <1>1
<1>4. n + 1 \in 1 .. Len(peer_tx') /\ peer_tx'[n + 1].index \in Slot
  BY <1>1 DEF BroadcastOnce
<1>5. PICK k \in 1 .. n : SameFlashblock(peer_tx[k], handled[c][j])
  BY <1>2, <1>3, <1>4 DEF HandledWasBroadcast, SameFlashblock
<1>6. SameFlashblock(peer_tx'[k], peer_tx'[n + 1]) /\ k < n + 1 /\ k \in 1 .. Len(peer_tx')
  BY <1>1, <1>3, <1>5 DEF SameFlashblock
<1> QED  BY <1>4, <1>6 DEF BroadcastOnce

(***************************************************************************)
(* A connection whose task rests keeps its invariant, whatever the rest of *)
(* the node publishes.                                                     *)
(***************************************************************************)
LEMMA RestingConnection ==
  ASSUME IInv, IInv', ConnInv, BroadcastOnce', NEW c \in Peer, TaskRests(c), Broadcasts(c)
  PROVE  Connection(c)'
<1> DEFINE n == Len(peer_tx)
<1>1. /\ peer_tx \in Seq(Flashblock) /\ peer_tx' \in Seq(Flashblock) /\ n \in Nat
      /\ Connection(c) /\ peer_rx[c] \in 0 .. n
  BY DEF IInv, P2PTypeOK, ConnInv, ConnTypes, TypeOK
<1>2. /\ Len(peer_tx') >= n /\ \A k \in 1 .. n : peer_tx'[k] = peer_tx[k]
      /\ peer_tx' = peer_tx \/ Len(peer_tx') = n + 1
  BY <1>1 DEF Broadcasts
<1>3. PayloadsInTurn' => PayloadsInTurn
  BY <1>1, <1>2, InTurnBefore
<1>4. /\ woken[c] => woken'[c]
      /\ woken[c] \/ rx_waker[c] => woken'[c] \/ rx_waker'[c]
      /\ peer_tx' # peer_tx => (woken[c] \/ rx_waker[c] => woken'[c])
  BY DEF Broadcasts
<1>5. ReceivedIsRun(c)' /\ PenaltyIsExact(c)'
  BY <1>1 DEF TaskRests, Connection, ReceivedIsRun, PenaltyIsExact
<1>6. WaitsForPeer(c)'
  BY <1>1, <1>4 DEF TaskRests, Connection, WaitsForPeer
<1>7. HandledWasBroadcast(c)'
  <2>1. SUFFICES ASSUME PayloadsInTurn', NEW j \in 1 .. Len(handled[c]), handled[c][j].index \in Slot
                 PROVE  \E k \in 1 .. Len(peer_tx') : SameFlashblock(peer_tx'[k], handled[c][j])
    BY DEF HandledWasBroadcast, TaskRests
  <2>2. PICK k \in 1 .. n : SameFlashblock(peer_tx[k], handled[c][j])
    BY <1>1, <1>3, <2>1 DEF Connection, HandledWasBroadcast
  <2> QED  BY <1>1, <1>2, <2>2 DEF SameFlashblock
<1>8. SentInOrder(c)'
  <2>1. \A p \in 1 .. peer_rx[c] : peer_tx'[p] = peer_tx[p]
    BY <1>1, <1>2
  <2> QED  BY <1>1, <2>1 DEF TaskRests, Connection, SentInOrder
<1>9. EchoesAreFiltered(c)'
  <2>1. SUFFICES ASSUME PayloadsInTurn', ~lagged[c]
                 PROVE  EchoesAreFiltered(c)'
    BY DEF EchoesAreFiltered, TaskRests
  <2>2. ASSUME NEW k \in 1 .. Len(peer_tx'), UnreadEcho(c, k)'
        PROVE  k \in 1 .. n /\ UnreadEcho(c, k)
    <3>1. PICK j \in 1 .. Len(handled[c]) : SameFlashblock(peer_tx'[k], handled[c][j])
      BY <2>2 DEF UnreadEcho, TaskRests
    <3>2. k \in 1 .. n
      BY <1>1, <1>2, <2>1, <3>1, NewIsNoEcho DEF Connection
    <3> QED  BY <1>1, <1>2, <2>2, <3>1, <3>2 DEF UnreadEcho, TaskRests
  <2>3. /\ pc[c] \in {"conn", "idle"} =>
             /\ \A k \in 1 .. n : ~UnreadEcho(c, k)
             /\ peer_rx[c] < n => woken[c]
             /\ woken[c] \/ rx_waker[c]
        /\ pc[c] = "peer_rx" =>
             \A k \in 1 .. n : UnreadEcho(c, k) =>
               /\ Originated(c, peer_tx[k]) /\ woken[c]
               /\ \A l \in 1 .. n : UnreadEcho(c, l) => l = k
    BY <1>1, <1>3, <2>1 DEF Connection, EchoesAreFiltered
  <2>4. ASSUME pc[c] \in {"conn", "idle"}
        PROVE  /\ \A k \in 1 .. Len(peer_tx') : ~UnreadEcho(c, k)'
               /\ peer_rx[c] < Len(peer_tx') => woken'[c]
               /\ woken'[c] \/ rx_waker'[c]
    BY <1>2, <1>4, <2>2, <2>3, <2>4
  <2>5. ASSUME pc[c] = "peer_rx", NEW k \in 1 .. Len(peer_tx'), UnreadEcho(c, k)'
        PROVE  /\ Originated(c, peer_tx[k])' /\ woken'[c]
               /\ \A l \in 1 .. Len(peer_tx') : UnreadEcho(c, l)' => l = k
    <3>1. k \in 1 .. n /\ UnreadEcho(c, k) /\ peer_tx'[k] = peer_tx[k]
      BY <1>2, <2>2, <2>5
    <3>2. Originated(c, peer_tx[k])' /\ woken'[c]
      BY <1>4, <2>3, <2>5, <3>1 DEF Originated, TaskRests
    <3> QED  BY <2>2, <2>3, <2>5, <3>1, <3>2
  <2> QED  BY <2>4, <2>5 DEF EchoesAreFiltered, TaskRests
<1> QED  BY <1>5, <1>6, <1>7, <1>8, <1>9 DEF Connection

(***************************************************************************)
(* What was broadcast, handled and sent stays as it is.                    *)
(***************************************************************************)
LEMMA HistoryRests ==
  ASSUME NEW c \in Peer, Connection(c),
         UNCHANGED <<peer_tx, peer_rx[c], conn_payload_id[c], received[c], handled[c], sent[c]>>
  PROVE  /\ PayloadsInTurn' <=> PayloadsInTurn
         /\ ReceivedIsRun(c)' /\ HandledWasBroadcast(c)' /\ SentInOrder(c)'
         /\ UNCHANGED penalties[c] => PenaltyIsExact(c)'
<1>1. PayloadsInTurn' <=> PayloadsInTurn
  BY DEF PayloadsInTurn, LocalFits
<1>2. ReceivedIsRun(c)'
  BY DEF Connection, ReceivedIsRun
<1>3. UNCHANGED penalties[c] => PenaltyIsExact(c)'
  BY DEF Connection, PenaltyIsExact
<1>4. HandledWasBroadcast(c)'
  BY <1>1 DEF Connection, HandledWasBroadcast
<1>5. SentInOrder(c)'
  BY DEF Connection, SentInOrder
<1> QED  BY <1>1, <1>2, <1>3, <1>4, <1>5

(***************************************************************************)
(* A new connection has no history, and its task is scheduled.             *)
(***************************************************************************)
LEMMA ConnectKeeps ==
  ASSUME ConnInv, NEW c \in Peer, Connect(c)
  PROVE  Connection(c)'
<1>1. /\ handled'[c] = <<>> /\ sent'[c] = <<>> /\ penalties'[c] = <<>> /\ received'[c] = {}
      /\ woken'[c] = TRUE /\ pc'[c] = "idle" /\ peer_rx'[c] = Len(peer_tx')
      /\ Len(peer_tx') \in Nat
  BY DEF Connect, ConnInv, ConnTypes, TypeOK, P2PTypeOK, p2pVars
<1>2. ReceivedIsRun(c)' /\ PenaltyIsExact(c)' /\ WaitsForPeer(c)'
  BY <1>1 DEF ReceivedIsRun, PenaltyIsExact, WaitsForPeer, HasDuplicate
<1>3. HandledWasBroadcast(c)' /\ SentInOrder(c)' /\ EchoesAreFiltered(c)'
  BY <1>1 DEF HandledWasBroadcast, SentInOrder, EchoesAreFiltered, UnreadEcho
<1> QED  BY <1>2, <1>3 DEF Connection

(***************************************************************************)
(* Bytes that arrive wake the task that waits for them.                    *)
(***************************************************************************)
LEMMA ArriveKeeps ==
  ASSUME ConnInv, NEW c \in Peer, NEW msg, Arrive(c, msg)
  PROVE  Connection(c)'
<1>1. /\ UNCHANGED <<peer_tx, pc[c], rx_waker[c], peer_rx[c], conn_payload_id[c], received[c],
                     penalties[c], handled[c], sent[c], lagged[c]>>
      /\ woken'[c] = (woken[c] \/ conn_waker[c])
      /\ Connection(c)
  BY DEF Arrive, p2pVars, ConnInv, ConnTypes, TypeOK
<1>2. WaitsForPeer(c)'
  <2>1. pc[c] = "idle" => woken[c] \/ conn_waker[c]
    BY <1>1 DEF Connection, WaitsForPeer
  <2> QED  BY <1>1, <2>1 DEF WaitsForPeer
<1>3. EchoesAreFiltered(c)'
  <2>1. woken[c] => woken'[c]
    BY <1>1
  <2>2. \A k \in 1 .. Len(peer_tx) : UnreadEcho(c, k)' <=> UnreadEcho(c, k)
    BY <1>1 DEF UnreadEcho
  <2>3. \A k \in 1 .. Len(peer_tx) : Originated(c, peer_tx[k]) => Originated(c, peer_tx[k])'
    BY <1>1 DEF Originated
  <2> QED  BY <1>1, <2>1, <2>2, <2>3, HistoryRests DEF Connection, EchoesAreFiltered
<1> QED  BY <1>1, <1>2, <1>3, HistoryRests DEF Connection

(***************************************************************************)
(* A task that waits has no echo unread, so it starts without one.         *)
(***************************************************************************)
LEMMA PollKeeps ==
  ASSUME ConnInv, NEW c \in Peer, Poll(c)
  PROVE  Connection(c)'
<1>1. /\ UNCHANGED <<peer_tx, peer_rx[c], conn_payload_id[c], received[c],
                     penalties[c], handled[c], sent[c], lagged[c]>>
      /\ pc[c] = "idle" /\ pc'[c] = "peer_rx"
      /\ Connection(c)
  BY DEF Poll, p2pVars, ConnInv, ConnTypes, TypeOK
<1>2. WaitsForPeer(c)'
  BY <1>1 DEF WaitsForPeer
<1>3. EchoesAreFiltered(c)'
  <2>1. \A k \in 1 .. Len(peer_tx) : UnreadEcho(c, k)' <=> UnreadEcho(c, k)
    BY <1>1 DEF UnreadEcho
  <2> QED  BY <1>1, <2>1, HistoryRests DEF Connection, EchoesAreFiltered
<1> QED  BY <1>1, <1>2, <1>3, HistoryRests DEF Connection

(***************************************************************************)
(* peer_rx is read to its end, and its waker is registered.                *)
(***************************************************************************)
LEMMA RxPendingKeeps ==
  ASSUME ConnInv, NEW c \in Peer, RxPending(c)
  PROVE  Connection(c)'
<1>1. /\ UNCHANGED <<peer_tx, peer_rx[c], conn_payload_id[c], received[c],
                     penalties[c], handled[c], sent[c], lagged[c]>>
      /\ pc'[c] = "conn" /\ rx_waker'[c] = TRUE /\ peer_rx[c] = Len(peer_tx)
      /\ Len(peer_tx) \in Nat
      /\ Connection(c)
  BY DEF RxPending, p2pVars, ConnInv, ConnTypes, TypeOK, P2PTypeOK
<1>2. WaitsForPeer(c)'
  BY <1>1 DEF WaitsForPeer
<1>3. \A k \in 1 .. Len(peer_tx') : ~UnreadEcho(c, k)'
  BY <1>1 DEF UnreadEcho
<1>4. EchoesAreFiltered(c)'
  BY <1>1, <1>3 DEF EchoesAreFiltered
<1> QED  BY <1>1, <1>2, <1>4, HistoryRests DEF Connection

(***************************************************************************)
(* A receiver that lags only skips messages.                               *)
(***************************************************************************)
LEMMA RxLaggedKeeps ==
  ASSUME ConnInv, NEW c \in Peer, RxLagged(c)
  PROVE  Connection(c)'
<1>1. /\ UNCHANGED <<peer_tx, conn_payload_id[c], received[c], penalties[c], handled[c], sent[c]>>
      /\ pc'[c] = "conn" /\ lagged'[c] = TRUE
      /\ Connection(c)
  BY DEF RxLagged, p2pVars, ConnInv, ConnTypes, TypeOK
<1>2. peer_rx[c] \in Nat /\ peer_rx'[c] \in Nat /\ peer_rx[c] <= peer_rx'[c]
  BY ConnectionAssumption DEF RxLagged, ConnInv, ConnTypes, TypeOK, P2PTypeOK
<1>3. ReceivedIsRun(c)' /\ PenaltyIsExact(c)' /\ WaitsForPeer(c)'
  BY <1>1 DEF Connection, ReceivedIsRun, PenaltyIsExact, WaitsForPeer
<1>4. HandledWasBroadcast(c)'
  BY <1>1 DEF Connection, HandledWasBroadcast, PayloadsInTurn, LocalFits
<1>5. SentInOrder(c)'
  <2>1. \A p \in 1 .. peer_rx[c] : p \in 1 .. peer_rx'[c]
    BY <1>2
  <2>2. SentInOrder(c) /\ UNCHANGED <<peer_tx, sent[c]>>
    BY <1>1 DEF Connection
  <2>3. ASSUME NEW k \in 1 .. Len(sent'[c])
        PROVE  \E p \in 1 .. peer_rx'[c] : peer_tx'[p] = sent'[c][k]
    BY <2>1, <2>2, <2>3 DEF SentInOrder
  <2>4. ASSUME NEW j \in 1 .. Len(sent'[c]), NEW k \in 1 .. Len(sent'[c]), j < k
        PROVE  \E p, q \in 1 .. peer_rx'[c] :
                 p < q /\ peer_tx'[p] = sent'[c][j] /\ peer_tx'[q] = sent'[c][k]
    <3>1. j \in 1 .. Len(sent[c]) /\ k \in 1 .. Len(sent[c])
      BY <2>2, <2>4
    <3>2. \A x, y \in 1 .. Len(sent[c]) : x < y =>
            \E p, q \in 1 .. peer_rx[c] : p < q /\ peer_tx[p] = sent[c][x] /\ peer_tx[q] = sent[c][y]
      BY <2>2, Zenon DEF SentInOrder
    <3>3. PICK p \in 1 .. peer_rx[c], q \in 1 .. peer_rx[c] :
            p < q /\ peer_tx[p] = sent[c][j] /\ peer_tx[q] = sent[c][k]
      BY <2>4, <3>1, <3>2
    <3> QED  BY <2>1, <2>2, <3>3
  <2> QED  BY <2>3, <2>4 DEF SentInOrder
<1>6. EchoesAreFiltered(c)'
  BY <1>1 DEF EchoesAreFiltered
<1> QED  BY <1>3, <1>4, <1>5, <1>6 DEF Connection

(***************************************************************************)
(* The task registers with conn and waits as it is for peer_rx.            *)
(***************************************************************************)
LEMMA ConnPendingKeeps ==
  ASSUME ConnInv, NEW c \in Peer, ConnPending(c)
  PROVE  Connection(c)'
<1>1. /\ UNCHANGED <<peer_tx, woken[c], rx_waker[c], peer_rx[c], conn_payload_id[c], received[c],
                     inbox[c], penalties[c], handled[c], sent[c], lagged[c]>>
      /\ pc[c] = "conn" /\ pc'[c] = "idle" /\ conn_waker'[c] = TRUE /\ inbox[c] = <<>>
      /\ Connection(c)
  BY DEF ConnPending, p2pVars, ConnInv, ConnTypes, TypeOK
<1>2. WaitsForPeer(c)'
  BY <1>1 DEF WaitsForPeer
<1>3. EchoesAreFiltered(c)'
  <2>1. \A k \in 1 .. Len(peer_tx) : UnreadEcho(c, k)' <=> UnreadEcho(c, k)
    BY <1>1 DEF UnreadEcho
  <2> QED  BY <1>1, <2>1, HistoryRests DEF Connection, EchoesAreFiltered
<1> QED  BY <1>1, <1>2, <1>3, HistoryRests DEF Connection

(***************************************************************************)
(* A closed connection keeps its history; BadMessage is another penalty.   *)
(***************************************************************************)
LEMMA ConnEndsKeeps ==
  ASSUME ConnInv, NEW c \in Peer, ConnEnds(c)
  PROVE  Connection(c)'
<1>1. /\ UNCHANGED <<peer_tx, peer_rx[c], conn_payload_id[c], received[c], handled[c], sent[c],
                     lagged[c]>>
      /\ pc'[c] = "closed"
      /\ penalties'[c] = penalties[c] \/ penalties'[c] = Append(penalties[c], "BadMessage")
      /\ penalties[c] \in Seq({"BadMessage", "AlreadySeenTransaction"})
      /\ Connection(c)
  BY DEF ConnEnds, p2pVars, ConnInv, ConnTypes, TypeOK
<1>2. WaitsForPeer(c)' /\ EchoesAreFiltered(c)'
  BY <1>1 DEF WaitsForPeer, EchoesAreFiltered
<1>3. PenaltyIsExact(c)'
  <2>1. (\E k \in 1 .. Len(penalties'[c]) : penalties'[c][k] = "AlreadySeenTransaction")
          <=> (\E k \in 1 .. Len(penalties[c]) : penalties[c][k] = "AlreadySeenTransaction")
    BY <1>1
  <2> QED  BY <1>1, <2>1 DEF Connection, PenaltyIsExact
<1> QED  BY <1>1, <1>2, <1>3, HistoryRests DEF Connection

(***************************************************************************)
(* Reading peer_rx: a flashblock that is filtered is the echo the task was *)
(* woken for, and one that is sent comes after all that was sent before    *)
(* (connection.rs:104-132).                                                *)
(***************************************************************************)
LEMMA RxReadyKeeps ==
  ASSUME ConnInv, NEW c \in Peer, RxReady(c)
  PROVE  Connection(c)'
<1> DEFINE n == Len(peer_tx)
           r == peer_rx[c]
           fb == peer_tx[r + 1]
<1>1. /\ UNCHANGED <<peer_tx, woken[c], rx_waker[c], conn_payload_id[c], received[c],
                     penalties[c], handled[c], lagged[c]>>
      /\ pc[c] = "peer_rx" /\ peer_rx'[c] = r + 1
      /\ Connection(c) /\ BroadcastOnce
      /\ r \in Nat /\ n \in Nat /\ r + 1 \in 1 .. n
  <2>1. /\ c \in Peer /\ pc \in [Peer -> {"closed", "idle", "peer_rx", "conn"}]
        /\ peer_rx \in [Peer -> Nat] /\ peer_tx \in Seq(Flashblock)
        /\ Connection(c) /\ BroadcastOnce /\ CAPACITY \in Nat
    BY ConnectionAssumption DEF ConnInv, ConnTypes, TypeOK, P2PTypeOK
  <2>2. /\ UNCHANGED <<peer_tx, woken[c], rx_waker[c], conn_payload_id[c], received[c],
                       penalties[c], handled[c], lagged[c]>>
        /\ pc[c] = "peer_rx" /\ peer_rx'[c] = r + 1
    BY <2>1 DEF RxReady, p2pVars
  <2>3. n - r \in 1 .. CAPACITY
    BY DEF RxReady
  <2>4. r \in Nat /\ n \in Nat
    BY <2>1
  <2> QED  BY <2>1, <2>2, <2>3, <2>4
<1>2. /\ sent[c] \in Seq(Flashblock) /\ fb \in Flashblock
  BY <1>1 DEF ConnInv, ConnTypes, TypeOK, P2PTypeOK
<1>3. \/ Originated(c, fb) /\ pc'[c] = "conn" /\ sent'[c] = sent[c]
      \/ ~Originated(c, fb) /\ pc'[c] = "peer_rx" /\ sent'[c] = Append(sent[c], fb)
  BY DEF RxReady, ConnInv, ConnTypes, TypeOK
<1>4. ReceivedIsRun(c)' /\ PenaltyIsExact(c)' /\ HandledWasBroadcast(c)'
  BY <1>1 DEF Connection, ReceivedIsRun, PenaltyIsExact, HandledWasBroadcast, PayloadsInTurn,
              LocalFits
<1>5. WaitsForPeer(c)'
  BY <1>3 DEF WaitsForPeer
<1>6. SentInOrder(c)'
  <2> DEFINE m == Len(sent[c])
  <2>1. \A p \in 1 .. r : p \in 1 .. (r + 1) /\ p < r + 1
    BY <1>1
  <2>2. \A k \in 1 .. m : \E p \in 1 .. r : peer_tx[p] = sent[c][k]
    BY <1>1 DEF Connection, SentInOrder
  <2>3. \A j, k \in 1 .. m : j < k =>
          \E p, q \in 1 .. r : p < q /\ peer_tx[p] = sent[c][j] /\ peer_tx[q] = sent[c][k]
    BY <1>1 DEF Connection, SentInOrder
  <2>4. ASSUME sent'[c] = sent[c] \/ sent'[c] = Append(sent[c], fb)
        PROVE  /\ m \in Nat /\ Len(sent'[c]) \in m .. (m + 1)
               /\ \A k \in 1 .. m : sent'[c][k] = sent[c][k]
               /\ Len(sent'[c]) = m + 1 => sent'[c][m + 1] = fb
    BY <1>2, <2>4, AppendFacts
  <2>5. ASSUME NEW k \in 1 .. Len(sent'[c])
        PROVE  \E p \in 1 .. peer_rx'[c] : peer_tx'[p] = sent'[c][k]
    <3>1. CASE k = m + 1
      BY <1>1, <1>3, <2>4, <2>5, <3>1
    <3>2. CASE k \in 1 .. m
      BY <1>1, <1>3, <2>1, <2>2, <2>4, <3>2
    <3> QED  BY <1>3, <2>4, <2>5, <3>1, <3>2
  <2>6. ASSUME NEW j \in 1 .. Len(sent'[c]), NEW k \in 1 .. Len(sent'[c]), j < k
        PROVE  \E p, q \in 1 .. peer_rx'[c] :
                 p < q /\ peer_tx'[p] = sent'[c][j] /\ peer_tx'[q] = sent'[c][k]
    <3>1. j \in 1 .. m
      BY <1>3, <2>4, <2>6
    <3>2. CASE k = m + 1
      <4>1. PICK p \in 1 .. r : peer_tx[p] = sent[c][j]
        BY <2>2, <3>1
      <4>2. Len(sent'[c]) = m + 1 /\ sent'[c][k] = fb /\ sent'[c][j] = sent[c][j]
        BY <1>3, <2>4, <2>6, <3>1, <3>2
      <4> QED  BY <1>1, <2>1, <4>1, <4>2
    <3>3. CASE k \in 1 .. m
      <4>1. PICK p \in 1 .. r, q \in 1 .. r :
              p < q /\ peer_tx[p] = sent[c][j] /\ peer_tx[q] = sent[c][k]
        BY <2>3, <2>6, <3>1, <3>3
      <4> QED  BY <1>1, <1>3, <2>1, <2>4, <3>1, <3>3, <4>1
    <3> QED  BY <1>3, <2>4, <2>6, <3>2, <3>3
  <2> QED  BY <2>5, <2>6 DEF SentInOrder
<1>7. EchoesAreFiltered(c)'
  <2>1. SUFFICES ASSUME PayloadsInTurn, ~lagged[c]
                 PROVE  EchoesAreFiltered(c)'
    BY <1>1 DEF EchoesAreFiltered, PayloadsInTurn, LocalFits
  <2>2. \A k \in 1 .. n : UnreadEcho(c, k)' <=> UnreadEcho(c, k) /\ k # r + 1
    BY <1>1 DEF UnreadEcho
  <2>3. \A k \in 1 .. n : UnreadEcho(c, k) =>
          /\ Originated(c, peer_tx[k]) /\ woken[c]
          /\ \A l \in 1 .. n : UnreadEcho(c, l) => l = k
    BY <1>1, <2>1 DEF Connection, EchoesAreFiltered
  <2>4. CASE Originated(c, fb) /\ pc'[c] = "conn"
    <3>1. fb.index \in Slot
      BY <1>1 DEF BroadcastOnce
    <3>2. PICK j \in 1 .. Len(handled[c]) :
            /\ handled[c][j].index = fb.index
            /\ \A i \in j .. Len(handled[c]) : handled[c][i].payload_id = conn_payload_id[c]
      BY <1>1, <2>4, <3>1 DEF Connection, ReceivedIsRun, Originated
    <3>3. handled[c] \in Seq(RemoteFlashblock)
      BY DEF ConnInv, ConnTypes, TypeOK
    <3>4. SameFlashblock(fb, handled[c][j])
      BY <2>4, <3>2, <3>3 DEF Originated, SameFlashblock
    <3>5. UnreadEcho(c, r + 1)
      BY <1>1, <3>4 DEF UnreadEcho
    <3>6. woken'[c] /\ \A k \in 1 .. n : ~UnreadEcho(c, k)'
      BY <1>1, <2>2, <2>3, <3>5
    <3> QED  BY <1>1, <2>4, <3>6 DEF EchoesAreFiltered
  <2>5. CASE pc'[c] = "peer_rx"
    <3>1. \A k \in 1 .. n : Originated(c, peer_tx[k]) => Originated(c, peer_tx[k])'
      BY <1>1 DEF Originated
    <3> QED  BY <1>1, <2>2, <2>3, <2>5, <3>1 DEF EchoesAreFiltered
  <2> QED  BY <1>3, <2>4, <2>5
<1> QED  BY <1>4, <1>5, <1>6, <1>7 DEF Connection

(***************************************************************************)
(* What handle_flashblocks_payload_v1 does, read per connection.           *)
(***************************************************************************)
LEMMA HandleFacts ==
  ASSUME IInv, ConnTypes, NEW c \in Peer, HandleFlashblock(c)
  PROVE  \E fb \in RemoteFlashblock :
           /\ fb \in Flashblock /\ ~fb.oversize /\ fb.index \in Nat
           /\ pc[c] = "conn" /\ pc'[c] = "peer_rx"
           /\ UNCHANGED <<peer_rx[c], sent[c], lagged[c]>>
           /\ handled'[c] = Append(handled[c], fb)
           /\ conn_payload_id'[c] = fb.payload_id
           /\ received'[c] = ReceivedFor(c, fb) \cup ({fb.index} \cap Slot)
           /\ \/ /\ fb.index \notin Slot
                 /\ UNCHANGED <<p2pVars, woken, rx_waker, penalties>>
              \/ /\ fb.index \in ReceivedFor(c, fb)
                 /\ penalties'[c] = Append(penalties[c], "AlreadySeenTransaction")
                 /\ UNCHANGED <<p2pVars, woken, rx_waker>>
              \/ /\ fb.index \in Slot \ ReceivedFor(c, fb)
                 /\ PublishAndWake(fb)
                 /\ UNCHANGED penalties
<1> DEFINE fb == Head(inbox[c])
<1>1. /\ inbox[c] \in Seq(RemoteFlashblock \cup {Garbage, Eof}) /\ inbox[c] # <<>>
      /\ fb \in Flashblock
  BY DEF HandleFlashblock, ConnTypes, TypeOK
<1>2. fb \in RemoteFlashblock /\ ~fb.oversize /\ fb.index \in Nat
  <2>1. fb \in RemoteFlashblock \cup {Garbage, Eof}
    BY <1>1
  <2> QED  BY <1>1, <2>1, P2PAssumption, ConnectionAssumption
<1>3. /\ received[c] \in SUBSET Slot /\ ReceivedFor(c, fb) \in SUBSET Slot
      /\ pc \in [Peer -> {"closed", "idle", "peer_rx", "conn"}]
      /\ conn_payload_id \in [Peer -> PayloadId \cup {NoPayload}]
      /\ received \in [Peer -> SUBSET Slot]
      /\ penalties \in [Peer -> Seq({"BadMessage", "AlreadySeenTransaction"})]
      /\ handled \in [Peer -> Seq(RemoteFlashblock)]
  BY DEF ConnTypes, TypeOK, ReceivedFor
<1>4. /\ pc[c] = "conn" /\ pc'[c] = "peer_rx"
      /\ UNCHANGED <<peer_rx[c], sent[c], lagged[c]>>
      /\ handled'[c] = Append(handled[c], fb)
      /\ conn_payload_id'[c] = fb.payload_id
  BY <1>3 DEF HandleFlashblock
<1>5. \/ /\ fb.index > MAX_FLASHBLOCK_INDEX
         /\ received' = [received EXCEPT ![c] = ReceivedFor(c, fb)]
         /\ UNCHANGED <<p2pVars, woken, rx_waker, penalties>>
      \/ /\ fb.index \in ReceivedFor(c, fb)
         /\ penalties' = [penalties EXCEPT ![c] = Append(@, "AlreadySeenTransaction")]
         /\ UNCHANGED <<p2pVars, woken, rx_waker, received>>
      \/ /\ fb.index \in Slot \ ReceivedFor(c, fb)
         /\ received' = [received EXCEPT ![c] = ReceivedFor(c, fb) \cup {fb.index}]
         /\ PublishAndWake(fb)
         /\ UNCHANGED penalties
  BY DEF HandleFlashblock
<1> HIDE DEF fb
<1>6. received'[c] = ReceivedFor(c, fb) \cup ({fb.index} \cap Slot)
  <2>1. fb.index > MAX_FLASHBLOCK_INDEX => fb.index \notin Slot
    BY <1>2, P2PAssumption DEF Slot
  <2>2. fb.index \in ReceivedFor(c, fb) => received[c] = ReceivedFor(c, fb)
    BY DEF ReceivedFor
  <2> QED  BY <1>3, <1>5, <2>1, <2>2
<1>7. \/ /\ fb.index \notin Slot
         /\ UNCHANGED <<p2pVars, woken, rx_waker, penalties>>
      \/ /\ fb.index \in ReceivedFor(c, fb)
         /\ penalties'[c] = Append(penalties[c], "AlreadySeenTransaction")
         /\ UNCHANGED <<p2pVars, woken, rx_waker>>
      \/ /\ fb.index \in Slot \ ReceivedFor(c, fb)
         /\ PublishAndWake(fb)
         /\ UNCHANGED penalties
  <2>1. fb.index > MAX_FLASHBLOCK_INDEX => fb.index \notin Slot
    BY <1>2, P2PAssumption DEF Slot
  <2> QED  BY <1>3, <1>5, <2>1
<1>8. fb \in Flashblock
  BY <1>1 DEF fb
<1> QED  BY <1>2, <1>4, <1>6, <1>7, <1>8

(***************************************************************************)
(* The indices kept for the payload of the flashblock at hand are those of *)
(* the last run of that payload.                                           *)
(***************************************************************************)
LEMMA ReceivedForFacts ==
  ASSUME ConnTypes, NEW c \in Peer, ReceivedIsRun(c), NEW fb, NEW x \in Slot
  PROVE  x \in ReceivedFor(c, fb) <=>
           \E j \in 1 .. Len(handled[c]) :
             /\ handled[c][j].index = x
             /\ \A i \in j .. Len(handled[c]) : handled[c][i].payload_id = fb.payload_id
<1>0. Len(handled[c]) \in Nat
  BY DEF ConnTypes, TypeOK
<1>1. CASE conn_payload_id[c] = fb.payload_id
  BY <1>1 DEF ReceivedIsRun, ReceivedFor
<1>2. CASE conn_payload_id[c] # fb.payload_id
  <2>1. ~ \E j \in 1 .. Len(handled[c]) :
            \A i \in j .. Len(handled[c]) : handled[c][i].payload_id = fb.payload_id
    BY <1>0, <1>2 DEF ReceivedIsRun
  <2> QED  BY <1>2, <2>1 DEF ReceivedFor
<1> QED  BY <1>1, <1>2

(***************************************************************************)
(* A run of handled flashblocks grows by one, and has a duplicate if it    *)
(* had one or the new flashblock repeats one of its run.                   *)
(***************************************************************************)
LEMMA DuplicateFacts ==
  ASSUME NEW S, NEW s \in Seq(S), NEW fb \in S, fb.index \in Nat
  PROVE  HasDuplicate(Append(s, fb)) <=>
           \/ HasDuplicate(s)
           \/ /\ fb.index <= MAX_FLASHBLOCK_INDEX
              /\ \E j \in 1 .. Len(s) :
                   /\ s[j].index = fb.index
                   /\ \A i \in j .. Len(s) : s[i].payload_id = fb.payload_id
<1> DEFINE m == Len(s)
           t == Append(s, fb)
<1>1. /\ m \in Nat /\ Len(t) = m + 1 /\ t[m + 1] = fb
      /\ \A k \in 1 .. m : t[k] = s[k]
  BY AppendFacts
<1> HIDE DEF t
<1>2. ASSUME HasDuplicate(s) PROVE HasDuplicate(t)
  <2>1. PICK j \in 1 .. m, k \in 1 .. m :
          /\ j < k /\ s[k].index <= MAX_FLASHBLOCK_INDEX /\ SameFlashblock(s[j], s[k])
          /\ \A i \in j .. k : s[i].payload_id = s[k].payload_id
    BY <1>2 DEF HasDuplicate
  <2>2. j \in 1 .. Len(t) /\ k \in 1 .. Len(t) /\ t[j] = s[j] /\ t[k] = s[k]
        /\ \A i \in j .. k : t[i] = s[i]
    BY <1>1, <2>1
  <2> QED  BY <2>1, <2>2 DEF HasDuplicate
<1>3. ASSUME fb.index <= MAX_FLASHBLOCK_INDEX, NEW j \in 1 .. m, s[j].index = fb.index,
             \A i \in j .. m : s[i].payload_id = fb.payload_id
      PROVE  HasDuplicate(t)
  <2>1. /\ j \in 1 .. Len(t) /\ m + 1 \in 1 .. Len(t) /\ j < m + 1 /\ j \in j .. m
        /\ \A i \in j .. (m + 1) : t[i].payload_id = t[m + 1].payload_id
    BY <1>1, <1>3
  <2>2. SameFlashblock(t[j], t[m + 1]) /\ t[m + 1].index <= MAX_FLASHBLOCK_INDEX
    BY <1>1, <1>3, <2>1 DEF SameFlashblock
  <2> QED  BY <2>1, <2>2 DEF HasDuplicate
<1>4. ASSUME HasDuplicate(t), ~HasDuplicate(s)
      PROVE  /\ fb.index <= MAX_FLASHBLOCK_INDEX
             /\ \E j \in 1 .. m :
                  /\ s[j].index = fb.index
                  /\ \A i \in j .. m : s[i].payload_id = fb.payload_id
  <2>1. PICK j \in 1 .. Len(t), k \in 1 .. Len(t) :
          /\ j < k /\ t[k].index <= MAX_FLASHBLOCK_INDEX /\ SameFlashblock(t[j], t[k])
          /\ \A i \in j .. k : t[i].payload_id = t[k].payload_id
    BY <1>4 DEF HasDuplicate
  <2>2. k = m + 1
    <3>1. SUFFICES ASSUME k \in 1 .. m PROVE FALSE
      BY <1>1, <2>1
    <3>2. j \in 1 .. m /\ t[j] = s[j] /\ t[k] = s[k] /\ \A i \in j .. k : i \in 1 .. m /\ t[i] = s[i]
      BY <1>1, <2>1, <3>1
    <3>3. /\ s[k].index <= MAX_FLASHBLOCK_INDEX /\ SameFlashblock(s[j], s[k])
          /\ \A i \in j .. k : s[i].payload_id = s[k].payload_id
      BY <2>1, <3>2
    <3> QED  BY <1>4, <2>1, <3>1, <3>2, <3>3 DEF HasDuplicate
  <2>3. j \in 1 .. m /\ \A i \in j .. m : i \in j .. k /\ t[i] = s[i]
    BY <1>1, <2>1, <2>2
  <2> QED  BY <1>1, <2>1, <2>2, <2>3 DEF SameFlashblock
<1> QED  BY <1>2, <1>3, <1>4 DEF t

(***************************************************************************)
(* Handling a flashblock (connection.rs:187-244): it may be broadcast, and *)
(* then the echo that comes back is the only one, and the task is woken    *)
(* for it.                                                                 *)
(***************************************************************************)
LEMMA HandleKeeps ==
  ASSUME IInv, IInv', ConnInv, BroadcastOnce', NEW c \in Peer, HandleFlashblock(c)
  PROVE  Connection(c)'
<1> DEFINE n == Len(peer_tx)
           m == Len(handled[c])
<1>1. PICK fb \in RemoteFlashblock :
        /\ fb \in Flashblock /\ ~fb.oversize /\ fb.index \in Nat
        /\ pc[c] = "conn" /\ pc'[c] = "peer_rx"
        /\ UNCHANGED <<peer_rx[c], sent[c], lagged[c]>>
        /\ handled'[c] = Append(handled[c], fb)
        /\ conn_payload_id'[c] = fb.payload_id
        /\ received'[c] = ReceivedFor(c, fb) \cup ({fb.index} \cap Slot)
        /\ \/ /\ fb.index \notin Slot
              /\ UNCHANGED <<p2pVars, woken, rx_waker, penalties>>
           \/ /\ fb.index \in ReceivedFor(c, fb)
              /\ penalties'[c] = Append(penalties[c], "AlreadySeenTransaction")
              /\ UNCHANGED <<p2pVars, woken, rx_waker>>
           \/ /\ fb.index \in Slot \ ReceivedFor(c, fb)
              /\ PublishAndWake(fb)
              /\ UNCHANGED penalties
  BY HandleFacts DEF ConnInv
<1>2. /\ ConnTypes /\ Connection(c) /\ BroadcastOnce
      /\ peer_tx \in Seq(Flashblock) /\ peer_tx' \in Seq(Flashblock) /\ n \in Nat
      /\ handled[c] \in Seq(RemoteFlashblock) /\ m \in Nat
      /\ penalties[c] \in Seq({"BadMessage", "AlreadySeenTransaction"})
      /\ peer_rx[c] \in 0 .. n
  <2>1. ConnTypes /\ Connection(c) /\ BroadcastOnce
    BY DEF ConnInv
  <2>2. peer_tx \in Seq(Flashblock) /\ peer_tx' \in Seq(Flashblock)
    BY DEF IInv, P2PTypeOK
  <2>3. /\ handled[c] \in Seq(RemoteFlashblock)
        /\ penalties[c] \in Seq({"BadMessage", "AlreadySeenTransaction"})
        /\ peer_rx[c] \in 0 .. n
    BY <2>1 DEF ConnTypes, TypeOK
  <2> QED  BY <2>1, <2>2, <2>3
<1>3. /\ Len(handled'[c]) = m + 1 /\ handled'[c][m + 1] = fb
      /\ \A k \in 1 .. m : handled'[c][k] = handled[c][k]
  BY <1>1, <1>2, AppendFacts
<1>4. Broadcasts(c)
  BY <1>1, <1>2, PublishBroadcasts DEF Broadcasts, p2pVars
<1>5. /\ Len(peer_tx') >= n /\ \A k \in 1 .. n : peer_tx'[k] = peer_tx[k]
      /\ peer_tx' = peer_tx \/ Len(peer_tx') = n + 1
  BY <1>2, <1>4 DEF Broadcasts
<1>6. PayloadsInTurn' => PayloadsInTurn
  BY <1>2, <1>5, InTurnBefore
<1>7. \A x \in Slot : x \in ReceivedFor(c, fb) <=>
         \E j \in 1 .. m :
           /\ handled[c][j].index = x
           /\ \A i \in j .. m : handled[c][i].payload_id = fb.payload_id
  BY <1>2, ReceivedForFacts DEF Connection
<1>8. fb.index \in Slot <=> fb.index <= MAX_FLASHBLOCK_INDEX
  BY <1>1, P2PAssumption DEF Slot
<1>9. ReceivedIsRun(c)'
  <2>0. m \in Nat
    BY <1>2
  <2>1. ASSUME NEW x \in Slot, NEW j \in 1 .. m, handled[c][j].index = x,
               \A i \in j .. m : handled[c][i].payload_id = fb.payload_id
        PROVE  /\ j \in 1 .. Len(handled'[c]) /\ handled'[c][j].index = x
               /\ \A i \in j .. Len(handled'[c]) : handled'[c][i].payload_id = fb.payload_id
    <3>1. \A i \in j .. (m + 1) : (i \in j .. m /\ i \in 1 .. m) \/ i = m + 1
      BY <2>0
    <3>2. \A i \in j .. (m + 1) : handled'[c][i].payload_id = fb.payload_id
      BY <1>3, <2>1, <3>1
    <3>3. j \in 1 .. (m + 1)
      BY <2>0, <2>1
    <3>4. handled'[c][j].index = x
      BY <1>3, <2>1
    <3> QED  BY <1>3, <3>2, <3>3, <3>4
  <2>2. ASSUME NEW x \in Slot, NEW j \in 1 .. Len(handled'[c]), handled'[c][j].index = x,
               \A i \in j .. Len(handled'[c]) : handled'[c][i].payload_id = fb.payload_id
        PROVE  x = fb.index \/ (/\ j \in 1 .. m /\ handled[c][j].index = x
                               /\ \A i \in j .. m : handled[c][i].payload_id = fb.payload_id)
    <3>1. j = m + 1 \/ j \in 1 .. m
      BY <1>3, <2>0
    <3>2. CASE j \in 1 .. m
      <4>1. \A i \in j .. m : i \in j .. (m + 1) /\ i \in 1 .. m
        BY <2>0, <3>2
      <4>2. \A i \in j .. m : handled[c][i].payload_id = fb.payload_id
        BY <1>3, <2>2, <4>1
      <4> QED  BY <1>3, <2>2, <3>2, <4>2
    <3> QED  BY <1>3, <2>2, <3>1, <3>2
  <2>3. /\ m + 1 \in 1 .. Len(handled'[c]) /\ handled'[c][m + 1].index = fb.index
        /\ \A i \in (m + 1) .. Len(handled'[c]) : handled'[c][i].payload_id = fb.payload_id
    BY <1>3, <2>0
  <2>4. ASSUME NEW x \in Slot
        PROVE  x \in received'[c] <=>
                 \E j \in 1 .. Len(handled'[c]) :
                   /\ handled'[c][j].index = x
                   /\ \A i \in j .. Len(handled'[c]) :
                        handled'[c][i].payload_id = conn_payload_id'[c]
    <3>1. x \in received'[c] <=> x \in ReceivedFor(c, fb) \/ x = fb.index
      BY <1>1, <2>4
    <3>2. ASSUME x \in ReceivedFor(c, fb) \/ x = fb.index
          PROVE  \E j \in 1 .. Len(handled'[c]) :
                   /\ handled'[c][j].index = x
                   /\ \A i \in j .. Len(handled'[c]) : handled'[c][i].payload_id = fb.payload_id
      BY <1>7, <2>1, <2>3, <2>4, <3>2
    <3>3. ASSUME NEW j \in 1 .. Len(handled'[c]), handled'[c][j].index = x,
                 \A i \in j .. Len(handled'[c]) : handled'[c][i].payload_id = fb.payload_id
          PROVE  x \in ReceivedFor(c, fb) \/ x = fb.index
      BY <1>7, <2>2, <2>4, <3>3
    <3> QED  BY <1>1, <3>1, <3>2, <3>3
  <2>5. handled'[c][Len(handled'[c])].payload_id = conn_payload_id'[c]
    BY <1>1, <1>3
  <2> QED  BY <2>4, <2>5 DEF ReceivedIsRun
<1>10. PenaltyIsExact(c)'
  <2>1. HasDuplicate(handled'[c]) <=> HasDuplicate(handled[c])
          \/ (fb.index \in Slot /\ fb.index \in ReceivedFor(c, fb))
    <3>1. HasDuplicate(Append(handled[c], fb)) <=>
            \/ HasDuplicate(handled[c])
            \/ /\ fb.index <= MAX_FLASHBLOCK_INDEX
               /\ \E j \in 1 .. m :
                    /\ handled[c][j].index = fb.index
                    /\ \A i \in j .. m : handled[c][i].payload_id = fb.payload_id
      BY <1>1, <1>2, DuplicateFacts
    <3>2. HasDuplicate(handled'[c]) <=> HasDuplicate(Append(handled[c], fb))
      BY <1>1
    <3> QED  BY <1>7, <1>8, <3>1, <3>2
  <2>2. (\E k \in 1 .. Len(penalties[c]) : penalties[c][k] = "AlreadySeenTransaction")
          <=> HasDuplicate(handled[c])
    BY <1>2 DEF Connection, PenaltyIsExact
  <2>3. ReceivedFor(c, fb) \in SUBSET Slot
    BY <1>2 DEF ConnTypes, TypeOK, ReceivedFor
  <2>4. CASE /\ fb.index \in ReceivedFor(c, fb)
             /\ penalties'[c] = Append(penalties[c], "AlreadySeenTransaction")
    <3>1. \E k \in 1 .. Len(penalties'[c]) : penalties'[c][k] = "AlreadySeenTransaction"
      <4>1. "AlreadySeenTransaction" \in {"BadMessage", "AlreadySeenTransaction"}
        OBVIOUS
      <4>2. /\ Len(penalties[c]) \in Nat /\ Len(penalties'[c]) = Len(penalties[c]) + 1
            /\ penalties'[c][Len(penalties[c]) + 1] = "AlreadySeenTransaction"
        BY <1>2, <2>4, <4>1, AppendFacts
      <4>3. Len(penalties[c]) + 1 \in 1 .. Len(penalties'[c])
        BY <4>2
      <4> QED  BY <4>2, <4>3
    <3> QED  BY <2>1, <2>3, <2>4, <3>1 DEF PenaltyIsExact
  <2>5. CASE ~(fb.index \in Slot /\ fb.index \in ReceivedFor(c, fb)) /\ UNCHANGED penalties
    BY <2>1, <2>2, <2>5 DEF PenaltyIsExact
  <2> QED  BY <1>1, <2>4, <2>5
<1>11. WaitsForPeer(c)'
  BY <1>1 DEF WaitsForPeer
<1>12. HandledWasBroadcast(c)'
  <2>1. SUFFICES ASSUME PayloadsInTurn', NEW j \in 1 .. (m + 1), handled'[c][j].index \in Slot
                 PROVE  \E k \in 1 .. Len(peer_tx') : SameFlashblock(peer_tx'[k], handled'[c][j])
    BY <1>3 DEF HandledWasBroadcast
  <2>2. ASSUME NEW l \in 1 .. m, handled[c][l].index \in Slot
        PROVE  \E k \in 1 .. Len(peer_tx') : SameFlashblock(peer_tx'[k], handled[c][l])
    <3>1. PICK k \in 1 .. n : SameFlashblock(peer_tx[k], handled[c][l])
      BY <1>2, <1>6, <2>1, <2>2 DEF Connection, HandledWasBroadcast
    <3> QED  BY <1>2, <1>5, <3>1
  <2>3. CASE j \in 1 .. m
    BY <1>3, <2>1, <2>2, <2>3
  <2>4. CASE j = m + 1
    <3>1. fb.index \in Slot
      BY <1>3, <2>1, <2>4
    <3>2. CASE fb.index \in ReceivedFor(c, fb)
      <4>1. PICK l \in 1 .. m :
              /\ handled[c][l].index = fb.index
              /\ \A i \in l .. m : handled[c][i].payload_id = fb.payload_id
        BY <1>7, <3>1, <3>2
      <4>2. handled[c][l].payload_id = fb.payload_id
        BY <1>2, <4>1
      <4> QED  BY <1>3, <2>2, <2>4, <3>1, <4>1, <4>2 DEF SameFlashblock
    <3>3. CASE PublishAndWake(fb)
      BY <1>1, <1>2, <1>3, <2>1, <2>4, <3>1, <3>3, PublishOnce DEF PublishAndWake
    <3> QED  BY <1>1, <3>1, <3>2, <3>3
  <2> QED  BY <1>2, <2>1, <2>3, <2>4
<1>13. SentInOrder(c)'
  <2>1. \A p \in 1 .. peer_rx[c] : peer_tx'[p] = peer_tx[p]
    BY <1>2, <1>5
  <2>2. SentInOrder(c) /\ UNCHANGED <<peer_rx[c], sent[c]>>
    BY <1>1, <1>2 DEF Connection
  <2> QED  BY <2>1, <2>2 DEF SentInOrder
<1>14. EchoesAreFiltered(c)'
  <2>1. SUFFICES ASSUME PayloadsInTurn', ~lagged[c], NEW k \in 1 .. Len(peer_tx'), UnreadEcho(c, k)'
                 PROVE  /\ Originated(c, peer_tx[k])' /\ woken'[c]
                        /\ \A l \in 1 .. Len(peer_tx') : UnreadEcho(c, l)' => l = k
    BY <1>1 DEF EchoesAreFiltered
  <2>2. /\ \A l \in 1 .. n : ~UnreadEcho(c, l)
        /\ peer_rx[c] < n => woken[c]
        /\ woken[c] \/ rx_waker[c]
    BY <1>1, <1>2, <1>6, <2>1 DEF Connection, EchoesAreFiltered
  <2>3. ASSUME NEW l \in 1 .. Len(peer_tx'), UnreadEcho(c, l)'
        PROVE  SameFlashblock(peer_tx'[l], fb)
    <3>1. PICK j \in 1 .. (m + 1) : SameFlashblock(peer_tx'[l], handled'[c][j])
      BY <1>3, <2>3 DEF UnreadEcho
    <3>2. SUFFICES ASSUME j \in 1 .. m PROVE FALSE
      BY <1>2, <1>3, <3>1
    <3>3. SameFlashblock(peer_tx'[l], handled[c][j])
      BY <1>3, <3>1, <3>2
    <3>4. CASE l \in 1 .. n
      <4>1. l \in (peer_rx[c] + 1) .. n
        BY <1>1, <1>2, <2>3, <3>4 DEF UnreadEcho
      <4> QED  BY <1>5, <2>2, <3>2, <3>3, <3>4, <4>1 DEF UnreadEcho
    <3>5. CASE l \notin 1 .. n
      <4>1. peer_tx' # peer_tx /\ l = Len(peer_tx')
        BY <1>2, <1>5, <3>5
      <4> QED  BY <1>2, <1>4, <2>1, <3>2, <3>3, <4>1, NewIsNoEcho DEF Connection
    <3> QED  BY <3>4, <3>5
  <2>4. Originated(c, peer_tx[k])'
    <3>1. SameFlashblock(peer_tx'[k], fb) /\ peer_tx'[k].index \in Slot
      BY <2>1, <2>3 DEF BroadcastOnce
    <3> QED  BY <1>1, <3>1 DEF Originated, SameFlashblock
  <2>5. woken'[c]
    <3>1. k > peer_rx[c]
      BY <1>1, <1>2, <2>1 DEF UnreadEcho
    <3>2. CASE peer_tx' = peer_tx
      <4>1. woken[c] /\ woken' = woken
        BY <1>1, <1>2, <2>1, <2>2, <3>1, <3>2 DEF PublishAndWake
      <4> QED  BY <4>1
    <3>3. CASE peer_tx' # peer_tx
      BY <1>4, <2>2, <3>3 DEF Broadcasts
    <3> QED  BY <3>2, <3>3
  <2>6. ASSUME NEW l \in 1 .. Len(peer_tx'), UnreadEcho(c, l)'
        PROVE  l = k
    <3>1. SameFlashblock(peer_tx'[l], peer_tx'[k]) /\ SameFlashblock(peer_tx'[k], peer_tx'[l])
      BY <2>1, <2>3, <2>6 DEF SameFlashblock
    <3>2. Len(peer_tx') \in Nat
      BY <1>2
    <3> QED  BY <2>1, <3>1, <3>2 DEF BroadcastOnce
  <2> QED  BY <2>4, <2>5, <2>6
<1> QED  BY <1>9, <1>10, <1>11, <1>12, <1>13, <1>14 DEF Connection

(***************************************************************************)
(* Whatever a step does, a flashblock is broadcast once while payloads     *)
(* come in turn.                                                           *)
(***************************************************************************)
LEMMA BroadcastOncePreserved ==
  ASSUME IInv, ConnTypes, BroadcastOnce, ConnNext
  PROVE  BroadcastOnce'
<1>1. CASE UNCHANGED p2pVars
  BY <1>1 DEF p2pVars, BroadcastOnce, PayloadsInTurn, LocalFits
<1>2. CASE PublishNew
  <2>1. /\ LocalJob[local_next] \in Flashblock /\ local_next \in 1 .. Len(LocalJob)
        /\ Publish(LocalJob[local_next])
    BY <1>2, LocalFlashblock DEF PublishNew, PublishAndWake, ConnTypes
  <2> QED  BY <2>1, PublishOnce DEF LocalFits
<1>3. ASSUME NEW c \in Peer, HandleFlashblock(c) PROVE BroadcastOnce'
  <2>1. PICK fb \in RemoteFlashblock :
          /\ fb \in Flashblock /\ ~fb.oversize
          /\ UNCHANGED p2pVars \/ (fb.index \in Slot /\ PublishAndWake(fb))
    BY <1>3, HandleFacts
  <2> QED  BY <1>1, <2>1, PublishOnce DEF PublishAndWake
<1>4. ASSUME NEW c \in Peer, Connect(c) \/ \E msg : Arrive(c, msg) PROVE UNCHANGED p2pVars
  BY <1>4 DEF Connect, Arrive
<1>5. ASSUME NEW c \in Peer, Task(c), ~HandleFlashblock(c) PROVE UNCHANGED p2pVars
  BY <1>5 DEF Task, Poll, RxPending, RxLagged, RxReady, ConnPending, ConnEnds
<1> QED  BY <1>1, <1>2, <1>3, <1>4, <1>5 DEF ConnNext

(***************************************************************************)
(* Every step of connection c leaves the tasks of the others at rest.      *)
(***************************************************************************)
LEMMA OthersRest ==
  ASSUME IInv, ConnTypes, NEW c \in Peer, NEW d \in Peer, c # d,
         Connect(c) \/ (\E msg : Arrive(c, msg)) \/ Task(c)
  PROVE  TaskRests(d) /\ Broadcasts(d)
<1>0. /\ pc \in [Peer -> {"closed", "idle", "peer_rx", "conn"}]
      /\ woken \in [Peer -> BOOLEAN] /\ rx_waker \in [Peer -> BOOLEAN]
      /\ conn_waker \in [Peer -> BOOLEAN] /\ lagged \in [Peer -> BOOLEAN]
      /\ peer_rx \in [Peer -> Nat]
      /\ conn_payload_id \in [Peer -> PayloadId \cup {NoPayload}]
      /\ received \in [Peer -> SUBSET Slot]
      /\ inbox \in [Peer -> Seq(RemoteFlashblock \cup {Garbage, Eof})]
      /\ penalties \in [Peer -> Seq({"BadMessage", "AlreadySeenTransaction"})]
      /\ handled \in [Peer -> Seq(RemoteFlashblock)]
      /\ sent \in [Peer -> Seq(Flashblock)]
  BY DEF ConnTypes, TypeOK
<1>1. CASE Connect(c) \/ \E msg : Arrive(c, msg)
  BY <1>0, <1>1 DEF Connect, Arrive, TaskRests, Broadcasts, p2pVars
<1>2. CASE Poll(c) \/ RxPending(c) \/ RxLagged(c) \/ ConnPending(c)
  BY <1>0, <1>2 DEF Poll, RxPending, RxLagged, ConnPending, TaskRests, Broadcasts, p2pVars
<1>3. CASE RxReady(c)
  <2>1. \/ pc' = pc
        \/ pc' = [pc EXCEPT ![c] = "conn"]
    BY <1>3 DEF RxReady
  <2>2. \/ sent' = sent
        \/ sent' = [sent EXCEPT ![c] = Append(@, peer_tx[peer_rx[c] + 1])]
    BY <1>3 DEF RxReady
  <2> QED  BY <1>0, <1>3, <2>1, <2>2 DEF RxReady, TaskRests, Broadcasts, p2pVars
<1>4. CASE ConnEnds(c)
  <2>1. UNCHANGED penalties[d]
    BY <1>0, <1>4 DEF ConnEnds
  <2> QED  BY <1>0, <1>4, <2>1 DEF ConnEnds, TaskRests, Broadcasts, p2pVars
<1>5. CASE HandleFlashblock(c)
  <2>1. UNCHANGED <<received[d], penalties[d]>>
    BY <1>0, <1>5 DEF HandleFlashblock
  <2>2. TaskRests(d)
    BY <1>0, <1>5, <2>1 DEF HandleFlashblock, TaskRests
  <2>3. Broadcasts(d)
    <3>1. PICK fb \in RemoteFlashblock :
            fb \in Flashblock /\ (UNCHANGED <<p2pVars, woken, rx_waker>> \/ PublishAndWake(fb))
      BY <1>5, HandleFacts
    <3> QED  BY <3>1, PublishBroadcasts DEF Broadcasts, p2pVars
  <2> QED  BY <2>2, <2>3
<1> QED  BY <1>1, <1>2, <1>3, <1>4, <1>5 DEF Task

(***************************************************************************)
(* Every step of the node preserves the invariant.                         *)
(***************************************************************************)
LEMMA NextConnInv == IInv /\ ConnInv /\ [ConnNext]_vars => (IInv /\ ConnInv)'
<1> SUFFICES ASSUME IInv, ConnInv, [ConnNext]_vars PROVE IInv' /\ ConnInv'
  OBVIOUS
<1>1. IInv'
  BY ConnStepIsP2P, NextIInv DEF ConnInv, ConnTypes
<1>2. CASE UNCHANGED vars
  <2>1. ConnTypes' /\ BroadcastOnce'
    BY <1>2 DEF vars, connVars, p2pVars, ConnInv, ConnTypes, TypeOK, P2PTypeOK, BroadcastOnce,
                PayloadsInTurn, LocalFits
  <2>2. ASSUME NEW c \in Peer PROVE Connection(c)'
    BY <1>1, <1>2, <2>1, RestingConnection
    DEF vars, connVars, p2pVars, TaskRests, Broadcasts
  <2> QED  BY <1>1, <2>1, <2>2 DEF ConnInv
<1>3. CASE ConnNext
  <2>1. ConnTypes' /\ BroadcastOnce'
    BY <1>1, <1>3, ConnTypesPreserved, BroadcastOncePreserved DEF ConnInv
  <2>2. ASSUME NEW d \in Peer PROVE Connection(d)'
    <3>1. CASE PublishNew
      <4>1. TaskRests(d)
        BY <3>1 DEF PublishNew, TaskRests
      <4>2. Broadcasts(d)
        BY <3>1, LocalFlashblock, PublishBroadcasts DEF PublishNew, ConnInv, ConnTypes
      <4> QED  BY <1>1, <2>1, <4>1, <4>2, RestingConnection
    <3>2. ASSUME NEW c \in Peer, c # d, Connect(c) \/ (\E msg : Arrive(c, msg)) \/ Task(c)
          PROVE  Connection(d)'
      BY <1>1, <2>1, <3>2, OthersRest, RestingConnection DEF ConnInv
    <3>3. ASSUME Connect(d) \/ (\E msg : Arrive(d, msg)) \/ Task(d)
          PROVE  Connection(d)'
      BY <1>1, <2>1, <3>3, ConnectKeeps, ArriveKeeps, PollKeeps, RxPendingKeeps, RxLaggedKeeps,
         RxReadyKeeps, ConnPendingKeeps, ConnEndsKeeps, HandleKeeps DEF Task
    <3> QED  BY <1>3, <3>1, <3>2, <3>3 DEF ConnNext
  <2> QED  BY <1>1, <2>1, <2>2 DEF ConnInv
<1> QED  BY <1>2, <1>3

(***************************************************************************)
(* The invariant holds in every execution of the connections of a node.    *)
(***************************************************************************)
THEOREM ConnectionInvariance == ConnSpec => [](IInv /\ ConnInv)
  BY InitConnInv, NextConnInv, PTL DEF ConnSpec

(***************************************************************************)
(* A node with connections runs the p2p protocol: whatever is proved of    *)
(* FlashblocksP2P holds of it (connection.rs:240, p2p.rs:241-344).         *)
(***************************************************************************)
THEOREM ConnectionsRunP2P == ConnSpec => Spec
<1>1. ConnInit => Init
  BY DEF ConnInit
<1>2. ConnInv /\ [ConnNext]_vars => [Next]_p2pVars
  BY ConnStepIsP2P DEF ConnInv, ConnTypes
<1> QED  BY <1>1, <1>2, ConnectionInvariance, PTL DEF ConnSpec, Spec

(***************************************************************************)
(* Every variable of the connections keeps its type.                       *)
(***************************************************************************)
THEOREM ConnectionTypeCorrect == ConnSpec => []TypeOK
<1>1. ConnInv => TypeOK
  BY DEF ConnInv, ConnTypes
<1> QED  BY <1>1, ConnectionInvariance, PTL

(***************************************************************************)
(* A peer is penalised as a repeater exactly when it repeated a flashblock *)
(* within one run of a payload (connection.rs:187-226).                    *)
(***************************************************************************)
THEOREM PenaltiesAreExact == ConnSpec => []PenaltyExactlyForDuplicates
<1>1. ConnInv => PenaltyExactlyForDuplicates
  BY DEF ConnInv, Connection, PenaltyIsExact, PenaltyExactlyForDuplicates
<1> QED  BY <1>1, ConnectionInvariance, PTL

(***************************************************************************)
(* A waiting connection is scheduled or has nothing left to do, as long as *)
(* it does not lag and payloads come in turn: leaving peer_rx at a         *)
(* filtered echo is harmless (connection.rs:104-147).                      *)
(***************************************************************************)
THEOREM NoLostWakeups == ConnSpec => []NoLostWakeupInTurn
<1>1. ConnInv => NoLostWakeupInTurn
  BY DEF ConnInv, Connection, WaitsForPeer, EchoesAreFiltered, NoLostWakeupInTurn, Unread
<1> QED  BY <1>1, ConnectionInvariance, PTL

(***************************************************************************)
(* A node sends no peer what the peer would penalise as a duplicate, as    *)
(* long as payloads come in turn (connection.rs:211-225).                  *)
(***************************************************************************)
THEOREM NothingSentTwice == ConnSpec => []NoDuplicatesInTurn
<1>1. ConnInv => NoDuplicatesInTurn
  <2> SUFFICES ASSUME ConnInv, PayloadsInTurn, NEW c \in Peer, HasDuplicate(sent[c]) PROVE FALSE
    BY DEF NoDuplicatesInTurn, NeverSendsDuplicates
  <2>1. PICK j \in 1 .. Len(sent[c]), k \in 1 .. Len(sent[c]) :
          j < k /\ SameFlashblock(sent[c][j], sent[c][k])
    BY DEF HasDuplicate
  <2>2. PICK p \in 1 .. peer_rx[c], q \in 1 .. peer_rx[c] :
          p < q /\ peer_tx[p] = sent[c][j] /\ peer_tx[q] = sent[c][k]
    BY <2>1 DEF ConnInv, Connection, SentInOrder
  <2>3. p \in 1 .. Len(peer_tx) /\ q \in 1 .. Len(peer_tx)
    <3>1. peer_rx[c] \in 0 .. Len(peer_tx) /\ peer_tx \in Seq(Flashblock)
      BY DEF ConnInv, ConnTypes, TypeOK, P2PTypeOK
    <3> QED  BY <2>2, <3>1
  <2> QED  BY <2>1, <2>2, <2>3 DEF ConnInv, BroadcastOnce
<1> QED  BY <1>1, ConnectionInvariance, PTL

(***************************************************************************)
(* A flashblock is not sent back on the connection it came from, as long   *)
(* as the connection does not lag and payloads come in turn                *)
(* (connection.rs:116-120).                                                *)
(***************************************************************************)
THEOREM NothingEchoed == ConnSpec => NoEcho
<1> DEFINE Sent == PayloadsInTurn' =>
             \A c \in Peer : ~lagged[c] /\ Len(sent'[c]) > Len(sent[c]) =>
               \A j \in 1 .. Len(handled[c]) :
                 ~SameFlashblock(sent'[c][Len(sent'[c])], handled[c][j])
<1>1. ConnInv /\ [ConnNext]_vars => [Sent]_vars
  <2> SUFFICES ASSUME ConnInv, ConnNext, PayloadsInTurn', NEW c \in Peer, ~lagged[c],
                      Len(sent'[c]) > Len(sent[c]), NEW j \in 1 .. Len(handled[c]),
                      SameFlashblock(sent'[c][Len(sent'[c])], handled[c][j])
               PROVE  FALSE
    OBVIOUS
  <2>1. /\ sent \in [Peer -> Seq(Flashblock)] /\ sent[c] \in Seq(Flashblock)
        /\ Len(sent[c]) \in Nat
        /\ peer_tx \in Seq(Flashblock) /\ Len(peer_tx) \in Nat /\ peer_rx[c] \in Nat
        /\ CAPACITY \in Nat
    BY ConnectionAssumption DEF ConnInv, ConnTypes, TypeOK, P2PTypeOK
  <2>2. RxReady(c)
    <3>1. sent' # sent
      BY <2>1
    <3>2. PICK d \in Peer : Connect(d) \/ RxReady(d)
      BY <3>1 DEF ConnNext, Task, PublishNew, Arrive, Poll, RxPending, RxLagged, ConnPending,
                  ConnEnds, HandleFlashblock
    <3>3. CASE Connect(d)
      <4>1. sent'[c] = sent[c] \/ sent'[c] = <<>>
        BY <2>1, <3>3 DEF Connect
      <4> QED  BY <2>1, <4>1
    <3>4. CASE RxReady(d) /\ d # c
      <4>1. sent' = sent \/ sent' = [sent EXCEPT ![d] = Append(@, peer_tx[peer_rx[d] + 1])]
        BY <3>4 DEF RxReady
      <4> QED  BY <2>1, <3>4, <4>1
    <3> QED  BY <3>2, <3>3, <3>4
  <2> DEFINE k == peer_rx[c] + 1
  <2>3. /\ k \in (peer_rx[c] + 1) .. Len(peer_tx) /\ k \in 1 .. Len(peer_tx)
        /\ peer_tx[k] \in Flashblock
    <3>1. Len(peer_tx) - peer_rx[c] \in 1 .. CAPACITY
      BY <2>2 DEF RxReady
    <3> QED  BY <2>1, <3>1
  <2>4. ~Originated(c, peer_tx[k]) /\ sent'[c] = Append(sent[c], peer_tx[k]) /\ pc[c] = "peer_rx"
        /\ UNCHANGED peer_tx
    BY <2>1, <2>2 DEF RxReady, p2pVars
  <2>5. sent'[c][Len(sent'[c])] = peer_tx[k]
    BY <2>1, <2>3, <2>4, AppendFacts
  <2>6. UnreadEcho(c, k)
    BY <2>3, <2>5 DEF UnreadEcho
  <2>7. PayloadsInTurn
    BY <2>4 DEF PayloadsInTurn, LocalFits
  <2> HIDE DEF k
  <2> QED  BY <2>3, <2>4, <2>6, <2>7 DEF ConnInv, Connection, EchoesAreFiltered
<1> QED  BY <1>1, ConnectionInvariance, PTL DEF ConnSpec, NoEcho

=============================================================================
