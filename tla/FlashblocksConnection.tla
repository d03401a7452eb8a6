------------------------ MODULE FlashblocksConnection ------------------------
(***************************************************************************)
(* One node with a FlashblocksConnection per peer (connection.rs), all of  *)
(* them sharing the protocol state of FlashblocksP2P.                      *)
(*                                                                         *)
(* A connection is a task that runs poll_next.  Its loop is two steps per  *)
(* turn, one read of peer_rx and one read of conn, and the other tasks of  *)
(* the node run between any two of them.  Returning Ready makes the caller *)
(* poll again, so it is a turn to "peer_rx"; returning Pending is "idle",  *)
(* from where only a wake-up resumes the task.                             *)
(***************************************************************************)
EXTENDS FlashblocksP2P, FiniteSets

CONSTANTS
  Peer,
  CAPACITY,          \* messages a lagging receiver can still read
  LocalJob,          \* the flashblocks this node builds, in publishing order
  RemoteFlashblock,  \* the flashblocks peers may send
  Garbage,           \* bytes that do not decode
  Eof,               \* the peer closed the protocol connection
  MaxInbound         \* bound on what all peers together send

ASSUME ConnectionAssumption ==
  /\ CAPACITY \in Nat \ {0}
  /\ MaxInbound \in Nat
  /\ LocalJob \in Seq(Flashblock)
  /\ RemoteFlashblock \subseteq Flashblock
  /\ \A fb \in RemoteFlashblock : ~fb.oversize  \* it came through a frame
  /\ Garbage \notin Flashblock /\ Eof \notin Flashblock /\ Garbage # Eof

VARIABLES
  pc,               \* where each connection's task is
  woken,            \* the task is scheduled
  rx_waker,         \* the task's waker is registered with peer_tx
  conn_waker,       \* the task's waker is registered with conn
  peer_rx,          \* how much of peer_tx the connection has read
  conn_payload_id,  \* FlashblocksConnection::payload_id
  received,         \* FlashblocksConnection::received, as the set of indices
  inbox,            \* what the peer sent and poll_next has not read
  penalties,        \* reputation changes of the peer, on this connection
  handled,          \* history: flashblocks read from the peer
  sent,             \* history: flashblocks sent to the peer
  lagged,           \* history: peer_rx has skipped messages
  local_next,       \* how much of LocalJob is published
  inbound           \* how much the peers have sent

connVars == <<pc, woken, rx_waker, conn_waker, peer_rx, conn_payload_id, received, inbox,
              penalties, handled, sent, lagged>>

vars == <<p2pVars, connVars, local_next, inbound>>

-----------------------------------------------------------------------------
ConnInit ==
  /\ Init
  /\ pc = [c \in Peer |-> "closed"]
  /\ woken = [c \in Peer |-> FALSE]
  /\ rx_waker = [c \in Peer |-> FALSE]
  /\ conn_waker = [c \in Peer |-> FALSE]
  /\ peer_rx = [c \in Peer |-> 0]
  /\ conn_payload_id = [c \in Peer |-> NoPayload]
  /\ received = [c \in Peer |-> {}]
  /\ inbox = [c \in Peer |-> <<>>]
  /\ penalties = [c \in Peer |-> <<>>]
  /\ handled = [c \in Peer |-> <<>>]
  /\ sent = [c \in Peer |-> <<>>]
  /\ lagged = [c \in Peer |-> FALSE]
  /\ local_next = 1
  /\ inbound = 0

\* A publish, and the wake-ups tokio's send makes when it sends to peer_tx.
PublishAndWake(fb) ==
  /\ Publish(fb)
  /\ IF peer_tx' = peer_tx
       THEN UNCHANGED <<woken, rx_waker>>
       ELSE /\ woken' = [c \in Peer |-> woken[c] \/ rx_waker[c]]
            /\ rx_waker' = [c \in Peer |-> FALSE]

\* FlashblocksHandle::publish_new, called by the local builder.
PublishNew ==
  /\ local_next <= Len(LocalJob)
  /\ local_next' = local_next + 1
  /\ PublishAndWake(LocalJob[local_next])
  /\ UNCHANGED <<pc, conn_waker, peer_rx, conn_payload_id, received, inbox, penalties,
                 handled, sent, lagged, inbound>>

\* into_connection: a fresh receiver starts at the current end of peer_tx.
Connect(c) ==
  /\ pc[c] = "closed"
  /\ pc' = [pc EXCEPT ![c] = "idle"]
  /\ woken' = [woken EXCEPT ![c] = TRUE]
  /\ rx_waker' = [rx_waker EXCEPT ![c] = FALSE]
  /\ conn_waker' = [conn_waker EXCEPT ![c] = FALSE]
  /\ peer_rx' = [peer_rx EXCEPT ![c] = Len(peer_tx)]
  /\ conn_payload_id' = [conn_payload_id EXCEPT ![c] = NoPayload]
  /\ received' = [received EXCEPT ![c] = {}]
  /\ inbox' = [inbox EXCEPT ![c] = <<>>]
  /\ penalties' = [penalties EXCEPT ![c] = <<>>]
  /\ handled' = [handled EXCEPT ![c] = <<>>]
  /\ sent' = [sent EXCEPT ![c] = <<>>]
  /\ lagged' = [lagged EXCEPT ![c] = FALSE]
  /\ UNCHANGED <<p2pVars, local_next, inbound>>

\* The peer's bytes reach conn, which wakes the task if it waits for them.
Arrive(c, msg) ==
  /\ pc[c] # "closed"
  /\ inbound < MaxInbound
  /\ inbound' = inbound + 1
  /\ inbox' = [inbox EXCEPT ![c] = Append(@, msg)]
  /\ woken' = [woken EXCEPT ![c] = @ \/ conn_waker[c]]
  /\ conn_waker' = [conn_waker EXCEPT ![c] = FALSE]
  /\ UNCHANGED <<p2pVars, pc, rx_waker, peer_rx, conn_payload_id, received, penalties,
                 handled, sent, lagged, local_next>>

-----------------------------------------------------------------------------
\* The executor runs a scheduled task: poll_next starts at the top of its loop.
Poll(c) ==
  /\ pc[c] = "idle"
  /\ woken[c]
  /\ pc' = [pc EXCEPT ![c] = "peer_rx"]
  /\ woken' = [woken EXCEPT ![c] = FALSE]
  /\ UNCHANGED <<p2pVars, rx_waker, conn_waker, peer_rx, conn_payload_id, received, inbox, penalties,
                 handled, sent, lagged, local_next, inbound>>

RxPendingNoWaker(c) ==  \* mutant: peer_rx is not polled to Pending
  /\ pc[c] = "peer_rx"
  /\ peer_rx[c] = Len(peer_tx)
  /\ pc' = [pc EXCEPT ![c] = "conn"]
  /\ UNCHANGED <<p2pVars, woken, rx_waker, conn_waker, peer_rx, conn_payload_id, received,
                 inbox, penalties, handled, sent, lagged, local_next, inbound>>

\* Nothing to broadcast: polling registers the waker with peer_tx.
RxPending(c) ==
  /\ pc[c] = "peer_rx"
  /\ peer_rx[c] = Len(peer_tx)
  /\ rx_waker' = [rx_waker EXCEPT ![c] = TRUE]
  /\ pc' = [pc EXCEPT ![c] = "conn"]
  /\ UNCHANGED <<p2pVars, woken, conn_waker, peer_rx, conn_payload_id, received, inbox, penalties,
                 handled, sent, lagged, local_next, inbound>>

\* The receiver fell behind: it skips to the oldest message still buffered; the
\* error is logged and the loop goes on to conn.
RxLagged(c) ==
  /\ pc[c] = "peer_rx"
  /\ Len(peer_tx) - peer_rx[c] > CAPACITY
  /\ peer_rx' = [peer_rx EXCEPT ![c] = Len(peer_tx) - CAPACITY]
  /\ lagged' = [lagged EXCEPT ![c] = TRUE]
  /\ pc' = [pc EXCEPT ![c] = "conn"]
  /\ UNCHANGED <<p2pVars, woken, rx_waker, conn_waker, conn_payload_id, received, inbox, penalties,
                 handled, sent, local_next, inbound>>

OriginatedNever(c, fb) == FALSE  \* mutant: the echo filter is gone

\* "Check if this flashblock actually originated from this peer."
Originated(c, fb) == conn_payload_id[c] = fb.payload_id /\ fb.index \in received[c]

RxReady(c) ==
  /\ pc[c] = "peer_rx"
  /\ Len(peer_tx) - peer_rx[c] \in 1 .. CAPACITY
  /\ peer_rx' = [peer_rx EXCEPT ![c] = @ + 1]
  /\ LET fb == peer_tx[peer_rx[c] + 1]
     IN \/ /\ Originated(c, fb)
           /\ pc' = [pc EXCEPT ![c] = "conn"]
           /\ UNCHANGED sent
        \/ /\ ~Originated(c, fb)
           /\ sent' = [sent EXCEPT ![c] = Append(@, fb)]
           /\ UNCHANGED pc
  /\ UNCHANGED <<p2pVars, woken, rx_waker, conn_waker, conn_payload_id, received, inbox, penalties,
                 handled, lagged, local_next, inbound>>

\* Nothing from the peer: polling registers the waker with conn and poll_next
\* returns Pending.
ConnPending(c) ==
  /\ pc[c] = "conn"
  /\ inbox[c] = <<>>
  /\ pc' = [pc EXCEPT ![c] = "idle"]
  /\ conn_waker' = [conn_waker EXCEPT ![c] = TRUE]
  /\ UNCHANGED <<p2pVars, woken, rx_waker, peer_rx, conn_payload_id, received, inbox,
                 penalties, handled, sent, lagged, local_next, inbound>>

\* The stream ends: on Eof, or on bytes that do not decode, which costs the
\* peer reputation.
ConnEnds(c) ==
  /\ pc[c] = "conn"
  /\ inbox[c] # <<>>
  /\ Head(inbox[c]) \in {Garbage, Eof}
  /\ pc' = [pc EXCEPT ![c] = "closed"]
  /\ penalties' = IF Head(inbox[c]) = Garbage
                    THEN [penalties EXCEPT ![c] = Append(@, "BadMessage")]
                    ELSE penalties
  /\ inbox' = [inbox EXCEPT ![c] = <<>>]
  /\ woken' = [woken EXCEPT ![c] = FALSE]
  /\ rx_waker' = [rx_waker EXCEPT ![c] = FALSE]
  /\ conn_waker' = [conn_waker EXCEPT ![c] = FALSE]
  /\ UNCHANGED <<p2pVars, peer_rx, conn_payload_id, received, handled, sent, lagged,
                 local_next, inbound>>

ReceivedForNoReset(c, fb) == received[c]  \* mutant: `received` survives a new payload

\* The indices received from c for the payload of fb.
ReceivedFor(c, fb) == IF conn_payload_id[c] = fb.payload_id THEN received[c] ELSE {}

\* handle_flashblocks_payload_v1, under the state mutex.
HandleFlashblock(c) ==
  /\ pc[c] = "conn"
  /\ inbox[c] # <<>>
  /\ Head(inbox[c]) \in Flashblock
  /\ LET fb == Head(inbox[c])
     IN /\ conn_payload_id' = [conn_payload_id EXCEPT ![c] = fb.payload_id]
        /\ handled' = [handled EXCEPT ![c] = Append(@, fb)]
        /\ \/ /\ fb.index > MAX_FLASHBLOCK_INDEX
              /\ received' = [received EXCEPT ![c] = ReceivedFor(c, fb)]
              /\ UNCHANGED <<p2pVars, woken, rx_waker, penalties>>
           \/ /\ fb.index \in ReceivedFor(c, fb)
              /\ penalties' = [penalties EXCEPT ![c] = Append(@, "AlreadySeenTransaction")]
              /\ UNCHANGED <<p2pVars, woken, rx_waker, received>>
           \/ /\ fb.index \in Slot \ ReceivedFor(c, fb)
              /\ received' = [received EXCEPT ![c] = ReceivedFor(c, fb) \cup {fb.index}]
              /\ PublishAndWake(fb)
              /\ UNCHANGED penalties
  /\ inbox' = [inbox EXCEPT ![c] = Tail(@)]
  /\ pc' = [pc EXCEPT ![c] = "peer_rx"]
  /\ UNCHANGED <<conn_waker, peer_rx, sent, lagged, local_next, inbound>>

\* The steps of the connection's own task.
Task(c) ==
  \/ Poll(c)
  \/ RxPending(c)
  \/ RxLagged(c)
  \/ RxReady(c)
  \/ ConnPending(c)
  \/ ConnEnds(c)
  \/ HandleFlashblock(c)

ConnNext ==
  \/ PublishNew
  \/ \E c \in Peer :
       \/ Connect(c)
       \/ \E msg \in RemoteFlashblock \cup {Garbage, Eof} : Arrive(c, msg)
       \/ Task(c)

ConnSpec == ConnInit /\ [][ConnNext]_vars

-----------------------------------------------------------------------------
TypeOK ==
  /\ P2PTypeOK
  /\ pc \in [Peer -> {"closed", "idle", "peer_rx", "conn"}]
  /\ woken \in [Peer -> BOOLEAN]
  /\ rx_waker \in [Peer -> BOOLEAN]
  /\ conn_waker \in [Peer -> BOOLEAN]
  /\ \A c \in Peer : peer_rx[c] \in 0 .. Len(peer_tx)
  /\ conn_payload_id \in [Peer -> PayloadId \cup {NoPayload}]
  /\ received \in [Peer -> SUBSET Slot]
  /\ inbox \in [Peer -> Seq(RemoteFlashblock \cup {Garbage, Eof})]
  /\ penalties \in [Peer -> Seq({"BadMessage", "AlreadySeenTransaction"})]
  /\ handled \in [Peer -> Seq(RemoteFlashblock)]
  /\ sent \in [Peer -> Seq(Flashblock)]
  /\ lagged \in [Peer -> BOOLEAN]
  /\ local_next \in 1 .. (Len(LocalJob) + 1)
  /\ inbound \in 0 .. MaxInbound

-----------------------------------------------------------------------------
SameFlashblock(x, y) == x.payload_id = y.payload_id /\ x.index = y.index

\* What a receiver with connection.rs's duplicate check would penalise in s.
HasDuplicate(s) ==
  \E j, k \in 1 .. Len(s) :
    /\ j < k
    /\ s[k].index <= MAX_FLASHBLOCK_INDEX
    /\ SameFlashblock(s[j], s[k])
    /\ \A i \in j .. k : s[i].payload_id = s[k].payload_id

\* Every flashblock of the local builder can be broadcast: a payload of which
\* nothing was broadcast would not show in peer_tx.
LocalFits ==
  \A k \in 1 .. Len(LocalJob) : LocalJob[k].index \in Slot /\ ~LocalJob[k].oversize

\* The node never returns to a payload it has left, as far as peer_tx shows.
PayloadsInTurn ==
  /\ LocalFits
  /\ \A i, k \in 1 .. Len(peer_tx) : i < k /\ peer_tx[i].payload_id = peer_tx[k].payload_id =>
       \A j \in i .. k : peer_tx[j].payload_id = peer_tx[k].payload_id

Unread(c) == pc[c] # "closed" /\ peer_rx[c] < Len(peer_tx)

(***************************************************************************)
(* A connection that waits is scheduled, or has read all that is broadcast *)
(* and all that its peer has sent (connection.rs:104-147), as long as no   *)
(* receiver lags and payloads come in turn.  The loop leaves peer_rx       *)
(* without registering a waker in two places, at a filtered echo and at    *)
(* Lagged; after a lag the task can sleep on messages still buffered.      *)
(***************************************************************************)
NoLostWakeupInTurn ==
  \A c \in Peer : pc[c] = "idle" /\ ~woken[c] =>
    /\ inbox[c] = <<>>
    /\ Unread(c) /\ PayloadsInTurn => lagged[c]

(***************************************************************************)
(* A peer is penalised as a repeater exactly when it repeated a flashblock *)
(* within one run of flashblocks of the same payload (connection.rs:187-   *)
(* 226); neither a relayed copy from another peer nor the node's own       *)
(* publishes count against it.                                             *)
(***************************************************************************)
PenaltyExactlyForDuplicates ==
  \A c \in Peer :
    (\E k \in 1 .. Len(penalties[c]) : penalties[c][k] = "AlreadySeenTransaction")
      <=> HasDuplicate(handled[c])

(***************************************************************************)
(* No echo (connection.rs:116-120): a flashblock is not sent to a peer     *)
(* from which it was received on the same connection, as long as the node  *)
(* does not return to a payload it has left and the connection does not    *)
(* lag.  The filter only knows the peer's latest payload, so this depends  *)
(* on peer_rx being read before every read of conn.                        *)
(***************************************************************************)
NoEcho ==
  [][PayloadsInTurn' =>
       \A c \in Peer : ~lagged[c] /\ Len(sent'[c]) > Len(sent[c]) =>
         \A j \in 1 .. Len(handled[c]) :
           ~SameFlashblock(sent'[c][Len(sent'[c])], handled[c][j])]_vars

(***************************************************************************)
(* A node never sends a peer what the peer, running the same code, would   *)
(* penalise as a duplicate (connection.rs:211-225).                        *)
(***************************************************************************)
NeverSendsDuplicates == \A c \in Peer : ~HasDuplicate(sent[c])

\* ... which holds as long as payloads come in turn.
NoDuplicatesInTurn == PayloadsInTurn => NeverSendsDuplicates

-----------------------------------------------------------------------------
\* The runtime eventually runs every scheduled task and every started step.
ConnFairSpec == ConnSpec /\ \A c \in Peer : WF_vars(Task(c))

\* Peer c was sent message k of peer_tx, or had sent that flashblock itself.
HasReached(c, k) ==
  /\ k <= Len(peer_tx)
  /\ \/ \E j \in 1 .. Len(sent[c]) : sent[c][j] = peer_tx[k]
     \/ \E j \in 1 .. Len(handled[c]) : SameFlashblock(handled[c][j], peer_tx[k])

(***************************************************************************)
(* Every broadcast flashblock reaches every connected peer: it is sent,    *)
(* or the peer had it already, or the connection ends (p2p.rs:117-120,     *)
(* connection.rs:104-132).                                                 *)
(***************************************************************************)
BroadcastReachesPeers ==
  \A c \in Peer, k \in 1 .. (MaxInbound + Len(LocalJob)) :
    pc[c] # "closed" /\ peer_rx[c] < k /\ k <= Len(peer_tx)
      ~> pc[c] = "closed" \/ HasReached(c, k)

=============================================================================
