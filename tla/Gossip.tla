------------------------------- MODULE Gossip -------------------------------
(***************************************************************************)
(* Several nodes that relay the flashblocks of one builder to each other.  *)
(* Each node has the protocol state of FlashblocksP2P and, for every       *)
(* neighbour, a connection task (connection.rs).                           *)
(*                                                                         *)
(* A connection alternates between its two sources: it drains peer_rx,     *)
(* then reads one message of its peer.  How tasks sleep and wake up, and   *)
(* receivers that lag, are the subject of FlashblocksConnection.           *)
(***************************************************************************)
EXTENDS Integers, Sequences, SequencesExt

CONSTANTS
  Node,
  Builder,                \* the node whose payload jobs publish flashblocks
  Edge,                   \* the pairs of nodes that may connect
  Job,                    \* what the builder publishes, in order: the index of a
                          \* payload's flashblocks grows (block_number of the step)
  PayloadId, NoPayload, None, MAX_FLASHBLOCK_INDEX,
  MaxBreaks               \* bound on the connections that break

Flashblock == ToSet(Job)

Link == {l \in Node \X Node : {l[1], l[2]} \in Edge}

ASSUME GossipAssumption ==
  /\ Builder \in Node
  /\ \A e \in Edge : e \subseteq Node
  /\ NoPayload \notin PayloadId /\ None \notin Flashblock
  /\ MAX_FLASHBLOCK_INDEX \in Nat /\ MaxBreaks \in Nat
  /\ Job \in Seq(Flashblock)
  /\ \A j, k \in DOMAIN Job :
       j < k /\ Job[j].payload_id = Job[k].payload_id => Job[j].index < Job[k].index
  /\ \A fb \in Flashblock :
       /\ fb.payload_id \in PayloadId
       /\ fb.index \in 0 .. MAX_FLASHBLOCK_INDEX
       /\ fb.oversize = FALSE

VARIABLES
  node,       \* node[n]: the protocol state and channels of n
  conn,       \* conn[<<n, m>>]: the connection of n with its peer m
  wire,       \* wire[<<n, m>>]: what n has sent and m has not read
  penalised,  \* the links <<n, m>> where n found m to repeat itself
  published,  \* how much of Job is published
  breaks,     \* how many connections have broken
  since       \* history: since[n] of Job was published when n joined the builder's
              \* component, None while it is not in it

vars == <<node, conn, wire, penalised, published, breaks, since>>

P2P(n) == INSTANCE FlashblocksP2P
  WITH payload_id <- node[n].payload_id, flashblock_index <- node[n].flashblock_index,
       flashblocks <- node[n].flashblocks, peer_tx <- node[n].peer_tx,
       flashblock_tx <- node[n].flashblock_tx

Closed == [open |-> FALSE, turn |-> "peer_rx", peer_rx |-> 0, payload_id |-> NoPayload,
           received |-> {}]

GossipInit ==
  /\ node = [n \in Node |->
       [payload_id |-> NoPayload, flashblock_index |-> 0,
        flashblocks |-> [i \in 0 .. MAX_FLASHBLOCK_INDEX |-> None],
        peer_tx |-> <<>>, flashblock_tx |-> <<>>]]
  /\ conn = [l \in Link |-> Closed]
  /\ wire = [l \in Link |-> <<>>]
  /\ penalised = {}
  /\ published = 0
  /\ breaks = 0
  /\ since = [n \in Node |-> IF n = Builder THEN 0 ELSE None]

-----------------------------------------------------------------------------
PublishedKeepingFrontier(n, fb) ==  \* mutant: the frontier is not reset
  LET buffer == [P2P(n)!BufferFor(fb) EXCEPT ![fb.index] = fb]
      lo == node[n].flashblock_index
      hi == CHOOSE h \in lo .. (MAX_FLASHBLOCK_INDEX + 1) :
              /\ \A i \in lo .. (h - 1) : P2P(n)!Ready(buffer, i)
              /\ ~P2P(n)!Ready(buffer, h)
  IN IF P2P(n)!BufferFor(fb)[fb.index] # None THEN node[n]
     ELSE [payload_id |-> fb.payload_id, flashblock_index |-> hi, flashblocks |-> buffer,
           peer_tx |-> Append(node[n].peer_tx, fb),
           flashblock_tx |-> node[n].flashblock_tx \o P2P(n)!Run(buffer, lo, hi)]

\* What publish makes of the state of n.
Published(n, fb) ==
  LET buffer == [P2P(n)!BufferFor(fb) EXCEPT ![fb.index] = fb]
      lo == P2P(n)!FrontierFor(fb)
      hi == CHOOSE h \in lo .. (MAX_FLASHBLOCK_INDEX + 1) :
              /\ \A i \in lo .. (h - 1) : P2P(n)!Ready(buffer, i)
              /\ ~P2P(n)!Ready(buffer, h)
  IN IF P2P(n)!BufferFor(fb)[fb.index] # None THEN node[n]
     ELSE [payload_id |-> fb.payload_id, flashblock_index |-> hi, flashblocks |-> buffer,
           peer_tx |-> Append(node[n].peer_tx, fb),
           flashblock_tx |-> node[n].flashblock_tx \o P2P(n)!Run(buffer, lo, hi)]

\* The builder's payload job publishes its next flashblock.
PublishNew ==
  /\ published < Len(Job)
  /\ published' = published + 1
  /\ node' = [node EXCEPT ![Builder] = Published(Builder, Job[published + 1])]
  /\ UNCHANGED <<conn, wire, penalised, breaks, since>>

\* n is in the builder's component: both ends of every hop are open.
Connected(c, n) ==
  \A S \in SUBSET Node :
    /\ Builder \in S
    /\ \A l \in Link : l[1] \in S /\ c[l].open /\ c[<<l[2], l[1]>>].open => l[2] \in S
    => n \in S

NoteComponent ==
  since' = [n \in Node |-> IF ~Connected(conn', n) THEN None
                           ELSE IF since[n] = None THEN published ELSE since[n]]

IntoConnectionAhead(l) ==  \* mutant: the receiver starts behind the end
  /\ ~conn[l].open
  /\ conn' = [conn EXCEPT ![l] =
       [Closed EXCEPT !.open = TRUE, !.peer_rx = Len(node[l[1]].peer_tx) + 1]]
  /\ NoteComponent
  /\ UNCHANGED <<node, wire, penalised, published, breaks>>

IntoConnectionReplaying(l) ==  \* mutant: a new receiver gets what was broadcast before
  /\ ~conn[l].open
  /\ conn' = [conn EXCEPT ![l] = [Closed EXCEPT !.open = TRUE]]
  /\ NoteComponent
  /\ UNCHANGED <<node, wire, penalised, published, breaks>>

\* into_connection at one end, which subscribes to peer_tx; the other end may
\* come later, and finds what was sent to it until then.
IntoConnection(l) ==
  /\ ~conn[l].open
  /\ conn' = [conn EXCEPT ![l] =
       [Closed EXCEPT !.open = TRUE, !.peer_rx = Len(node[l[1]].peer_tx)]]
  /\ NoteComponent
  /\ UNCHANGED <<node, wire, penalised, published, breaks>>

\* The session of two nodes ends, and with it what is in flight.
Break(e) ==
  /\ breaks < MaxBreaks
  /\ \A l \in Link : {l[1], l[2]} = e => conn[l].open
  /\ breaks' = breaks + 1
  /\ conn' = [l \in Link |-> IF {l[1], l[2]} = e THEN Closed ELSE conn[l]]
  /\ wire' = [l \in Link |-> IF {l[1], l[2]} = e THEN <<>> ELSE wire[l]]
  /\ NoteComponent
  /\ UNCHANGED <<node, penalised, published>>

-----------------------------------------------------------------------------
RxEmpty(l) == conn[l].peer_rx = Len(node[l[1]].peer_tx)

\* "Check if this flashblock actually originated from this peer."
Originated(l, fb) == conn[l].payload_id = fb.payload_id /\ fb.index \in conn[l].received

\* poll_next has read a message of peer_rx: an echo makes it go on to conn,
\* anything else is sent.
Relay(l) ==
  /\ conn[l].open /\ conn[l].turn = "peer_rx" /\ ~RxEmpty(l)
  /\ LET fb == node[l[1]].peer_tx[conn[l].peer_rx + 1]
     IN \/ /\ Originated(l, fb)
           /\ conn' = [conn EXCEPT ![l].peer_rx = @ + 1, ![l].turn = "conn"]
           /\ UNCHANGED wire
        \/ /\ ~Originated(l, fb)
           /\ conn' = [conn EXCEPT ![l].peer_rx = @ + 1]
           /\ wire' = [wire EXCEPT ![l] = Append(@, fb)]
  /\ UNCHANGED <<node, penalised, published, breaks, since>>

RxPendingUnfair(l) ==  \* mutant: conn may be read before peer_rx is drained
  /\ conn[l].open /\ conn[l].turn = "peer_rx"
  /\ conn' = [conn EXCEPT ![l].turn = "conn"]
  /\ UNCHANGED <<node, wire, penalised, published, breaks, since>>

\* Nothing to broadcast: poll_next goes on to conn.
RxPending(l) ==
  /\ conn[l].open /\ conn[l].turn = "peer_rx" /\ RxEmpty(l)
  /\ conn' = [conn EXCEPT ![l].turn = "conn"]
  /\ UNCHANGED <<node, wire, penalised, published, breaks, since>>

\* Nothing from the peer: the next poll starts at peer_rx again.
ConnPending(l) ==
  /\ conn[l].open /\ conn[l].turn = "conn" /\ wire[<<l[2], l[1]>>] = <<>>
  /\ conn' = [conn EXCEPT ![l].turn = "peer_rx"]
  /\ UNCHANGED <<node, wire, penalised, published, breaks, since>>

ReceivedForNoReset(l, fb) == conn[l].received  \* mutant: `received` survives a new payload

\* The indices received on l for the payload of fb.
ReceivedFor(l, fb) == IF conn[l].payload_id = fb.payload_id THEN conn[l].received ELSE {}

\* handle_flashblocks_payload_v1.
Receive(l) ==
  LET back == <<l[2], l[1]>>
      fb == Head(wire[back])
  IN /\ conn[l].open /\ conn[l].turn = "conn" /\ wire[back] # <<>>
     /\ wire' = [wire EXCEPT ![back] = Tail(@)]
     /\ conn' = [conn EXCEPT ![l].turn = "peer_rx", ![l].payload_id = fb.payload_id,
                             ![l].received = ReceivedFor(l, fb) \cup {fb.index}]
     /\ \/ /\ fb.index \in ReceivedFor(l, fb)
           /\ penalised' = penalised \cup {l}
           /\ UNCHANGED node
        \/ /\ fb.index \notin ReceivedFor(l, fb)
           /\ node' = [node EXCEPT ![l[1]] = Published(l[1], fb)]
           /\ UNCHANGED penalised
     /\ UNCHANGED <<published, breaks, since>>

Task(l) == Relay(l) \/ RxPending(l) \/ ConnPending(l) \/ Receive(l)

GossipNext ==
  \/ PublishNew
  \/ \E l \in Link : IntoConnection(l) \/ Task(l)
  \/ \E e \in Edge : Break(e)

GossipSpec == GossipInit /\ [][GossipNext]_vars

\* The runtime goes on running the connection tasks.
GossipFairSpec == GossipSpec /\ \A l \in Link : WF_vars(Task(l))

-----------------------------------------------------------------------------
TypeOK ==
  /\ \A n \in Node : P2P(n)!P2PTypeOK
  /\ \A l \in Link :
       /\ conn[l].open \in BOOLEAN /\ conn[l].turn \in {"peer_rx", "conn"}
       /\ conn[l].peer_rx \in 0 .. Len(node[l[1]].peer_tx)
       /\ conn[l].payload_id \in PayloadId \cup {NoPayload}
       /\ conn[l].received \subseteq 0 .. MAX_FLASHBLOCK_INDEX
       /\ wire[l] \in Seq(Flashblock)
  /\ penalised \subseteq Link
  /\ published \in 0 .. Len(Job)
  /\ breaks \in 0 .. MaxBreaks
  /\ \A n \in Node : since[n] \in 0 .. published \cup {None}

\* l leads to the next node on the way to the builder.
Upward(parent, l) == l[1] # Builder /\ parent[l[1]] = l[2]

\* The nodes form a tree: every link joins a node and its parent.
Tree ==
  \E parent \in [Node -> Node] :
    \A l \in Link : Upward(parent, l) <=> ~Upward(parent, <<l[2], l[1]>>)

Position(fb) == CHOOSE k \in DOMAIN Job : Job[k] = fb

(***************************************************************************)
(* The strict ordering promised for flashblock_tx (p2p.rs:157-158), across *)
(* the network: no node emits a flashblock twice or before an earlier one  *)
(* of the builder.                                                         *)
(***************************************************************************)
StreamsInOrder ==
  \A n \in Node : \A j, k \in DOMAIN node[n].flashblock_tx :
    j < k => Position(node[n].flashblock_tx[j]) < Position(node[n].flashblock_tx[k])

(***************************************************************************)
(* No node is penalised for relaying (connection.rs:211-225), across late  *)
(* joiners, broken connections and echoes.                                 *)
(***************************************************************************)
NobodyPenalised == penalised = {}

\* Where the payload of Job[k] begins.
Start(k) == CHOOSE i \in 1 .. k : /\ Job[i].payload_id = Job[k].payload_id
                                  /\ \A h \in 1 .. (i - 1) : Job[h].payload_id # Job[k].payload_id

\* What n has not emitted of the payloads that began after it joined.
Missing(n) ==
  {k \in 1 .. published : /\ since[n] # None /\ since[n] < Start(k)
                          /\ \A j \in DOMAIN node[n].flashblock_tx : node[n].flashblock_tx[j] # Job[k]}

(***************************************************************************)
(* A node that joined before a payload's first flashblock emits all of the *)
(* payload (p2p.rs:117-120, 241-344, 444): nothing is left behind on any   *)
(* hop.  A node that joins later cannot, because nobody sends it what was  *)
(* broadcast before.                                                       *)
(***************************************************************************)
JoinedGetEverything == \A n \in Node : Missing(n) # {} ~> Missing(n) = {}

(***************************************************************************)
(* Every node of the network runs the protocol of FlashblocksP2P, as seen  *)
(* from its own state (p2p.rs:241-344).                                    *)
(***************************************************************************)
NodesImplementP2P ==
  /\ \A n \in Node : P2P(n)!Init
  /\ [][\A n \in Node : P2P(n)!Next \/ UNCHANGED P2P(n)!p2pVars]_vars

=============================================================================
