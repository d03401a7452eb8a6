---------------------------- MODULE GossipProofs ----------------------------
(***************************************************************************)
(* Proofs about Gossip, for every set of nodes and links, every job and    *)
(* any number of broken connections.                                       *)
(***************************************************************************)
EXTENDS Gossip, WellFoundedInduction, TLAPS

Slots == 0 .. MAX_FLASHBLOCK_INDEX

NodeState ==
  [payload_id : PayloadId \cup {NoPayload},
   flashblock_index : 0 .. (MAX_FLASHBLOCK_INDEX + 1),
   flashblocks : [Slots -> Flashblock \cup {None}],
   peer_tx : Seq(Flashblock),
   flashblock_tx : Seq(Flashblock)]

ConnState ==
  [open : BOOLEAN, turn : {"peer_rx", "conn"}, peer_rx : Nat,
   payload_id : PayloadId \cup {NoPayload}, received : SUBSET Slots]

\* The inductive invariant for any shape of the network.
Types ==
  /\ node \in [Node -> NodeState]
  /\ conn \in [Link -> ConnState]
  /\ wire \in [Link -> Seq(Flashblock)]
  /\ \A l \in Link : conn[l].peer_rx <= Len(node[l[1]].peer_tx)
  /\ penalised \subseteq Link
  /\ published \in 0 .. Len(Job)
  /\ breaks \in 0 .. MaxBreaks
  /\ since \in [Node -> (0 .. published) \cup {None}]

\* The buffer of n with fb in its slot.
Cached(n, fb) == [P2P(n)!BufferFor(fb) EXCEPT ![fb.index] = fb]

\* From slot lo on, slot hi is the first that is not cached.
IsGap(n, buffer, lo, hi) ==
  /\ \A i \in lo .. (hi - 1) : P2P(n)!Ready(buffer, i)
  /\ ~P2P(n)!Ready(buffer, hi)

\* The state of n that has cached, broadcast and emitted up to hi.
Outcome(n, fb, hi) ==
  [payload_id |-> fb.payload_id, flashblock_index |-> hi, flashblocks |-> Cached(n, fb),
   peer_tx |-> Append(node[n].peer_tx, fb),
   flashblock_tx |-> node[n].flashblock_tx \o P2P(n)!Run(Cached(n, fb), P2P(n)!FrontierFor(fb), hi)]

-----------------------------------------------------------------------------
(***************************************************************************)
(* Every set of naturals that is not empty has a least element.            *)
(***************************************************************************)
LEMMA LeastElement ==
  ASSUME NEW T, T \subseteq Nat, NEW x \in T
  PROVE  \E n \in T : \A m \in T : n <= m
<1>1. IsWellFoundedOn(OpToRel(<, Nat), Nat)
  BY NatLessThanWellFounded, Zenon
<1>2. T # {}
  OBVIOUS
<1>3. PICK n \in T : \A m \in T : ~(<<m, n>> \in OpToRel(<, Nat))
  BY <1>1, <1>2, WFMin, Zenon
<1>4. \A m \in T : ~(m < n)
  BY <1>3 DEF OpToRel
<1> QED BY <1>4

(***************************************************************************)
(* The emit loop ends: past the last slot nothing is cached (p2p.rs:       *)
(* 329-343).                                                               *)
(***************************************************************************)
LEMMA GapExists ==
  ASSUME NEW n \in Node, NEW buffer, NEW lo \in 0 .. (MAX_FLASHBLOCK_INDEX + 1)
  PROVE  \E hi \in lo .. (MAX_FLASHBLOCK_INDEX + 1) : IsGap(n, buffer, lo, hi)
<1> DEFINE T == {h \in lo .. (MAX_FLASHBLOCK_INDEX + 1) : ~P2P(n)!Ready(buffer, h)}
<1>0. MAX_FLASHBLOCK_INDEX \in Nat
  BY GossipAssumption
<1>1. MAX_FLASHBLOCK_INDEX + 1 \in T
  BY <1>0 DEF P2P!Ready, P2P!Slot
<1>2. T \subseteq Nat
  BY <1>0
<1>3. PICK hi \in T : \A m \in T : hi <= m
  <2> HIDE DEF T
  <2> QED BY <1>1, <1>2, LeastElement
<1>4. ASSUME NEW i \in lo .. (hi - 1) PROVE P2P(n)!Ready(buffer, i)
  <2>1. i \in lo .. (MAX_FLASHBLOCK_INDEX + 1) /\ ~(hi <= i)
    BY <1>0, <1>3
  <2>2. i \notin T
    BY <1>3, <2>1
  <2> QED BY <2>1, <2>2
<1> QED BY <1>3, <1>4 DEF IsGap

(***************************************************************************)
(* What the constants satisfy.                                             *)
(***************************************************************************)
LEMMA ConstantFacts ==
  /\ Builder \in Node /\ MAX_FLASHBLOCK_INDEX \in Nat /\ MaxBreaks \in Nat
  /\ Job \in Seq(Flashblock) /\ Len(Job) \in Nat /\ DOMAIN Job = 1 .. Len(Job)
  /\ None \notin Flashblock /\ NoPayload \notin PayloadId
  /\ \A fb \in Flashblock :
       fb.payload_id \in PayloadId /\ fb.index \in Slots /\ fb.oversize = FALSE
  BY GossipAssumption DEF Slots

(***************************************************************************)
(* A link leads from a node to a node, and there is one back.              *)
(***************************************************************************)
LEMMA LinkFacts ==
  ASSUME NEW l \in Link
  PROVE  /\ l = <<l[1], l[2]>> /\ l[1] \in Node /\ l[2] \in Node
         /\ <<l[2], l[1]>> \in Link
  BY DEF Link

(***************************************************************************)
(* What a node caches, and where it goes on from, have their types.        *)
(***************************************************************************)
LEMMA BufferFacts ==
  ASSUME NEW n \in Node, node[n] \in NodeState, NEW fb \in Flashblock
  PROVE  /\ P2P(n)!BufferFor(fb) \in [Slots -> Flashblock \cup {None}]
         /\ P2P(n)!FrontierFor(fb) \in 0 .. (MAX_FLASHBLOCK_INDEX + 1)
         /\ Cached(n, fb) \in [Slots -> Flashblock \cup {None}]
<1>1. P2P(n)!BufferFor(fb) \in [Slots -> Flashblock \cup {None}]
  BY DEF NodeState, P2P!BufferFor, P2P!EmptyBuffer, P2P!Slot, Slots
<1>2. P2P(n)!FrontierFor(fb) \in 0 .. (MAX_FLASHBLOCK_INDEX + 1)
  BY ConstantFacts DEF NodeState, P2P!FrontierFor
<1>3. Cached(n, fb) \in [Slots -> Flashblock \cup {None}]
  BY <1>1 DEF Cached
<1> QED BY <1>1, <1>2, <1>3

(***************************************************************************)
(* publish of a flashblock that is not cached broadcasts it and emits up   *)
(* to the first gap (p2p.rs:291-343).                                      *)
(***************************************************************************)
LEMMA PublishedOutcome ==
  ASSUME NEW n \in Node, node[n] \in NodeState, NEW fb \in Flashblock,
         P2P(n)!BufferFor(fb)[fb.index] = None
  PROVE  \E hi \in P2P(n)!FrontierFor(fb) .. (MAX_FLASHBLOCK_INDEX + 1) :
           /\ IsGap(n, Cached(n, fb), P2P(n)!FrontierFor(fb), hi)
           /\ Published(n, fb) = Outcome(n, fb, hi)
<1> DEFINE lo == P2P(n)!FrontierFor(fb)
           hi == CHOOSE h \in lo .. (MAX_FLASHBLOCK_INDEX + 1) : IsGap(n, Cached(n, fb), lo, h)
<1>1. \E h \in lo .. (MAX_FLASHBLOCK_INDEX + 1) : IsGap(n, Cached(n, fb), lo, h)
  BY BufferFacts, GapExists
<1>2. hi \in lo .. (MAX_FLASHBLOCK_INDEX + 1) /\ IsGap(n, Cached(n, fb), lo, hi)
  BY <1>1
<1>3. Published(n, fb) = Outcome(n, fb, hi)
  BY DEF Published, Outcome, IsGap, Cached
<1> QED BY <1>2, <1>3

(***************************************************************************)
(* publish leaves the node's state well typed, and never takes back what   *)
(* was broadcast (p2p.rs:241-344).                                         *)
(***************************************************************************)
LEMMA PublishedTypes ==
  ASSUME NEW n \in Node, node[n] \in NodeState, NEW fb \in Flashblock
  PROVE  /\ Published(n, fb) \in NodeState
         /\ Len(node[n].peer_tx) <= Len(Published(n, fb).peer_tx)
<1>1. CASE P2P(n)!BufferFor(fb)[fb.index] # None
  <2>1. Published(n, fb) = node[n]
    BY <1>1 DEF Published
  <2> QED BY <2>1 DEF NodeState
<1>2. CASE P2P(n)!BufferFor(fb)[fb.index] = None
  <2> DEFINE lo == P2P(n)!FrontierFor(fb)
             buffer == Cached(n, fb)
  <2>1. PICK hi \in lo .. (MAX_FLASHBLOCK_INDEX + 1) :
               IsGap(n, buffer, lo, hi) /\ Published(n, fb) = Outcome(n, fb, hi)
    BY <1>2, PublishedOutcome
  <2>2. buffer \in [Slots -> Flashblock \cup {None}] /\ lo \in 0 .. (MAX_FLASHBLOCK_INDEX + 1)
    BY BufferFacts
  <2>3. hi \in 0 .. (MAX_FLASHBLOCK_INDEX + 1)
    BY <2>1, <2>2, ConstantFacts
  <2>4. P2P(n)!Run(buffer, lo, hi) \in Seq(Flashblock)
    <3>1. \A k \in 1 .. (hi - lo) : lo + k - 1 \in lo .. (hi - 1)
      BY <2>2, <2>3
    <3>2. \A k \in 1 .. (hi - lo) : buffer[lo + k - 1] \in Flashblock
      BY <2>1, <2>2, <3>1 DEF IsGap, P2P!Ready, P2P!Slot, Slots
    <3>3. hi - lo \in Nat
      BY <2>1, <2>2, <2>3
    <3> HIDE DEF buffer, lo
    <3> QED BY <3>2, <3>3 DEF P2P!Run
  <2>5. node[n].peer_tx \in Seq(Flashblock) /\ node[n].flashblock_tx \in Seq(Flashblock)
    BY DEF NodeState
  <2>6. /\ Append(node[n].peer_tx, fb) \in Seq(Flashblock)
        /\ Len(Append(node[n].peer_tx, fb)) = Len(node[n].peer_tx) + 1
        /\ Len(node[n].peer_tx) \in Nat
        /\ node[n].flashblock_tx \o P2P(n)!Run(buffer, lo, hi) \in Seq(Flashblock)
    BY <2>4, <2>5
  <2>7. fb.payload_id \in PayloadId
    BY ConstantFacts
  <2>8. Outcome(n, fb, hi) \in NodeState
    BY <2>2, <2>3, <2>6, <2>7 DEF Outcome, NodeState
  <2>9. Outcome(n, fb, hi).peer_tx = Append(node[n].peer_tx, fb)
    BY DEF Outcome
  <2> QED BY <2>1, <2>6, <2>8, <2>9
<1> QED BY <1>1, <1>2

(***************************************************************************)
(* The state of a connection, put together from its parts.                 *)
(***************************************************************************)
LEMMA ConnRecord ==
  ASSUME NEW o \in BOOLEAN, NEW r \in Nat, NEW id \in PayloadId \cup {NoPayload},
         NEW received \in SUBSET Slots
  PROVE  [open |-> o, turn |-> "peer_rx", peer_rx |-> r, payload_id |-> id,
          received |-> received] \in ConnState
  BY DEF ConnState

(***************************************************************************)
(* A flashblock on its way to a node is a flashblock.                      *)
(***************************************************************************)
LEMMA HeadOfWire ==
  ASSUME Types, NEW l \in Link, wire[l] # <<>>
  PROVE  /\ Head(wire[l]) \in Flashblock /\ Tail(wire[l]) \in Seq(Flashblock)
         /\ Head(wire[l]) = wire[l][1] /\ 1 \in DOMAIN wire[l]
  BY DEF Types

(***************************************************************************)
(* Nothing is connected or published initially.                            *)
(***************************************************************************)
LEMMA InitTypes == GossipInit => Types
<1> SUFFICES ASSUME GossipInit PROVE Types
  OBVIOUS
<1>1. node \in [Node -> NodeState]
  BY ConstantFacts DEF GossipInit, NodeState, Slots
<1>2. Closed \in ConnState
  BY DEF Closed, ConnState
<1>3. conn \in [Link -> ConnState] /\ wire \in [Link -> Seq(Flashblock)]
  BY <1>2 DEF GossipInit
<1>4. ASSUME NEW l \in Link PROVE conn[l].peer_rx <= Len(node[l[1]].peer_tx)
  <2>1. conn[l].peer_rx = 0 /\ node[l[1]].peer_tx = <<>>
    BY LinkFacts DEF GossipInit, Closed
  <2> QED BY <2>1
<1>5. /\ penalised \subseteq Link /\ published \in 0 .. Len(Job) /\ breaks \in 0 .. MaxBreaks
      /\ since \in [Node -> (0 .. published) \cup {None}]
  BY ConstantFacts DEF GossipInit
<1> QED BY <1>1, <1>3, <1>4, <1>5 DEF Types

(***************************************************************************)
(* Whatever the connections become, the history has its type.              *)
(***************************************************************************)
LEMMA SinceTypes ==
  ASSUME Types, NoteComponent
  PROVE  since' \in [Node -> (0 .. published) \cup {None}]
<1>1. published \in 0 .. published
  BY ConstantFacts DEF Types
<1> QED BY <1>1 DEF NoteComponent, Types

(***************************************************************************)
(* A node publishes: its own flashblock or one it received.                *)
(***************************************************************************)
LEMMA NodeTypes ==
  ASSUME Types, NEW n \in Node, NEW fb \in Flashblock,
         node' = [node EXCEPT ![n] = Published(n, fb)]
  PROVE  /\ node' \in [Node -> NodeState]
         /\ \A m \in Node : Len(node[m].peer_tx) \in Nat /\ Len(node'[m].peer_tx) \in Nat
         /\ \A m \in Node : Len(node[m].peer_tx) <= Len(node'[m].peer_tx)
<1>1. node[n] \in NodeState /\ Published(n, fb) \in NodeState
      /\ Len(node[n].peer_tx) <= Len(Published(n, fb).peer_tx)
  BY PublishedTypes DEF Types
<1>2. node' \in [Node -> NodeState]
  BY <1>1 DEF Types
<1>3. \A m \in Node : node[m].peer_tx \in Seq(Flashblock) /\ node'[m].peer_tx \in Seq(Flashblock)
  BY <1>2 DEF Types, NodeState
<1>4. \A m \in Node : Len(node[m].peer_tx) \in Nat /\ Len(node'[m].peer_tx) \in Nat
  BY <1>3
<1>5. ASSUME NEW m \in Node PROVE Len(node[m].peer_tx) <= Len(node'[m].peer_tx)
  BY <1>1, <1>4 DEF Types
<1> QED BY <1>2, <1>4, <1>5

(***************************************************************************)
(* Every step keeps the types, and no receiver of peer_tx gets ahead of    *)
(* what was sent.                                                          *)
(***************************************************************************)
LEMMA TypesStep ==
  ASSUME Types, GossipNext
  PROVE  Types'
<1>0. /\ node \in [Node -> NodeState] /\ conn \in [Link -> ConnState]
      /\ wire \in [Link -> Seq(Flashblock)]
      /\ \A l \in Link : conn[l].peer_rx <= Len(node[l[1]].peer_tx)
      /\ penalised \subseteq Link /\ published \in 0 .. Len(Job) /\ breaks \in 0 .. MaxBreaks
      /\ since \in [Node -> (0 .. published) \cup {None}]
  BY DEF Types
<1>n. \A l \in Link : Len(node[l[1]].peer_tx) \in Nat /\ conn[l].peer_rx \in Nat
  <2> SUFFICES ASSUME NEW l \in Link
               PROVE  Len(node[l[1]].peer_tx) \in Nat /\ conn[l].peer_rx \in Nat
    OBVIOUS
  <2>1. node[l[1]].peer_tx \in Seq(Flashblock)
    BY <1>0, LinkFacts DEF NodeState
  <2>2. conn[l].peer_rx \in Nat
    BY <1>0 DEF ConnState
  <2> QED BY <2>1, <2>2
<1>1. CASE PublishNew
  <2> DEFINE fb == Job[published + 1]
  <2>1. fb \in Flashblock /\ published + 1 \in 0 .. Len(Job)
    BY <1>0, <1>1, ConstantFacts DEF PublishNew
  <2> HIDE DEF fb
  <2>2. node' = [node EXCEPT ![Builder] = Published(Builder, fb)]
    BY <1>1 DEF PublishNew, fb
  <2>3. node' \in [Node -> NodeState]
    BY <2>1, <2>2, NodeTypes, ConstantFacts
  <2>4. ASSUME NEW l \in Link PROVE conn'[l].peer_rx <= Len(node'[l[1]].peer_tx)
    <3>1. Len(node[l[1]].peer_tx) <= Len(node'[l[1]].peer_tx)
          /\ Len(node'[l[1]].peer_tx) \in Nat
      BY <2>1, <2>2, NodeTypes, ConstantFacts, LinkFacts
    <3> QED BY <1>0, <1>1, <1>n, <3>1 DEF PublishNew
  <2>5. published' = published + 1 /\ UNCHANGED <<conn, wire, penalised, breaks, since>>
    BY <1>1 DEF PublishNew
  <2>6. since' \in [Node -> (0 .. published') \cup {None}]
    <3>1. 0 .. published \subseteq 0 .. published'
      BY <1>0, <2>5, ConstantFacts
    <3> QED BY <1>0, <2>5, <3>1
  <2> QED BY <1>0, <2>1, <2>3, <2>4, <2>5, <2>6 DEF Types
<1>2. ASSUME NEW l \in Link, IntoConnection(l) PROVE Types'
  <2> DEFINE c == [Closed EXCEPT !.open = TRUE, !.peer_rx = Len(node[l[1]].peer_tx)]
  <2>1. conn' = [conn EXCEPT ![l] = c] /\ UNCHANGED <<node, wire, penalised, published, breaks>>
        /\ NoteComponent
    BY <1>2 DEF IntoConnection
  <2>2. c \in ConnState /\ c.peer_rx = Len(node[l[1]].peer_tx)
    BY <1>n DEF Closed, ConnState
  <2> HIDE DEF c
  <2>3. conn' \in [Link -> ConnState]
    BY <1>0, <2>1, <2>2
  <2>4. ASSUME NEW k \in Link PROVE conn'[k].peer_rx <= Len(node'[k[1]].peer_tx)
    BY <1>0, <1>n, <2>1, <2>2
  <2>5. since' \in [Node -> (0 .. published) \cup {None}]
    BY <2>1, SinceTypes
  <2> QED BY <1>0, <2>1, <2>3, <2>4, <2>5 DEF Types
<1>3. ASSUME NEW e \in Edge, Break(e) PROVE Types'
  <2>1. /\ conn' = [l \in Link |-> IF {l[1], l[2]} = e THEN Closed ELSE conn[l]]
        /\ wire' = [l \in Link |-> IF {l[1], l[2]} = e THEN <<>> ELSE wire[l]]
        /\ UNCHANGED <<node, penalised, published>> /\ NoteComponent
        /\ breaks' = breaks + 1 /\ breaks < MaxBreaks
    BY <1>3 DEF Break
  <2>2. Closed \in ConnState /\ Closed.peer_rx = 0 /\ <<>> \in Seq(Flashblock)
    BY DEF Closed, ConnState
  <2>3. conn' \in [Link -> ConnState]
    BY <1>0, <2>1, <2>2
  <2>4. wire' \in [Link -> Seq(Flashblock)]
    BY <1>0, <2>1, <2>2
  <2>5. ASSUME NEW k \in Link PROVE conn'[k].peer_rx <= Len(node'[k[1]].peer_tx)
    BY <1>0, <1>n, <2>1, <2>2
  <2>6. since' \in [Node -> (0 .. published) \cup {None}]
    BY <2>1, SinceTypes
  <2>7. breaks' \in 0 .. MaxBreaks
    BY <1>0, <2>1, ConstantFacts
  <2> QED BY <1>0, <2>1, <2>3, <2>4, <2>5, <2>6, <2>7 DEF Types
<1>4. ASSUME NEW l \in Link, Relay(l) PROVE Types'
  <2> DEFINE fb == node[l[1]].peer_tx[conn[l].peer_rx + 1]
  <2>1. UNCHANGED <<node, penalised, published, breaks, since>>
    BY <1>4 DEF Relay
  <2>2. conn[l].peer_rx # Len(node[l[1]].peer_tx)
    BY <1>4 DEF Relay, RxEmpty
  <2>3. conn[l].peer_rx + 1 \in 1 .. Len(node[l[1]].peer_tx)
    BY <1>0, <1>n, <2>2
  <2>4. fb \in Flashblock
    <3>1. node[l[1]].peer_tx \in Seq(Flashblock)
      BY <1>0, LinkFacts DEF NodeState
    <3> QED BY <2>3, <3>1
  <2>5. wire' = wire \/ wire' = [wire EXCEPT ![l] = Append(@, fb)]
    BY <1>4 DEF Relay
  <2>6. \/ conn' = [conn EXCEPT ![l].peer_rx = @ + 1, ![l].turn = "conn"]
        \/ conn' = [conn EXCEPT ![l].peer_rx = @ + 1]
    BY <1>4 DEF Relay
  <2> HIDE DEF fb
  <2>7. wire' \in [Link -> Seq(Flashblock)]
    <3>1. wire[l] \in Seq(Flashblock)
      BY <1>0
    <3>2. Append(wire[l], fb) \in Seq(Flashblock)
      BY <2>4, <3>1
    <3> QED BY <1>0, <2>5, <3>2
  <2>8. conn'[l] \in ConnState /\ conn'[l].peer_rx = conn[l].peer_rx + 1
        /\ DOMAIN conn' = Link /\ \A k \in Link : k # l => conn'[k] = conn[k]
    <3>1. conn[l] \in ConnState /\ conn[l].peer_rx + 1 \in Nat
      BY <1>0, <1>n
    <3>2. CASE conn' = [conn EXCEPT ![l].peer_rx = @ + 1, ![l].turn = "conn"]
      <4>1. conn'[l] = [[conn[l] EXCEPT !.peer_rx = @ + 1] EXCEPT !.turn = "conn"]
        BY <1>0, <3>2
      <4> QED BY <1>0, <3>1, <3>2, <4>1 DEF ConnState
    <3>3. CASE conn' = [conn EXCEPT ![l].peer_rx = @ + 1]
      <4>1. conn'[l] = [conn[l] EXCEPT !.peer_rx = @ + 1]
        BY <1>0, <3>3
      <4> QED BY <1>0, <3>1, <3>3, <4>1 DEF ConnState
    <3> QED BY <2>6, <3>2, <3>3
  <2>9. conn' \in [Link -> ConnState]
    <3>1. \A k \in Link : conn'[k] \in ConnState
      BY <1>0, <2>8
    <3>2. conn' = [k \in Link |-> conn'[k]]
      BY <1>0, <2>6
    <3> QED BY <3>1, <3>2
  <2>10. ASSUME NEW k \in Link PROVE conn'[k].peer_rx <= Len(node'[k[1]].peer_tx)
    BY <1>0, <1>n, <2>1, <2>3, <2>8
  <2> QED BY <1>0, <2>1, <2>7, <2>9, <2>10 DEF Types
<1>5. ASSUME NEW l \in Link, RxPending(l) \/ ConnPending(l) PROVE Types'
  <2>1. UNCHANGED <<node, wire, penalised, published, breaks, since>>
    BY <1>5 DEF RxPending, ConnPending
  <2>2. conn' \in [Link -> ConnState] /\ \A k \in Link : conn'[k].peer_rx = conn[k].peer_rx
    <3>1. PICK t \in {"peer_rx", "conn"} : conn' = [conn EXCEPT ![l].turn = t]
      BY <1>5 DEF RxPending, ConnPending
    <3> QED BY <1>0, <3>1 DEF ConnState
  <2> QED BY <1>0, <2>1, <2>2 DEF Types
<1>6. ASSUME NEW l \in Link, Receive(l) PROVE Types'
  <2> DEFINE back == <<l[2], l[1]>>
             fb == Head(wire[back])
  <2>1. back \in Link /\ wire[back] # <<>>
    BY <1>6, LinkFacts DEF Receive
  <2>2. fb \in Flashblock /\ Tail(wire[back]) \in Seq(Flashblock)
    BY <2>1, HeadOfWire
  <2>3. wire' = [wire EXCEPT ![back] = Tail(@)]
    BY <1>6 DEF Receive
  <2>4. conn' = [conn EXCEPT ![l].turn = "peer_rx", ![l].payload_id = fb.payload_id,
                             ![l].received = ReceivedFor(l, fb) \cup {fb.index}]
    BY <1>6 DEF Receive
  <2>5. /\ node' = node \/ node' = [node EXCEPT ![l[1]] = Published(l[1], fb)]
        /\ penalised' = penalised \/ penalised' = penalised \cup {l}
        /\ UNCHANGED <<published, breaks, since>>
    BY <1>6 DEF Receive
  <2>6. ReceivedFor(l, fb) \cup {fb.index} \in SUBSET Slots
    BY <1>0, <2>2, ConstantFacts DEF ReceivedFor, ConnState
  <2> HIDE DEF fb, back
  <2>7. wire' \in [Link -> Seq(Flashblock)]
    BY <1>0, <2>1, <2>2, <2>3
  <2>8. conn' \in [Link -> ConnState] /\ \A k \in Link : conn'[k].peer_rx = conn[k].peer_rx
    <3>1. fb.payload_id \in PayloadId
      BY <2>2, ConstantFacts
    <3> DEFINE r == ReceivedFor(l, fb) \cup {fb.index}
    <3>2. r \in SUBSET Slots /\ conn' = [conn EXCEPT ![l].turn = "peer_rx",
                                           ![l].payload_id = fb.payload_id, ![l].received = r]
      BY <2>4, <2>6
    <3> HIDE DEF r
    <3>3. conn[l] \in ConnState
      BY <1>0
    <3>4. conn'[l] = [conn[l] EXCEPT !.turn = "peer_rx", !.payload_id = fb.payload_id,
                                    !.received = r]
      BY <1>0, <3>2
    <3>5. conn'[l] \in ConnState /\ conn'[l].peer_rx = conn[l].peer_rx
      <4>1. conn'[l] = [open |-> conn[l].open, turn |-> "peer_rx", peer_rx |-> conn[l].peer_rx,
                        payload_id |-> fb.payload_id, received |-> r]
        BY <3>3, <3>4 DEF ConnState
      <4>2. conn[l].open \in BOOLEAN /\ conn[l].peer_rx \in Nat
        BY <3>3 DEF ConnState
      <4>3. r \in SUBSET Slots /\ fb.payload_id \in PayloadId \cup {NoPayload}
        BY <3>1, <3>2
      <4>4. conn'[l] \in ConnState
        BY <4>1, <4>2, <4>3, ConnRecord
      <4> QED BY <4>1, <4>4
    <3>6. DOMAIN conn' = Link /\ \A k \in Link : k # l => conn'[k] = conn[k]
      BY <1>0, <3>2
    <3>7. conn' = [k \in Link |-> conn'[k]]
      BY <1>0, <3>2
    <3>8. \A k \in Link : conn'[k] \in ConnState
      BY <1>0, <3>5, <3>6
    <3> QED BY <3>5, <3>6, <3>7, <3>8
  <2>9. node' \in [Node -> NodeState]
    BY <1>0, <2>2, <2>5, NodeTypes, LinkFacts
  <2>10. ASSUME NEW k \in Link PROVE conn'[k].peer_rx <= Len(node'[k[1]].peer_tx)
    <3>1. CASE node' = node
      BY <1>0, <2>8, <3>1
    <3>2. CASE node' = [node EXCEPT ![l[1]] = Published(l[1], fb)]
      <4>1. /\ Len(node[k[1]].peer_tx) <= Len(node'[k[1]].peer_tx)
            /\ Len(node'[k[1]].peer_tx) \in Nat
        BY <2>2, <3>2, NodeTypes, LinkFacts
      <4>2. conn[k].peer_rx \in Nat /\ Len(node[k[1]].peer_tx) \in Nat
            /\ conn[k].peer_rx <= Len(node[k[1]].peer_tx) /\ conn'[k].peer_rx = conn[k].peer_rx
        BY <1>0, <1>n, <2>8
      <4> QED BY <4>1, <4>2
    <3> QED BY <2>5, <3>1, <3>2
  <2> QED BY <1>0, <2>5, <2>7, <2>8, <2>9, <2>10 DEF Types
<1> QED BY <1>1, <1>2, <1>3, <1>4, <1>5, <1>6 DEF GossipNext, Task

(***************************************************************************)
(* Typing, of which TypeOK is what the runs check.                         *)
(***************************************************************************)
LEMMA Typed == GossipSpec => []Types
<1>1. Types /\ [GossipNext]_vars => Types'
  <2>1. ASSUME Types, UNCHANGED vars PROVE Types'
    BY <2>1 DEF Types, vars
  <2> QED BY <2>1, TypesStep
<1> QED BY <1>1, InitTypes, PTL DEF GossipSpec

(***************************************************************************)
(* The nodes, the connections and what is in flight have their types: no   *)
(* receiver of peer_tx is ever ahead of what was broadcast, and no frontier *)
(* beyond the buffer (p2p.rs:241-344, connection.rs:93-172).               *)
(***************************************************************************)
THEOREM TypeCorrect == GossipSpec => []TypeOK
<1>1. Types => TypeOK
  <2> SUFFICES ASSUME Types PROVE TypeOK
    OBVIOUS
  <2>1. ASSUME NEW n \in Node PROVE P2P(n)!P2PTypeOK
    <3>1. node[n] \in NodeState
      BY DEF Types
    <3> QED BY <3>1 DEF NodeState, P2P!P2PTypeOK, P2P!Slot, Slots
  <2>2. ASSUME NEW l \in Link
        PROVE  /\ conn[l].open \in BOOLEAN /\ conn[l].turn \in {"peer_rx", "conn"}
               /\ conn[l].peer_rx \in 0 .. Len(node[l[1]].peer_tx)
               /\ conn[l].payload_id \in PayloadId \cup {NoPayload}
               /\ conn[l].received \subseteq 0 .. MAX_FLASHBLOCK_INDEX
               /\ wire[l] \in Seq(Flashblock)
    <3>1. conn[l] \in ConnState /\ conn[l].peer_rx <= Len(node[l[1]].peer_tx)
          /\ wire[l] \in Seq(Flashblock) /\ node[l[1]] \in NodeState
      BY LinkFacts DEF Types
    <3>2. node[l[1]].peer_tx \in Seq(Flashblock) /\ conn[l].peer_rx \in Nat
      BY <3>1 DEF NodeState, ConnState
    <3>3. Len(node[l[1]].peer_tx) \in Nat
      BY <3>2
    <3> QED BY <3>1, <3>2, <3>3 DEF ConnState, Slots
  <2>3. \A n \in Node : since[n] \in 0 .. published \cup {None}
    BY DEF Types
  <2> QED BY <2>1, <2>2, <2>3 DEF Types, TypeOK
<1> QED BY <1>1, Typed, PTL

(***************************************************************************)
(* What publish makes of a node's state is a step of the protocol: the     *)
(* flashblock is cached already, or it is cached, broadcast and emitted    *)
(* (p2p.rs:241-344).                                                       *)
(***************************************************************************)
LEMMA PublishedIsPublish ==
  ASSUME NEW n \in Node, node[n] \in NodeState, NEW fb \in Flashblock,
         node'[n] = Published(n, fb)
  PROVE  P2P(n)!Next \/ UNCHANGED P2P(n)!p2pVars
<1>1. fb.index \in Slots /\ fb.index <= MAX_FLASHBLOCK_INDEX /\ ~fb.oversize
  BY ConstantFacts DEF Slots
<1>2. CASE P2P(n)!BufferFor(fb)[fb.index] # None
  <2>1. node'[n] = node[n]
    BY <1>2 DEF Published
  <2> QED BY <2>1 DEF P2P!p2pVars
<1>3. CASE P2P(n)!BufferFor(fb)[fb.index] = None
  <2> DEFINE lo == P2P(n)!FrontierFor(fb)
  <2>1. PICK hi \in lo .. (MAX_FLASHBLOCK_INDEX + 1) :
               IsGap(n, Cached(n, fb), lo, hi) /\ Published(n, fb) = Outcome(n, fb, hi)
    BY <1>3, PublishedOutcome
  <2>2. node'[n] = Outcome(n, fb, hi)
    BY <2>1
  <2>3. /\ node'[n].payload_id = fb.payload_id
        /\ node'[n].flashblocks = [P2P(n)!BufferFor(fb) EXCEPT ![fb.index] = fb]
        /\ node'[n].peer_tx = Append(node[n].peer_tx, fb)
    BY <2>2 DEF Outcome, Cached
  <2>4. /\ node'[n].flashblock_index = hi
        /\ node'[n].flashblock_tx = node[n].flashblock_tx \o P2P(n)!Run(Cached(n, fb), lo, hi)
    BY <2>2 DEF Outcome
  <2>5. P2P(n)!EmitConsecutive(node'[n].flashblocks, lo)
    BY <2>1, <2>3, <2>4 DEF IsGap, P2P!EmitConsecutive, Cached
  <2>6. P2P(n)!CacheAndBroadcast(fb)
    BY <1>1, <1>3, <2>3, <2>5 DEF P2P!CacheAndBroadcast
  <2> QED BY <2>6 DEF P2P!Next, P2P!Publish
<1> QED BY <1>2, <1>3

(***************************************************************************)
(* Every node of the network runs the protocol of FlashblocksP2P, whatever *)
(* its connections do: connecting, breaking and relaying leave its state   *)
(* alone, and what it receives or publishes goes through publish           *)
(* (p2p.rs:241-344, connection.rs:173-245).                                *)
(***************************************************************************)
THEOREM NodesRunTheProtocol == GossipSpec => NodesImplementP2P
<1>1. GossipInit => \A n \in Node : P2P(n)!Init
  <2> SUFFICES ASSUME GossipInit, NEW n \in Node PROVE P2P(n)!Init
    OBVIOUS
  <2> QED BY DEF GossipInit, P2P!Init, P2P!EmptyBuffer, P2P!Slot
<1>2. Types /\ [GossipNext]_vars =>
        [\A n \in Node : P2P(n)!Next \/ UNCHANGED P2P(n)!p2pVars]_vars
  <2> SUFFICES ASSUME Types, GossipNext, NEW n \in Node
               PROVE  P2P(n)!Next \/ UNCHANGED P2P(n)!p2pVars
    OBVIOUS
  <2>1. ASSUME node' = node PROVE UNCHANGED P2P(n)!p2pVars
    BY <2>1 DEF P2P!p2pVars
  <2>2. ASSUME NEW m \in Node, NEW fb \in Flashblock,
               node' = [node EXCEPT ![m] = Published(m, fb)]
        PROVE  P2P(n)!Next \/ UNCHANGED P2P(n)!p2pVars
    <3>1. node[n] \in NodeState
      BY DEF Types
    <3>2. CASE n = m
      <4>1. node'[n] = Published(n, fb)
        BY <2>2, <3>2 DEF Types
      <4> QED BY <3>1, <4>1, PublishedIsPublish
    <3>3. CASE n # m
      <4>1. node'[n] = node[n]
        BY <2>2, <3>3 DEF Types
      <4> QED BY <4>1 DEF P2P!p2pVars
    <3> QED BY <3>2, <3>3
  <2>3. CASE PublishNew
    <3> DEFINE fb == Job[published + 1]
    <3>1. fb \in Flashblock
      BY <2>3, ConstantFacts DEF PublishNew, Types
    <3>2. node' = [node EXCEPT ![Builder] = Published(Builder, fb)]
      BY <2>3 DEF PublishNew
    <3> HIDE DEF fb
    <3> QED BY <3>1, <3>2, <2>2, ConstantFacts
  <2>4. ASSUME NEW l \in Link, Receive(l)
        PROVE  P2P(n)!Next \/ UNCHANGED P2P(n)!p2pVars
    <3> DEFINE back == <<l[2], l[1]>>
               fb == Head(wire[back])
    <3>1. back \in Link /\ wire[back] # <<>> /\ l[1] \in Node
      BY <2>4, LinkFacts DEF Receive
    <3>2. fb \in Flashblock
      BY <3>1, HeadOfWire
    <3>3. node' = node \/ node' = [node EXCEPT ![l[1]] = Published(l[1], fb)]
      BY <2>4 DEF Receive
    <3> HIDE DEF fb
    <3> QED BY <3>1, <3>2, <3>3, <2>1, <2>2
  <2>5. ASSUME NEW l \in Link, \/ IntoConnection(l) \/ Relay(l) \/ RxPending(l) \/ ConnPending(l)
        PROVE  P2P(n)!Next \/ UNCHANGED P2P(n)!p2pVars
    <3>1. node' = node
      BY <2>5 DEF IntoConnection, Relay, RxPending, ConnPending
    <3> QED BY <2>1, <3>1
  <2>6. ASSUME NEW e \in Edge, Break(e)
        PROVE  P2P(n)!Next \/ UNCHANGED P2P(n)!p2pVars
    <3>1. node' = node
      BY <2>6 DEF Break
    <3> QED BY <2>1, <3>1
  <2> QED BY <2>3, <2>4, <2>5, <2>6 DEF GossipNext, Task
<1> QED BY <1>1, <1>2, Typed, PTL DEF GossipSpec, NodesImplementP2P

-----------------------------------------------------------------------------
\* From here on the nodes form a tree.
Parent ==
  CHOOSE parent \in [Node -> Node] :
    \A l \in Link : Upward(parent, l) <=> ~Upward(parent, <<l[2], l[1]>>)

Back(l) == <<l[2], l[1]>>

\* l leads away from the builder.
Down(l) == Upward(Parent, Back(l))

\* fb comes after all of s in the builder's order.
After(s, fb) == \A k \in DOMAIN s : Position(s[k]) < Position(fb)

Increasing(s) == \A j, k \in DOMAIN s : j < k => Position(s[j]) < Position(s[k])

Within(s, t) == \A j \in DOMAIN s : \E k \in DOMAIN t : t[k] = s[j]

\* Node n has cached and emitted only what it broadcast, in order, and waits
\* for the flashblock at its frontier.
NodeInOrder(n) ==
  /\ Increasing(node[n].peer_tx)
  /\ Increasing(node[n].flashblock_tx)
  /\ Within(node[n].flashblock_tx, node[n].peer_tx)
  /\ \A i \in Slots : node[n].flashblocks[i] # None =>
       /\ node[n].flashblocks[i].payload_id = node[n].payload_id
       /\ node[n].flashblocks[i].index = i
       /\ \E k \in DOMAIN node[n].peer_tx : node[n].peer_tx[k] = node[n].flashblocks[i]
  /\ ~P2P(n)!Ready(node[n].flashblocks, node[n].flashblock_index)

\* What has arrived, what is in flight and what is yet to be sent follow each
\* other.
DownInOrder(l) ==
  /\ ~conn[l].open => wire[l] = <<>>
  /\ Increasing(wire[l]) /\ Within(wire[l], node[l[1]].peer_tx)
  /\ Within(node[l[2]].peer_tx, node[l[1]].peer_tx)
  /\ \A k \in DOMAIN wire[l] : After(node[l[2]].peer_tx, wire[l][k])
  /\ conn[l].open => \A i \in DOMAIN node[l[1]].peer_tx : i > conn[l].peer_rx =>
       /\ After(node[l[2]].peer_tx, node[l[1]].peer_tx[i])
       /\ After(wire[l], node[l[1]].peer_tx[i])

\* At most the flashblock just received is pending, which is not sent back.
UpIsSilent(l) ==
  /\ wire[l] = <<>>
  /\ conn[l].open =>
       \/ RxEmpty(l)
       \/ /\ conn[l].turn = "peer_rx"
          /\ conn[l].peer_rx = Len(node[l[1]].peer_tx) - 1
          /\ Originated(l, node[l[1]].peer_tx[Len(node[l[1]].peer_tx)])
  /\ \A i \in conn[l].received :
       \E k \in DOMAIN node[l[1]].peer_tx :
         node[l[1]].peer_tx[k].payload_id = conn[l].payload_id /\ node[l[1]].peer_tx[k].index = i

TreeInv ==
  /\ \A n \in Node : NodeInOrder(n)
  /\ \A k \in DOMAIN node[Builder].peer_tx : Position(node[Builder].peer_tx[k]) <= published
  /\ \A l \in Link : Down(l) => DownInOrder(l) /\ UpIsSilent(Back(l))
  /\ penalised = {}

-----------------------------------------------------------------------------
(***************************************************************************)
(* A flashblock has one place in the builder's order, and a later one of   *)
(* the same payload has a greater index (publish_flashblocks.rs:155-184).  *)
(***************************************************************************)
LEMMA PositionFacts ==
  /\ \A fb \in Flashblock : Position(fb) \in 1 .. Len(Job) /\ Job[Position(fb)] = fb
  /\ \A k \in DOMAIN Job : Job[k] \in Flashblock /\ Position(Job[k]) = k
  /\ \A a, b \in Flashblock :
       a.payload_id = b.payload_id /\ Position(a) < Position(b) => a.index < b.index
<1>1. DOMAIN Job = 1 .. Len(Job) /\ Len(Job) \in Nat /\ Job \in Seq(Flashblock)
  BY ConstantFacts
<1>2. \A j, k \in DOMAIN Job :
        j < k /\ Job[j].payload_id = Job[k].payload_id => Job[j].index < Job[k].index
  BY GossipAssumption
<1>3. ASSUME NEW fb \in Flashblock PROVE Position(fb) \in DOMAIN Job /\ Job[Position(fb)] = fb
  <2>1. \E k \in DOMAIN Job : Job[k] = fb
    BY DEF Flashblock, ToSet
  <2> QED BY <2>1 DEF Position
<1>4. ASSUME NEW j \in DOMAIN Job, NEW k \in DOMAIN Job, Job[j] = Job[k], j < k PROVE FALSE
  <2>1. Job[j] \in Flashblock /\ Job[j].index \in Slots
    BY <1>1, ConstantFacts
  <2>2. Job[j].index < Job[j].index
    BY <1>2, <1>4
  <2> QED BY <2>1, <2>2, ConstantFacts DEF Slots
<1>5. ASSUME NEW k \in DOMAIN Job PROVE Job[k] \in Flashblock /\ Position(Job[k]) = k
  <2>1. Job[k] \in Flashblock
    BY <1>1
  <2>2. Position(Job[k]) \in DOMAIN Job /\ Job[Position(Job[k])] = Job[k]
    BY <1>3, <2>1
  <2>3. ~(Position(Job[k]) < k) /\ ~(k < Position(Job[k]))
    BY <1>4, <2>2
  <2> QED BY <1>1, <2>1, <2>2, <2>3
<1>6. ASSUME NEW a \in Flashblock, NEW b \in Flashblock, a.payload_id = b.payload_id,
             Position(a) < Position(b)
      PROVE  a.index < b.index
  BY <1>2, <1>3, <1>6
<1> QED BY <1>1, <1>3, <1>5, <1>6

(***************************************************************************)
(* What is behind fb stays in order when fb is appended.                   *)
(***************************************************************************)
LEMMA AppendInOrder ==
  ASSUME NEW s \in Seq(Flashblock), NEW fb \in Flashblock, NEW t, t = Append(s, fb)
  PROVE  /\ Increasing(s) /\ After(s, fb) => Increasing(t)
         /\ \A e \in Flashblock :
              After(s, e) /\ Position(fb) < Position(e) => After(t, e)
         /\ Within(s, t)
         /\ \E k \in DOMAIN t : t[k] = fb
<1> DEFINE n == Len(s)
<1>1. /\ n \in Nat /\ DOMAIN s = 1 .. n /\ DOMAIN t = 1 .. (n + 1)
      /\ t[n + 1] = fb /\ \A k \in 1 .. n : t[k] = s[k]
  OBVIOUS
<1> HIDE DEF n
<1>2. ASSUME Increasing(s), After(s, fb) PROVE Increasing(t)
  <2> SUFFICES ASSUME NEW j \in DOMAIN t, NEW k \in DOMAIN t, j < k
               PROVE  Position(t[j]) < Position(t[k])
    BY DEF Increasing
  <2>1. CASE k = n + 1
    BY <1>1, <1>2, <2>1 DEF After
  <2>2. CASE k # n + 1
    BY <1>1, <1>2, <2>2 DEF Increasing
  <2> QED BY <2>1, <2>2
<1>3. ASSUME NEW e \in Flashblock, After(s, e), Position(fb) < Position(e) PROVE After(t, e)
  <2> SUFFICES ASSUME NEW k \in DOMAIN t PROVE Position(t[k]) < Position(e)
    BY DEF After
  <2>1. CASE k = n + 1
    BY <1>1, <1>3, <2>1
  <2>2. CASE k # n + 1
    BY <1>1, <1>3, <2>2 DEF After
  <2> QED BY <2>1, <2>2
<1>4. Within(s, t)
  BY <1>1 DEF Within
<1>5. \E k \in DOMAIN t : t[k] = fb
  <2>1. n + 1 \in DOMAIN t
    BY <1>1
  <2> QED BY <1>1, <2>1
<1> QED BY <1>2, <1>3, <1>4, <1>5

(***************************************************************************)
(* What is part of t comes before all that t comes before.                 *)
(***************************************************************************)
LEMMA WithinFacts ==
  ASSUME NEW s, NEW t, Within(s, t)
  PROVE  /\ \A e : After(t, e) => After(s, e)
         /\ \A u : Within(t, u) => Within(s, u)
  BY DEF Within, After

(***************************************************************************)
(* What remains of a wire once its first message is read.                  *)
(***************************************************************************)
LEMMA TailInOrder ==
  ASSUME NEW s \in Seq(Flashblock), s # <<>>, Increasing(s)
  PROVE  /\ Increasing(Tail(s)) /\ Within(Tail(s), s)
         /\ \A k \in DOMAIN Tail(s) : Position(Head(s)) < Position(Tail(s)[k])
         /\ 1 \in DOMAIN s /\ Head(s) = s[1] /\ Head(s) \in Flashblock
<1> DEFINE t == Tail(s)
           n == Len(s)
<1>1. /\ n \in Nat /\ n >= 1 /\ DOMAIN s = 1 .. n /\ DOMAIN t = 1 .. (n - 1)
      /\ Head(s) = s[1] /\ s[1] \in Flashblock
      /\ \A k \in 1 .. (n - 1) : t[k] = s[k + 1]
  OBVIOUS
<1> HIDE DEF t, n
<1>2. Increasing(t)
  <2> SUFFICES ASSUME NEW j \in DOMAIN t, NEW k \in DOMAIN t, j < k
               PROVE  Position(t[j]) < Position(t[k])
    BY DEF Increasing
  <2>1. j + 1 \in DOMAIN s /\ k + 1 \in DOMAIN s /\ j + 1 < k + 1
    BY <1>1
  <2> QED BY <1>1, <2>1 DEF Increasing
<1>3. Within(t, s)
  <2> SUFFICES ASSUME NEW j \in DOMAIN t PROVE \E k \in DOMAIN s : s[k] = t[j]
    BY DEF Within
  <2>1. j + 1 \in DOMAIN s
    BY <1>1
  <2> QED BY <1>1, <2>1
<1>4. ASSUME NEW k \in DOMAIN t PROVE Position(Head(s)) < Position(t[k])
  <2>1. 1 \in DOMAIN s /\ k + 1 \in DOMAIN s /\ 1 < k + 1
    BY <1>1
  <2> QED BY <1>1, <2>1 DEF Increasing
<1> QED BY <1>1, <1>2, <1>3, <1>4 DEF t

(***************************************************************************)
(* In a tree a link leads away from the builder exactly if its reverse     *)
(* leads towards it, and each node has one link upward.                    *)
(***************************************************************************)
LEMMA TreeFacts ==
  ASSUME Tree, NEW l \in Link
  PROVE  /\ Back(l) \in Link /\ Back(Back(l)) = l /\ Back(l)[1] = l[2] /\ Back(l)[2] = l[1]
         /\ l[1] \in Node /\ l[2] \in Node /\ l[1] # l[2]
         /\ Down(l) <=> ~Down(Back(l))
         /\ Down(l) => l[2] # Builder
         /\ \A k \in Link : Down(l) /\ Down(k) /\ k[2] = l[2] => k = l
<1>1. \A k \in Link : Upward(Parent, k) <=> ~Upward(Parent, Back(k))
  BY DEF Tree, Parent, Back
<1>2. /\ Back(l) \in Link /\ Back(Back(l)) = l /\ Back(l)[1] = l[2] /\ Back(l)[2] = l[1]
      /\ l[1] \in Node /\ l[2] \in Node
  BY LinkFacts DEF Back
<1>3. Down(l) <=> ~Down(Back(l))
  BY <1>1, <1>2 DEF Down
<1>4. l[1] # l[2]
  <2>1. ASSUME l[1] = l[2] PROVE Back(l) = l
    BY <2>1, LinkFacts DEF Back
  <2> QED BY <1>3, <2>1
<1>5. Down(l) => l[2] # Builder /\ Parent[l[2]] = l[1]
  BY <1>2 DEF Down, Upward
<1>6. ASSUME NEW k \in Link, Down(l), Down(k), k[2] = l[2] PROVE k = l
  <2>1. Parent[k[2]] = k[1]
    BY <1>6 DEF Down, Upward, Back
  <2>2. k = <<k[1], k[2]>> /\ l = <<l[1], l[2]>>
    BY LinkFacts
  <2>3. k[1] = l[1]
    BY <1>5, <1>6, <2>1
  <2> QED BY <1>6, <2>2, <2>3
<1> QED BY <1>2, <1>3, <1>4, <1>5, <1>6

(***************************************************************************)
(* A node to which flashblocks come in the builder's order emits at most   *)
(* the one at hand: those before it are emitted or will never come, those  *)
(* after it are not there yet (p2p.rs:291-343).                            *)
(***************************************************************************)
LEMMA PublishedInOrder ==
  ASSUME NEW n \in Node, node[n] \in NodeState, NodeInOrder(n), NEW fb \in Flashblock,
         After(node[n].peer_tx, fb), node'[n] = Published(n, fb)
  PROVE  NodeInOrder(n)' /\ node'[n].peer_tx = Append(node[n].peer_tx, fb)
<1> DEFINE before == P2P(n)!BufferFor(fb)
           lo == P2P(n)!FrontierFor(fb)
           buffer == Cached(n, fb)
           sent == node[n].peer_tx
           out == node[n].flashblock_tx
<1>0. /\ sent \in Seq(Flashblock) /\ out \in Seq(Flashblock)
      /\ before \in [Slots -> Flashblock \cup {None}] /\ buffer = [before EXCEPT ![fb.index] = fb]
      /\ lo \in 0 .. (MAX_FLASHBLOCK_INDEX + 1) /\ MAX_FLASHBLOCK_INDEX \in Nat
      /\ fb.index \in Slots /\ fb # None
  BY BufferFacts, ConstantFacts DEF NodeState, Cached
<1>1. \A i \in Slots : before[i] # None =>
        /\ before[i].payload_id = fb.payload_id /\ before[i].index = i
        /\ \E k \in DOMAIN sent : sent[k] = before[i]
  BY DEF NodeInOrder, P2P!BufferFor, P2P!EmptyBuffer, P2P!Slot, Slots
<1>2. ASSUME NEW i \in Slots, before[i] # None PROVE i < fb.index
  <2>1. before[i] \in Flashblock /\ before[i].payload_id = fb.payload_id /\ before[i].index = i
    BY <1>0, <1>1, <1>2
  <2>2. Position(before[i]) < Position(fb)
    BY <1>1, <1>2 DEF After
  <2> QED BY <2>1, <2>2, PositionFacts
<1>3. before[fb.index] = None
  BY <1>0, <1>2 DEF Slots
<1>4. ~P2P(n)!Ready(before, lo)
  BY DEF NodeInOrder, P2P!BufferFor, P2P!FrontierFor, P2P!EmptyBuffer, P2P!Ready, P2P!Slot
<1>5. PICK hi \in lo .. (MAX_FLASHBLOCK_INDEX + 1) :
             IsGap(n, buffer, lo, hi) /\ Published(n, fb) = Outcome(n, fb, hi)
  BY <1>3, PublishedOutcome
<1>6. /\ node'[n].payload_id = fb.payload_id /\ node'[n].flashblock_index = hi
      /\ node'[n].flashblocks = buffer /\ node'[n].peer_tx = Append(sent, fb)
      /\ node'[n].flashblock_tx = out \o P2P(n)!Run(buffer, lo, hi)
  BY <1>5 DEF Outcome
<1> HIDE DEF before, lo, buffer, sent, out
<1>7. buffer[fb.index] = fb /\ \A i \in Slots : i # fb.index => buffer[i] = before[i]
  BY <1>0
<1>8. \/ hi = lo /\ P2P(n)!Run(buffer, lo, hi) = <<>>
      \/ hi = lo + 1 /\ P2P(n)!Run(buffer, lo, hi) = <<fb>>
  <2>1. CASE lo # fb.index
    <3>1. ~P2P(n)!Ready(buffer, lo)
      BY <1>4, <1>7, <2>1 DEF P2P!Ready, P2P!Slot, Slots
    <3>2. ~(lo \in lo .. (hi - 1))
      BY <1>5, <3>1 DEF IsGap
    <3>3. hi = lo
      BY <1>0, <1>5, <3>2
    <3>4. P2P(n)!Run(buffer, lo, hi) = <<>>
      BY <1>0, <3>3 DEF P2P!Run
    <3> QED BY <3>3, <3>4
  <2>2. CASE lo = fb.index
    <3>1. P2P(n)!Ready(buffer, lo)
      BY <1>0, <1>7, <2>2 DEF P2P!Ready, P2P!Slot, Slots
    <3>2. ASSUME P2P(n)!Ready(buffer, lo + 1) PROVE FALSE
      <4>1. lo + 1 \in Slots /\ before[lo + 1] # None
        BY <1>0, <1>7, <2>2, <3>2 DEF P2P!Ready, P2P!Slot, Slots
      <4>2. lo + 1 < fb.index
        BY <1>2, <4>1
      <4> QED BY <1>0, <2>2, <4>2
    <3>3. hi # lo /\ ~(lo + 1 \in lo .. (hi - 1))
      BY <1>5, <3>1, <3>2 DEF IsGap
    <3>4. hi = lo + 1
      BY <1>0, <1>5, <3>3
    <3>5. P2P(n)!Run(buffer, lo, hi) = [k \in 1 .. 1 |-> fb]
      BY <1>0, <1>7, <2>2, <3>4 DEF P2P!Run
    <3>6. [k \in 1 .. 1 |-> fb] = <<fb>>
      OBVIOUS
    <3> QED BY <3>4, <3>5, <3>6
  <2> QED BY <2>1, <2>2
<1>9. node'[n].flashblock_tx = out \/ node'[n].flashblock_tx = Append(out, fb)
  <2>1. out \o <<>> = out /\ out \o <<fb>> = Append(out, fb)
    BY <1>0
  <2> QED BY <1>6, <1>8, <2>1
<1> DEFINE sentNow == node'[n].peer_tx
           outNow == node'[n].flashblock_tx
<1>10. /\ Increasing(sent) /\ Increasing(out) /\ Within(out, sent) /\ After(sent, fb)
  BY DEF NodeInOrder, sent, out
<1>11. /\ Increasing(sentNow) /\ Within(sent, sentNow)
       /\ \E k \in DOMAIN sentNow : sentNow[k] = fb
       /\ \A e : (\E k \in DOMAIN sent : sent[k] = e) => \E k \in DOMAIN sentNow : sentNow[k] = e
  <2>1. sentNow = Append(sent, fb) /\ sent \in Seq(Flashblock)
    BY <1>0, <1>6
  <2> HIDE DEF sentNow
  <2>2. Increasing(sentNow)
    BY <1>10, <2>1, AppendInOrder
  <2>3. Within(sent, sentNow)
    BY <2>1, AppendInOrder
  <2>4. \E k \in DOMAIN sentNow : sentNow[k] = fb
    BY <2>1, AppendInOrder
  <2>5. \A e : (\E k \in DOMAIN sent : sent[k] = e) => \E k \in DOMAIN sentNow : sentNow[k] = e
    BY <2>3 DEF Within
  <2> QED BY <2>2, <2>3, <2>4, <2>5
<1>12. Increasing(outNow) /\ Within(outNow, sentNow)
  <2>1. Within(out, sentNow) /\ After(out, fb)
    BY <1>10, <1>11, WithinFacts
  <2>2. CASE outNow = out
    BY <1>10, <2>1, <2>2
  <2>3. CASE outNow = Append(out, fb)
    <3>1. Increasing(outNow)
      BY <1>0, <1>10, <2>1, <2>3, AppendInOrder
    <3>2. \A k \in DOMAIN outNow : (k \in DOMAIN out /\ outNow[k] = out[k]) \/ outNow[k] = fb
      BY <1>0, <2>3
    <3>3. Within(outNow, sentNow)
      BY <1>11, <2>1, <3>2 DEF Within
    <3> QED BY <3>1, <3>3
  <2> QED BY <1>9, <2>2, <2>3
<1>13. ASSUME NEW i \in Slots, buffer[i] # None
       PROVE  /\ buffer[i].payload_id = fb.payload_id /\ buffer[i].index = i
              /\ \E k \in DOMAIN sentNow : sentNow[k] = buffer[i]
  <2>1. CASE i = fb.index
    BY <1>7, <1>11, <2>1
  <2>2. CASE i # fb.index
    BY <1>1, <1>7, <1>11, <1>13, <2>2
  <2> QED BY <2>1, <2>2
<1>14. ~P2P(n)!Ready(buffer, hi)
  BY <1>5 DEF IsGap
<1>15. ~P2P(n)!Ready(node'[n].flashblocks, node'[n].flashblock_index)
  BY <1>6, <1>14
<1>16. NodeInOrder(n)'
  BY <1>6, <1>11, <1>12, <1>13, <1>15 DEF NodeInOrder
<1> QED BY <1>6, <1>16 DEF sent

(***************************************************************************)
(* The types of what a link and its ends hold.                             *)
(***************************************************************************)
LEMMA LinkTypes ==
  ASSUME Types, NEW l \in Link
  PROVE  /\ node[l[1]].peer_tx \in Seq(Flashblock) /\ node[l[2]].peer_tx \in Seq(Flashblock)
         /\ Len(node[l[1]].peer_tx) \in Nat
         /\ DOMAIN node[l[1]].peer_tx = 1 .. Len(node[l[1]].peer_tx)
         /\ wire[l] \in Seq(Flashblock) /\ conn[l] \in ConnState
         /\ conn[l].peer_rx \in Nat /\ conn[l].peer_rx <= Len(node[l[1]].peer_tx)
<1>1. node[l[1]].peer_tx \in Seq(Flashblock) /\ node[l[2]].peer_tx \in Seq(Flashblock)
  BY LinkFacts DEF Types, NodeState
<1>2. conn[l] \in ConnState /\ conn[l].peer_rx \in Nat
  BY DEF Types, ConnState
<1> QED BY <1>1, <1>2 DEF Types

(***************************************************************************)
(* The upper end broadcasts one flashblock more: it comes after all that   *)
(* is below.                                                               *)
(***************************************************************************)
LEMMA UpperEndSends ==
  ASSUME Types, NEW l \in Link, DownInOrder(l), NEW fb \in Flashblock,
         After(node[l[1]].peer_tx, fb),
         node'[l[1]].peer_tx = Append(node[l[1]].peer_tx, fb),
         node'[l[2]] = node[l[2]], conn'[l] = conn[l], wire'[l] = wire[l]
  PROVE  DownInOrder(l)'
<1> DEFINE sent == node[l[1]].peer_tx
           now == node'[l[1]].peer_tx
           got == node[l[2]].peer_tx
<1>1. sent \in Seq(Flashblock) /\ now = Append(sent, fb)
  BY LinkTypes
<1>2. Within(sent, now)
  <2> HIDE DEF sent, now
  <2> QED BY <1>1, AppendInOrder
<1>3. Within(wire[l], sent) /\ Within(got, sent)
  BY DEF DownInOrder
<1>4. Within(wire[l], now) /\ Within(got, now)
  BY <1>2, <1>3, WithinFacts
<1>5. After(got, fb) /\ After(wire[l], fb)
  BY <1>3, WithinFacts
<1>6. ASSUME conn[l].open, NEW i \in DOMAIN now, i > conn[l].peer_rx
      PROVE  After(got, now[i]) /\ After(wire[l], now[i])
  <2>1. (i \in DOMAIN sent /\ now[i] = sent[i]) \/ now[i] = fb
    BY <1>1
  <2> HIDE DEF now, got
  <2> QED BY <1>5, <1>6, <2>1 DEF DownInOrder, got
<1> QED BY <1>4, <1>6 DEF DownInOrder

(***************************************************************************)
(* The lower end takes the first flashblock off the wire: the rest follows *)
(* it.                                                                     *)
(***************************************************************************)
LEMMA LowerEndReceives ==
  ASSUME Types, NEW l \in Link, DownInOrder(l), wire[l] # <<>>, NEW fb, fb = Head(wire[l]),
         node'[l[2]].peer_tx = Append(node[l[2]].peer_tx, fb),
         node'[l[1]] = node[l[1]], conn'[l] = conn[l], wire'[l] = Tail(wire[l])
  PROVE  DownInOrder(l)'
<1> DEFINE sent == node[l[1]].peer_tx
           got == node[l[2]].peer_tx
           now == node'[l[2]].peer_tx
           w == wire[l]
           rest == wire'[l]
<1>1. got \in Seq(Flashblock) /\ sent \in Seq(Flashblock) /\ w \in Seq(Flashblock)
      /\ now = Append(got, fb) /\ rest = Tail(w) /\ w # <<>>
  BY LinkTypes
<1>2. conn[l].open /\ Increasing(w) /\ Within(w, sent) /\ Within(got, sent)
      /\ \A k \in DOMAIN w : After(got, w[k])
      /\ \A i \in DOMAIN sent : i > conn[l].peer_rx => After(got, sent[i]) /\ After(w, sent[i])
  BY DEF DownInOrder
<1> HIDE DEF sent, got, now, w, rest
<1>3. /\ Increasing(rest) /\ Within(rest, w)
      /\ \A k \in DOMAIN rest : Position(fb) < Position(rest[k])
      /\ 1 \in DOMAIN w /\ fb = w[1] /\ fb \in Flashblock
  BY <1>1, <1>2, TailInOrder DEF w
<1>4. Within(rest, sent)
  BY <1>2, <1>3, WithinFacts
<1>5. Within(now, sent)
  <2>1. \E i \in DOMAIN sent : sent[i] = fb
    BY <1>2, <1>3 DEF Within
  <2>2. \A k \in DOMAIN now : (k \in DOMAIN got /\ now[k] = got[k]) \/ now[k] = fb
    BY <1>1, <1>3
  <2> QED BY <1>2, <2>1, <2>2 DEF Within
<1>6. ASSUME NEW k \in DOMAIN rest PROVE After(now, rest[k])
  <2>1. rest[k] \in Flashblock
    BY <1>1
  <2>2. After(got, rest[k])
    BY <1>2, <1>3 DEF Within
  <2>3. Position(fb) < Position(rest[k])
    BY <1>3
  <2> QED BY <1>1, <1>3, <2>1, <2>2, <2>3, AppendInOrder
<1>7. ASSUME NEW i \in DOMAIN sent, i > conn[l].peer_rx
      PROVE  After(now, sent[i]) /\ After(rest, sent[i])
  <2>1. sent[i] \in Flashblock /\ After(got, sent[i]) /\ After(w, sent[i])
    BY <1>1, <1>2, <1>7
  <2>2. Position(fb) < Position(sent[i])
    BY <1>3, <2>1 DEF After
  <2>3. After(now, sent[i])
    BY <1>1, <1>3, <2>1, <2>2, AppendInOrder
  <2> QED BY <1>3, <2>1, <2>3, WithinFacts
<1> QED BY <1>2, <1>3, <1>4, <1>5, <1>6, <1>7 DEF DownInOrder, sent, got, now, w, rest

(***************************************************************************)
(* The upper end relays what it broadcast next: that comes after all on    *)
(* the wire, and before what is still to be relayed (connection.rs:        *)
(* 114-134).                                                               *)
(***************************************************************************)
LEMMA UpperEndRelays ==
  ASSUME Types, NEW l \in Link, DownInOrder(l), Increasing(node[l[1]].peer_tx), Relay(l)
  PROVE  DownInOrder(l)'
<1> DEFINE sent == node[l[1]].peer_tx
           got == node[l[2]].peer_tx
           w == wire[l]
           now == wire'[l]
           rx == conn[l].peer_rx
           fb == sent[rx + 1]
<1>1. /\ sent \in Seq(Flashblock) /\ got \in Seq(Flashblock) /\ w \in Seq(Flashblock)
      /\ Len(sent) \in Nat /\ DOMAIN sent = 1 .. Len(sent) /\ rx \in Nat /\ rx <= Len(sent)
  BY LinkTypes
<1>2. /\ conn[l].open /\ rx # Len(sent) /\ node' = node
      /\ now = w \/ now = Append(w, fb)
  BY DEF Relay, RxEmpty, Types
<1>3. conn'[l].open = conn[l].open /\ conn'[l].peer_rx = rx + 1
  <2>1. \/ conn' = [conn EXCEPT ![l].peer_rx = @ + 1, ![l].turn = "conn"]
        \/ conn' = [conn EXCEPT ![l].peer_rx = @ + 1]
    BY DEF Relay
  <2>2. conn \in [Link -> ConnState]
    BY DEF Types
  <2> QED BY <2>1, <2>2 DEF ConnState
<1>4. /\ Increasing(w) /\ Within(w, sent) /\ Within(got, sent)
      /\ \A k \in DOMAIN w : After(got, w[k])
      /\ \A i \in DOMAIN sent : i > rx => After(got, sent[i]) /\ After(w, sent[i])
      /\ Increasing(sent)
  BY <1>2 DEF DownInOrder
<1> HIDE DEF sent, got, w, now, rx, fb
<1>5. rx + 1 \in DOMAIN sent /\ rx + 1 > rx /\ fb = sent[rx + 1] /\ fb \in Flashblock
  <2>1. rx + 1 \in 1 .. Len(sent) /\ rx + 1 > rx
    <3>1. rx \in Nat /\ Len(sent) \in Nat /\ rx <= Len(sent)
      BY <1>1
    <3>2. rx # Len(sent)
      BY <1>2
    <3> QED BY <3>1, <3>2
  <2>2. sent[rx + 1] \in Flashblock
    BY <1>1, <2>1
  <2> QED BY <1>1, <2>1, <2>2 DEF fb
<1>6. After(got, fb) /\ After(w, fb)
  BY <1>4, <1>5
<1>7. ASSUME NEW i \in DOMAIN sent, i > rx + 1
      PROVE  /\ sent[i] \in Flashblock /\ After(got, sent[i]) /\ After(w, sent[i])
             /\ Position(fb) < Position(sent[i])
  <2>1. i > rx
    BY <1>1, <1>7
  <2>2. Position(fb) < Position(sent[i])
    BY <1>4, <1>5, <1>7 DEF Increasing
  <2> QED BY <1>1, <1>4, <2>1, <2>2
<1>8. /\ Increasing(now) /\ Within(now, sent)
      /\ \A k \in DOMAIN now : After(got, now[k])
      /\ \A i \in DOMAIN sent : i > rx + 1 => After(got, sent[i]) /\ After(now, sent[i])
  <2>1. CASE now = w
    BY <1>4, <1>7, <2>1
  <2>2. CASE now = Append(w, fb)
    <3>1. Increasing(now)
      BY <1>1, <1>4, <1>5, <1>6, <2>2, AppendInOrder
    <3>2. \A k \in DOMAIN now : (k \in DOMAIN w /\ now[k] = w[k]) \/ now[k] = fb
      BY <1>1, <1>5, <2>2
    <3>3. Within(now, sent)
      BY <1>4, <1>5, <3>2 DEF Within
    <3>4. \A k \in DOMAIN now : After(got, now[k])
      BY <1>4, <1>6, <3>2
    <3>5. ASSUME NEW i \in DOMAIN sent, i > rx + 1 PROVE After(now, sent[i])
      BY <1>1, <1>5, <1>7, <2>2, <3>5, AppendInOrder
    <3> QED BY <1>7, <3>1, <3>3, <3>4, <3>5
  <2> QED BY <1>2, <2>1, <2>2
<1> QED BY <1>2, <1>3, <1>4, <1>8 DEF DownInOrder, sent, got, w, now, rx

(***************************************************************************)
(* What the lower end receives from its parent is new to it: it penalises  *)
(* nobody, publishes the flashblock, and will find it to be an echo        *)
(* (connection.rs:204-245).                                                *)
(***************************************************************************)
LEMMA UpReceives ==
  ASSUME Types, NEW u \in Link, UpIsSilent(u), Receive(u), Back(u) \in Link, u[1] # u[2],
         NEW fb \in Flashblock, fb = Head(wire[Back(u)]), After(node[u[1]].peer_tx, fb)
  PROVE  /\ penalised' = penalised /\ node' = [node EXCEPT ![u[1]] = Published(u[1], fb)]
         /\ node'[u[1]].peer_tx = Append(node[u[1]].peer_tx, fb) => UpIsSilent(u)'
<1> DEFINE got == node[u[1]].peer_tx
           now == node'[u[1]].peer_tx
<1>1. /\ got \in Seq(Flashblock) /\ Len(got) \in Nat /\ DOMAIN got = 1 .. Len(got)
      /\ conn \in [Link -> ConnState] /\ wire \in [Link -> Seq(Flashblock)]
      /\ conn[u].received \subseteq Slots /\ conn[u].peer_rx \in Nat
  BY LinkTypes DEF Types, ConnState
<1>2. /\ conn[u].open /\ conn[u].turn = "conn" /\ wire' = [wire EXCEPT ![Back(u)] = Tail(@)]
      /\ conn' = [conn EXCEPT ![u].turn = "peer_rx", ![u].payload_id = fb.payload_id,
                              ![u].received = ReceivedFor(u, fb) \cup {fb.index}]
      /\ \/ fb.index \in ReceivedFor(u, fb)
         \/ penalised' = penalised /\ node' = [node EXCEPT ![u[1]] = Published(u[1], fb)]
  BY DEF Receive, Back
<1>3. \A i \in conn[u].received :
        \E k \in DOMAIN got : got[k].payload_id = conn[u].payload_id /\ got[k].index = i
  BY DEF UpIsSilent
<1>4. ASSUME fb.index \in ReceivedFor(u, fb) PROVE FALSE
  <2>1. conn[u].payload_id = fb.payload_id /\ fb.index \in conn[u].received
    BY <1>4 DEF ReceivedFor
  <2>2. PICK k \in DOMAIN got : got[k].payload_id = fb.payload_id /\ got[k].index = fb.index
    BY <1>3, <2>1
  <2>3. got[k] \in Flashblock /\ Position(got[k]) < Position(fb)
    BY <1>1 DEF After
  <2>4. got[k].index < fb.index
    BY <2>2, <2>3, PositionFacts
  <2>5. fb.index \in Nat
    BY ConstantFacts DEF Slots
  <2> QED BY <2>2, <2>4, <2>5
<1>5. ASSUME now = Append(got, fb) PROVE UpIsSilent(u)'
  <2>1. RxEmpty(u) /\ wire[u] = <<>>
    BY <1>2 DEF UpIsSilent
  <2>2. conn[u].peer_rx = Len(got)
    BY <2>1 DEF RxEmpty
  <2>3. /\ conn'[u].open = TRUE /\ conn'[u].turn = "peer_rx" /\ conn'[u].peer_rx = conn[u].peer_rx
        /\ conn'[u].payload_id = fb.payload_id
        /\ conn'[u].received = ReceivedFor(u, fb) \cup {fb.index}
    BY <1>1, <1>2 DEF ConnState
  <2>4. wire'[u] = <<>>
    <3>1. Back(u) # u
      BY LinkFacts DEF Back
    <3> QED BY <1>1, <1>2, <2>1, <3>1
  <2>5. Len(now) = Len(got) + 1 /\ now[Len(now)] = fb /\ Len(now) \in DOMAIN now
        /\ \A k \in DOMAIN got : k \in DOMAIN now /\ now[k] = got[k]
    BY <1>1, <1>5
  <2> HIDE DEF now, got
  <2>6. conn'[u].payload_id = fb.payload_id /\ fb.index \in conn'[u].received
    BY <2>3
  <2>7. conn'[u].peer_rx = Len(now) - 1
    BY <1>1, <2>2, <2>3, <2>5
  <2>8. ASSUME NEW i \in conn'[u].received
        PROVE  \E k \in DOMAIN now : now[k].payload_id = conn'[u].payload_id /\ now[k].index = i
    <3>1. CASE i = fb.index
      BY <2>3, <2>5, <3>1
    <3>2. CASE i # fb.index
      <4>1. i \in ReceivedFor(u, fb)
        BY <2>3, <2>8, <3>2
      <4>2. i \in conn[u].received /\ conn[u].payload_id = fb.payload_id
        BY <4>1 DEF ReceivedFor
      <4>3. PICK k \in DOMAIN got : got[k].payload_id = fb.payload_id /\ got[k].index = i
        BY <1>3, <4>2
      <4> QED BY <2>3, <2>5, <4>3
    <3> QED BY <3>1, <3>2
  <2>9. conn'[u].payload_id = now[Len(now)].payload_id
        /\ now[Len(now)].index \in conn'[u].received
    BY <2>5, <2>6
  <2> QED BY <2>3, <2>4, <2>7, <2>8, <2>9 DEF UpIsSilent, Originated, now
<1> QED BY <1>2, <1>4, <1>5

(***************************************************************************)
(* The lower end sends nothing up: all it finds in peer_rx originated      *)
(* there (connection.rs:114-134, 227-231).                                 *)
(***************************************************************************)
LEMMA UpSkips ==
  ASSUME Types, NEW u \in Link, UpIsSilent(u), Relay(u) \/ RxPending(u) \/ ConnPending(u)
  PROVE  UpIsSilent(u)' /\ wire' = wire
<1> DEFINE got == node[u[1]].peer_tx
<1>1. /\ Len(got) \in Nat /\ conn \in [Link -> ConnState] /\ conn[u].peer_rx \in Nat
      /\ conn[u] \in ConnState
  BY LinkTypes DEF Types
<1>2. conn[u].open /\ wire[u] = <<>> /\ node' = node
  BY DEF UpIsSilent, Relay, RxPending, ConnPending
<1>3. CASE Relay(u)
  <2>1. ~RxEmpty(u)
    BY <1>3 DEF Relay
  <2>2. conn[u].peer_rx = Len(got) - 1 /\ Originated(u, got[Len(got)])
    BY <1>2, <2>1 DEF UpIsSilent
  <2>3. conn[u].peer_rx + 1 = Len(got)
    BY <1>1, <2>2
  <2>4. Originated(u, got[conn[u].peer_rx + 1])
    BY <2>2, <2>3
  <2>5. conn' = [conn EXCEPT ![u].peer_rx = @ + 1, ![u].turn = "conn"] /\ wire' = wire
    BY <1>3, <2>4 DEF Relay
  <2>6. /\ conn'[u].peer_rx = Len(got) /\ conn'[u].received = conn[u].received
        /\ conn'[u].payload_id = conn[u].payload_id
    <3>1. conn'[u] = [[conn[u] EXCEPT !.peer_rx = @ + 1] EXCEPT !.turn = "conn"]
      BY <1>1, <2>5
    <3>2. conn[u] \in ConnState
      BY <1>1
    <3>3. conn'[u].peer_rx = conn[u].peer_rx + 1
      BY <3>1, <3>2 DEF ConnState
    <3>4. conn'[u].received = conn[u].received /\ conn'[u].payload_id = conn[u].payload_id
      BY <3>1, <3>2 DEF ConnState
    <3>5. conn'[u].peer_rx = Len(got)
      BY <2>3, <3>3, Zenon
    <3> QED BY <3>4, <3>5
  <2>7. RxEmpty(u)'
    BY <1>2, <2>6 DEF RxEmpty
  <2>8. \A i \in conn'[u].received :
          \E k \in DOMAIN got : got[k].payload_id = conn'[u].payload_id /\ got[k].index = i
    BY <2>6 DEF UpIsSilent
  <2>9. got' = got /\ wire'[u] = <<>>
    BY <1>2, <2>5
  <2> QED BY <2>5, <2>7, <2>8, <2>9 DEF UpIsSilent
<1>4. CASE RxPending(u) \/ ConnPending(u)
  <2>1. RxEmpty(u)
    BY <1>2, <1>4 DEF RxPending, ConnPending, UpIsSilent
  <2>2. /\ wire' = wire /\ conn'[u].peer_rx = conn[u].peer_rx
        /\ conn'[u].received = conn[u].received /\ conn'[u].payload_id = conn[u].payload_id
    BY <1>1, <1>4 DEF RxPending, ConnPending, ConnState
  <2>3. RxEmpty(u)'
    BY <1>2, <2>1, <2>2 DEF RxEmpty
  <2> QED BY <1>2, <2>2, <2>3 DEF UpIsSilent
<1> QED BY <1>3, <1>4

(***************************************************************************)
(* A link of which a step touches nothing.                                 *)
(***************************************************************************)
LEMMA LinkUntouched ==
  ASSUME NEW l \in Link, node'[l[1]] = node[l[1]], wire'[l] = wire[l], conn'[l] = conn[l]
  PROVE  /\ node'[l[2]] = node[l[2]] /\ DownInOrder(l) => DownInOrder(l)'
         /\ UpIsSilent(l) => UpIsSilent(l)'
<1>1. ASSUME node'[l[2]] = node[l[2]], DownInOrder(l) PROVE DownInOrder(l)'
  BY <1>1 DEF DownInOrder
<1>2. ASSUME UpIsSilent(l) PROVE UpIsSilent(l)'
  BY <1>2 DEF UpIsSilent, RxEmpty, Originated
<1> QED BY <1>1, <1>2

(***************************************************************************)
(* A connection begins with an empty wire and nothing pending.             *)
(***************************************************************************)
LEMMA LinkOpens ==
  ASSUME Types, NEW l \in Link, IntoConnection(l)
  PROVE  /\ DownInOrder(l) => DownInOrder(l)'
         /\ UpIsSilent(l) => UpIsSilent(l)'
<1>1. /\ ~conn[l].open /\ node' = node /\ wire' = wire
      /\ conn'[l] = [Closed EXCEPT !.open = TRUE, !.peer_rx = Len(node[l[1]].peer_tx)]
  BY DEF IntoConnection, Types
<1>2. conn'[l].open /\ conn'[l].peer_rx = Len(node[l[1]].peer_tx) /\ conn'[l].received = {}
  BY <1>1 DEF Closed
<1>3. ASSUME NEW i \in DOMAIN node[l[1]].peer_tx PROVE ~(i > Len(node[l[1]].peer_tx))
  BY LinkTypes
<1>4. ASSUME DownInOrder(l) PROVE DownInOrder(l)'
  BY <1>1, <1>2, <1>3, <1>4 DEF DownInOrder
<1>5. ASSUME UpIsSilent(l) PROVE UpIsSilent(l)'
  BY <1>1, <1>2, <1>5 DEF UpIsSilent, RxEmpty
<1> QED BY <1>4, <1>5

(***************************************************************************)
(* A broken connection loses what is in flight, and knows nothing of what  *)
(* it received.                                                            *)
(***************************************************************************)
LEMMA LinkBreaks ==
  ASSUME NEW l \in Link, node' = node, conn'[l] = Closed, wire'[l] = <<>>
  PROVE  /\ DownInOrder(l) => DownInOrder(l)'
         /\ UpIsSilent(l)'
<1>1. ~conn'[l].open /\ conn'[l].received = {}
  BY DEF Closed
<1>2. Increasing(<<>>) /\ \A s : Within(<<>>, s)
  BY DEF Increasing, Within
<1>3. ASSUME DownInOrder(l) PROVE DownInOrder(l)'
  BY <1>1, <1>2, <1>3 DEF DownInOrder
<1>4. UpIsSilent(l)'
  BY <1>1 DEF UpIsSilent
<1> QED BY <1>3, <1>4

-----------------------------------------------------------------------------
(***************************************************************************)
(* Nothing has been sent initially.                                        *)
(***************************************************************************)
LEMMA InitTree ==
  ASSUME Tree, GossipInit
  PROVE  TreeInv
<1>1. /\ \A n \in Node : /\ node[n].peer_tx = <<>> /\ node[n].flashblock_tx = <<>>
                         /\ node[n].flashblocks = [i \in Slots |-> None]
      /\ \A l \in Link : conn[l] = Closed /\ wire[l] = <<>>
      /\ penalised = {}
  BY DEF GossipInit, Slots
<1>2. Increasing(<<>>) /\ \A s : Within(<<>>, s)
  BY DEF Increasing, Within
<1>3. ASSUME NEW n \in Node PROVE NodeInOrder(n)
  <2>1. \A i \in Slots : node[n].flashblocks[i] = None
    BY <1>1
  <2>2. ~P2P(n)!Ready(node[n].flashblocks, node[n].flashblock_index)
    BY <2>1 DEF P2P!Ready, P2P!Slot, Slots
  <2> QED BY <1>1, <1>2, <2>1, <2>2 DEF NodeInOrder
<1>4. ASSUME NEW l \in Link PROVE DownInOrder(l) /\ UpIsSilent(l)
  <2>1. ~conn[l].open /\ conn[l].received = {} /\ wire[l] = <<>>
    BY <1>1 DEF Closed
  <2>2. node[l[1]].peer_tx = <<>> /\ node[l[2]].peer_tx = <<>>
    BY <1>1, TreeFacts
  <2>3. DownInOrder(l)
    BY <1>2, <2>1, <2>2 DEF DownInOrder
  <2>4. UpIsSilent(l)
    BY <2>1 DEF UpIsSilent
  <2> QED BY <2>3, <2>4
<1>5. node[Builder].peer_tx = <<>>
  BY <1>1, ConstantFacts
<1> QED BY <1>1, <1>3, <1>4, <1>5, TreeFacts DEF TreeInv

(***************************************************************************)
(* A node that publishes what comes after all it has sent stays in order,  *)
(* and does not concern the others.                                        *)
(***************************************************************************)
LEMMA NodePublishes ==
  ASSUME Types, TreeInv, NEW c \in Node, NEW fb \in Flashblock, After(node[c].peer_tx, fb),
         node' = [node EXCEPT ![c] = Published(c, fb)]
  PROVE  /\ \A n \in Node : NodeInOrder(n)'
         /\ node'[c].peer_tx = Append(node[c].peer_tx, fb)
         /\ \A n \in Node : n # c => node'[n] = node[n]
<1>1. node'[c] = Published(c, fb) /\ \A n \in Node : n # c => node'[n] = node[n]
  BY DEF Types
<1>2. node[c] \in NodeState /\ NodeInOrder(c)
  BY DEF Types, TreeInv
<1>3. NodeInOrder(c)' /\ node'[c].peer_tx = Append(node[c].peer_tx, fb)
  BY <1>1, <1>2, PublishedInOrder
<1>4. ASSUME NEW n \in Node, n # c PROVE NodeInOrder(n)'
  <2>1. NodeInOrder(n) /\ node'[n] = node[n]
    BY <1>1, <1>4 DEF TreeInv
  <2> QED BY <2>1 DEF NodeInOrder, P2P!Ready
<1> QED BY <1>1, <1>3, <1>4

(***************************************************************************)
(* Nodes that a step leaves alone stay in order.                           *)
(***************************************************************************)
LEMMA NodesUntouched ==
  ASSUME TreeInv, node' = node
  PROVE  \A n \in Node : NodeInOrder(n)'
<1> SUFFICES ASSUME NEW n \in Node PROVE NodeInOrder(n)'
  OBVIOUS
<1>1. NodeInOrder(n)
  BY DEF TreeInv
<1> QED BY <1>1 DEF NodeInOrder, P2P!Ready

(***************************************************************************)
(* A step of one connection concerns no other link of the tree.            *)
(***************************************************************************)
LEMMA OneLinkChanges ==
  ASSUME Tree, TreeInv, NEW k \in Link, node' = node,
         \A l \in Link : l # k => conn'[l] = conn[l] /\ wire'[l] = wire[l],
         Down(k) => DownInOrder(k)', Down(Back(k)) => UpIsSilent(k)'
  PROVE  \A l \in Link : Down(l) => DownInOrder(l)' /\ UpIsSilent(Back(l))'
<1> SUFFICES ASSUME NEW l \in Link, Down(l)
             PROVE  DownInOrder(l)' /\ UpIsSilent(Back(l))'
  OBVIOUS
<1>1. DownInOrder(l) /\ UpIsSilent(Back(l)) /\ Back(l) \in Link /\ Back(Back(l)) = l
  BY TreeFacts DEF TreeInv
<1>2. DownInOrder(l)'
  <2>1. CASE l = k
    BY <2>1
  <2>2. CASE l # k
    BY <1>1, <2>2, LinkUntouched
  <2> QED BY <2>1, <2>2
<1>3. UpIsSilent(Back(l))'
  <2>1. CASE Back(l) = k
    BY <1>1, <2>1
  <2>2. CASE Back(l) # k
    <3> DEFINE u == Back(l)
    <3>1. u \in Link /\ UpIsSilent(u) /\ conn'[u] = conn[u] /\ wire'[u] = wire[u]
      BY <1>1, <2>2
    <3> HIDE DEF u
    <3>2. UpIsSilent(u)'
      BY <3>1, LinkUntouched
    <3> QED BY <3>2 DEF u
  <2> QED BY <2>1, <2>2
<1> QED BY <1>2, <1>3

(***************************************************************************)
(* The builder's next flashblock comes after all it has published, and its *)
(* links downward have it pending.                                         *)
(***************************************************************************)
LEMMA TreePublishNew ==
  ASSUME Tree, Types, TreeInv, PublishNew
  PROVE  TreeInv'
<1> DEFINE fb == Job[published + 1]
           sent == node[Builder].peer_tx
<1>1. /\ published' = published + 1 /\ node' = [node EXCEPT ![Builder] = Published(Builder, fb)]
      /\ UNCHANGED <<conn, wire, penalised>> /\ published + 1 \in DOMAIN Job /\ published \in Nat
  BY ConstantFacts DEF PublishNew, Types
<1>2. fb \in Flashblock /\ Position(fb) = published + 1
  BY <1>1, PositionFacts
<1>3. sent \in Seq(Flashblock) /\ \A k \in DOMAIN sent : Position(sent[k]) <= published
  BY ConstantFacts DEF Types, NodeState, TreeInv
<1>4. \A k \in DOMAIN sent : Position(sent[k]) \in Nat
  BY <1>3, PositionFacts
<1>5. After(sent, fb)
  BY <1>1, <1>2, <1>3, <1>4 DEF After
<1> HIDE DEF fb
<1>6. /\ \A n \in Node : NodeInOrder(n)'
      /\ node'[Builder].peer_tx = Append(sent, fb)
      /\ \A n \in Node : n # Builder => node'[n] = node[n]
  BY <1>1, <1>2, <1>5, NodePublishes, ConstantFacts
<1>7. ASSUME NEW k \in DOMAIN node'[Builder].peer_tx
      PROVE  Position(node'[Builder].peer_tx[k]) <= published'
  <2>1. \/ k \in DOMAIN sent /\ node'[Builder].peer_tx[k] = sent[k]
        \/ node'[Builder].peer_tx[k] = fb
    BY <1>2, <1>3, <1>6, <1>7
  <2> QED BY <1>1, <1>2, <1>3, <1>4, <2>1
<1>8. ASSUME NEW l \in Link, Down(l) PROVE DownInOrder(l)' /\ UpIsSilent(Back(l))'
  <2> DEFINE u == Back(l)
  <2>1. /\ DownInOrder(l) /\ UpIsSilent(u) /\ u \in Link /\ u[1] = l[2] /\ l[2] # Builder
        /\ l[1] \in Node /\ l[2] \in Node
    BY <1>8, TreeFacts DEF TreeInv
  <2> HIDE DEF u
  <2>2. node'[l[2]] = node[l[2]] /\ node'[u[1]] = node[u[1]]
    BY <1>6, <2>1
  <2>3. UpIsSilent(u)'
    BY <1>1, <2>1, <2>2, LinkUntouched
  <2>4. CASE l[1] = Builder
    <3>1. /\ After(node[l[1]].peer_tx, fb)
          /\ node'[l[1]].peer_tx = Append(node[l[1]].peer_tx, fb)
      BY <1>5, <1>6, <2>4
    <3> QED BY <1>1, <1>2, <2>1, <2>2, <2>3, <3>1, UpperEndSends DEF u
  <2>5. CASE l[1] # Builder
    <3>1. node'[l[1]] = node[l[1]]
      BY <1>6, <2>1, <2>5
    <3> QED BY <1>1, <2>1, <2>2, <2>3, <3>1, LinkUntouched DEF u
  <2> QED BY <2>4, <2>5
<1>9. penalised' = {}
  BY <1>1 DEF TreeInv
<1> QED BY <1>6, <1>7, <1>8, <1>9 DEF TreeInv

(***************************************************************************)
(* A node receives only from its parent, and only what comes after all it  *)
(* has: it broadcasts that, and those below have it pending.               *)
(***************************************************************************)
LEMMA TreeReceive ==
  ASSUME Tree, Types, TreeInv, NEW u \in Link, Receive(u)
  PROVE  TreeInv'
<1> DEFINE d == Back(u)
           c == u[1]
           fb == Head(wire[d])
           got == node[c].peer_tx
<1>1. /\ d \in Link /\ Back(d) = u /\ d[2] = u[1] /\ d[1] = u[2] /\ u[1] # u[2] /\ c \in Node
      /\ u[2] \in Node /\ (Down(u) <=> ~Down(d)) /\ d[1] \in Node
  BY TreeFacts
<1>2. wire[d] # <<>>
  BY DEF Receive, Back
<1>3. Down(d) /\ ~Down(u)
  BY <1>1, <1>2 DEF TreeInv, UpIsSilent
<1>4. DownInOrder(d) /\ UpIsSilent(u) /\ c # Builder
  BY <1>1, <1>3, TreeFacts DEF TreeInv
<1>5. fb \in Flashblock /\ fb = wire[d][1] /\ 1 \in DOMAIN wire[d]
  BY <1>1, <1>2, HeadOfWire
<1>6. After(got, fb)
  BY <1>1, <1>4, <1>5 DEF DownInOrder
<1>7. /\ penalised' = penalised /\ node' = [node EXCEPT ![c] = Published(c, fb)]
      /\ node'[c].peer_tx = Append(got, fb) => UpIsSilent(u)'
  BY <1>1, <1>4, <1>5, <1>6, UpReceives
<1>8. /\ \A n \in Node : NodeInOrder(n)'
      /\ node'[c].peer_tx = Append(got, fb)
      /\ \A n \in Node : n # c => node'[n] = node[n]
  BY <1>1, <1>5, <1>6, <1>7, NodePublishes
<1>9. /\ published' = published
      /\ wire' = [wire EXCEPT ![d] = Tail(@)]
      /\ \A l \in Link : l # u => conn'[l] = conn[l]
  BY DEF Receive, Back, Types
<1>10. wire'[d] = Tail(wire[d]) /\ \A l \in Link : l # d => wire'[l] = wire[l]
  BY <1>1, <1>9 DEF Types
<1> HIDE DEF d, c, fb, got
<1>11. DownInOrder(d)' /\ UpIsSilent(u)'
  <2>1. node'[d[2]].peer_tx = Append(node[d[2]].peer_tx, fb)
    BY <1>1, <1>8 DEF c, got
  <2>2. node'[d[1]] = node[d[1]]
    BY <1>1, <1>8 DEF c
  <2>3. conn'[d] = conn[d]
    BY <1>1, <1>3, <1>9
  <2>4. DownInOrder(d)'
    BY <1>1, <1>2, <1>4, <1>10, <2>1, <2>2, <2>3, LowerEndReceives DEF fb
  <2> QED BY <1>7, <1>8, <2>4
<1>12. ASSUME NEW l \in Link, Down(l), l # d PROVE DownInOrder(l)' /\ UpIsSilent(Back(l))'
  <2> DEFINE v == Back(l)
  <2>1. /\ DownInOrder(l) /\ UpIsSilent(v) /\ v \in Link /\ v[1] = l[2] /\ Back(v) = l
        /\ l[1] \in Node /\ l[2] \in Node /\ ~Down(v)
    BY <1>12, TreeFacts DEF TreeInv
  <2>2. l[2] # c
    BY <1>1, <1>3, <1>12, TreeFacts DEF c
  <2>3. l # u /\ v # u /\ v # d
    BY <1>1, <1>3, <1>12, <2>1 DEF d
  <2> HIDE DEF v
  <2>4. /\ conn'[l] = conn[l] /\ wire'[l] = wire[l] /\ conn'[v] = conn[v] /\ wire'[v] = wire[v]
        /\ node'[l[2]] = node[l[2]] /\ node'[v[1]] = node[v[1]]
    BY <1>8, <1>9, <1>10, <1>12, <2>1, <2>2, <2>3
  <2>5. UpIsSilent(v)'
    BY <2>1, <2>4, LinkUntouched
  <2>6. CASE l[1] = c
    <3>1. /\ After(node[l[1]].peer_tx, fb)
          /\ node'[l[1]].peer_tx = Append(node[l[1]].peer_tx, fb)
      BY <1>6, <1>8, <2>6 DEF got
    <3>2. DownInOrder(l)'
      BY <1>5, <2>1, <2>4, <3>1, UpperEndSends
    <3> QED BY <2>5, <3>2 DEF v
  <2>7. CASE l[1] # c
    <3>1. node'[l[1]] = node[l[1]]
      BY <1>8, <2>1, <2>7
    <3>2. DownInOrder(l)'
      BY <2>1, <2>4, <3>1, LinkUntouched
    <3> QED BY <2>5, <3>2 DEF v
  <2> QED BY <2>6, <2>7
<1>13. \A l \in Link : Down(l) => DownInOrder(l)' /\ UpIsSilent(Back(l))'
  BY <1>1, <1>11, <1>12
<1>14. \A k \in DOMAIN node'[Builder].peer_tx : Position(node'[Builder].peer_tx[k]) <= published'
  <2>1. node'[Builder] = node[Builder]
    BY <1>4, <1>8, ConstantFacts
  <2> QED BY <1>9, <2>1 DEF TreeInv
<1> QED BY <1>7, <1>8, <1>13, <1>14 DEF TreeInv

(***************************************************************************)
(* Relaying, waiting, connecting and breaking keep the order as well.      *)
(***************************************************************************)
LEMMA TreeStep ==
  ASSUME Tree, Types, TreeInv, GossipNext
  PROVE  TreeInv'
<1>0. /\ \A k \in DOMAIN node[Builder].peer_tx : Position(node[Builder].peer_tx[k]) <= published
      /\ penalised = {}
  BY DEF TreeInv
<1>1. CASE PublishNew
  BY <1>1, TreePublishNew
<1>2. ASSUME NEW u \in Link, Receive(u) PROVE TreeInv'
  BY <1>2, TreeReceive
<1>3. ASSUME NEW k \in Link, Relay(k) \/ RxPending(k) \/ ConnPending(k) PROVE TreeInv'
  <2>1. UNCHANGED <<node, penalised, published>>
    BY <1>3 DEF Relay, RxPending, ConnPending
  <2>2. \A l \in Link : l # k => conn'[l] = conn[l] /\ wire'[l] = wire[l]
    BY <1>3 DEF Relay, RxPending, ConnPending, Types
  <2>3. ASSUME Down(k) PROVE DownInOrder(k)'
    <3>1. DownInOrder(k) /\ Increasing(node[k[1]].peer_tx)
      BY <2>3, TreeFacts DEF TreeInv, NodeInOrder
    <3>2. CASE Relay(k)
      BY <3>1, <3>2, UpperEndRelays
    <3>3. CASE RxPending(k) \/ ConnPending(k)
      <4>1. /\ conn'[k].open = conn[k].open /\ conn'[k].peer_rx = conn[k].peer_rx
            /\ wire' = wire
        BY <3>3 DEF RxPending, ConnPending, Types, ConnState
      <4> QED BY <2>1, <3>1, <4>1 DEF DownInOrder
    <3> QED BY <1>3, <3>2, <3>3
  <2>4. ASSUME Down(Back(k)) PROVE UpIsSilent(k)'
    <3>1. UpIsSilent(k)
      BY <2>4, TreeFacts DEF TreeInv
    <3> QED BY <1>3, <3>1, UpSkips
  <2>5. \A l \in Link : Down(l) => DownInOrder(l)' /\ UpIsSilent(Back(l))'
    BY <2>1, <2>2, <2>3, <2>4, OneLinkChanges
  <2> QED BY <1>0, <2>1, <2>5, NodesUntouched DEF TreeInv
<1>4. ASSUME NEW k \in Link, IntoConnection(k) PROVE TreeInv'
  <2>1. UNCHANGED <<node, wire, penalised, published>>
        /\ \A l \in Link : l # k => conn'[l] = conn[l]
    BY <1>4 DEF IntoConnection, Types
  <2>2. ASSUME Down(k) PROVE DownInOrder(k)'
    BY <1>4, <2>2, LinkOpens DEF TreeInv
  <2>3. ASSUME Down(Back(k)) PROVE UpIsSilent(k)'
    <3>1. UpIsSilent(k)
      BY <2>3, TreeFacts DEF TreeInv
    <3> QED BY <1>4, <3>1, LinkOpens
  <2>4. \A l \in Link : Down(l) => DownInOrder(l)' /\ UpIsSilent(Back(l))'
    BY <2>1, <2>2, <2>3, OneLinkChanges
  <2> QED BY <1>0, <2>1, <2>4, NodesUntouched DEF TreeInv
<1>5. ASSUME NEW e \in Edge, Break(e) PROVE TreeInv'
  <2>1. /\ UNCHANGED <<node, penalised, published>>
        /\ conn' = [l \in Link |-> IF {l[1], l[2]} = e THEN Closed ELSE conn[l]]
        /\ wire' = [l \in Link |-> IF {l[1], l[2]} = e THEN <<>> ELSE wire[l]]
    BY <1>5 DEF Break
  <2>2. ASSUME NEW l \in Link
        PROVE  /\ DownInOrder(l) => DownInOrder(l)'
               /\ UpIsSilent(l) => UpIsSilent(l)'
    <3>1. CASE {l[1], l[2]} = e
      <4>1. conn'[l] = Closed /\ wire'[l] = <<>>
        BY <2>1, <3>1
      <4> QED BY <2>1, <4>1, LinkBreaks
    <3>2. CASE {l[1], l[2]} # e
      <4>1. conn'[l] = conn[l] /\ wire'[l] = wire[l]
        BY <2>1, <3>2
      <4> QED BY <2>1, <4>1, LinkUntouched
    <3> QED BY <3>1, <3>2
  <2>3. \A l \in Link : Down(l) => DownInOrder(l)' /\ UpIsSilent(Back(l))'
    BY <2>2, TreeFacts DEF TreeInv
  <2> QED BY <1>0, <2>1, <2>3, NodesUntouched DEF TreeInv
<1> QED BY <1>1, <1>2, <1>3, <1>4, <1>5 DEF GossipNext, Task

(***************************************************************************)
(* In a tree what a node has, what is on its way to it and what its parent *)
(* will still send it follow each other in the builder's order.            *)
(***************************************************************************)
THEOREM TreeInvariance ==
  ASSUME Tree
  PROVE  GossipSpec => []TreeInv
<1>1. GossipInit => TreeInv
  BY InitTree
<1>2. Types /\ TreeInv /\ [GossipNext]_vars => TreeInv'
  <2>1. ASSUME TreeInv, UNCHANGED vars PROVE TreeInv'
    <3>1. UNCHANGED <<node, conn, wire, penalised, published>>
      BY <2>1 DEF vars
    <3>2. \A l \in Link : Down(l) => DownInOrder(l)' /\ UpIsSilent(Back(l))'
      BY <2>1, <3>1, TreeFacts, LinkUntouched DEF TreeInv
    <3> QED BY <2>1, <3>1, <3>2, NodesUntouched DEF TreeInv
  <2> QED BY <2>1, TreeStep
<1> QED BY <1>1, <1>2, Typed, PTL DEF GossipSpec

(***************************************************************************)
(* The strict ordering promised for flashblock_tx holds across every tree  *)
(* of nodes, however they connect, break and connect again (p2p.rs:        *)
(* 157-158): no node emits a flashblock twice or after a later one.        *)
(***************************************************************************)
THEOREM OrderedStreams ==
  ASSUME Tree
  PROVE  GossipSpec => []StreamsInOrder
<1>1. TreeInv => StreamsInOrder
  BY DEF TreeInv, NodeInOrder, Increasing, StreamsInOrder
<1> QED BY <1>1, TreeInvariance, PTL

(***************************************************************************)
(* No node of a tree is penalised: none relays a flashblock to one that    *)
(* had it from there, nor twice (connection.rs:114-134, 211-225).          *)
(***************************************************************************)
THEOREM NoPenalties ==
  ASSUME Tree
  PROVE  GossipSpec => []NobodyPenalised
<1>1. TreeInv => NobodyPenalised
  BY DEF TreeInv, NobodyPenalised
<1> QED BY <1>1, TreeInvariance, PTL

=============================================================================
