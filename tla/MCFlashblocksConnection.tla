----------------------- MODULE MCFlashblocksConnection -----------------------
(***************************************************************************)
(* FlashblocksConnection with two peers, a local builder that publishes    *)
(* two flashblocks of payload pA, and peers that relay or build.           *)
(***************************************************************************)
EXTENDS FlashblocksConnection, TLC

CONSTANTS pA, pB

Fb(id, i) == [payload_id |-> id, index |-> i, oversize |-> FALSE]

MCPeers == Permutations(Peer)

MCLocalJob == <<Fb(pA, 0), Fb(pA, 1)>>

\* Two payloads, and an index above the maximum.
MCRemote == {Fb(pA, 0), Fb(pA, 2), Fb(pB, 0)}

\* Peers that only ever send what the local builder publishes.
MCOnePayload == {Fb(pA, 0), Fb(pA, 1)}

MCFlashblock == MCRemote \cup MCOnePayload
=============================================================================
