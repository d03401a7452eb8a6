-------------------------- MODULE MCFlashblocksP2P --------------------------
(***************************************************************************)
(* FlashblocksP2P on two payloads whose flashblocks arrive in any order,   *)
(* any number of times, some of them too large to broadcast.               *)
(***************************************************************************)
EXTENDS FlashblocksP2P

CONSTANTS MaxBroadcasts  \* bound on the messages sent to the connections

\* Indices up to one above the maximum, in both sizes.
MCFlashblock ==
  [payload_id : PayloadId, index : 0 .. (MAX_FLASHBLOCK_INDEX + 1), oversize : BOOLEAN]

MCNext == \E fb \in Flashblock : Publish(fb) /\ Len(peer_tx') <= MaxBroadcasts

MCSpec == Init /\ [][MCNext]_p2pVars
=============================================================================
