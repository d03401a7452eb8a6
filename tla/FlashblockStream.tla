-------------------------- MODULE FlashblockStream --------------------------
(***************************************************************************)
(* What FlashblocksP2PCtx promises to the consumers of flashblock_tx       *)
(* (p2p.rs:138-143, 203-209), without saying how: flashblocks of one       *)
(* payload are delivered with consecutive indices from 0, each one once,   *)
(* until the stream turns to another payload and starts again from 0.      *)
(***************************************************************************)
EXTENDS Integers, Sequences

CONSTANTS PayloadId, NoPayload, Flashblock, MAX_FLASHBLOCK_INDEX

VARIABLES
  current,  \* the payload being delivered
  next,     \* index of its next flashblock
  out       \* everything delivered so far

Init ==
  /\ current = NoPayload
  /\ next = 0
  /\ out = <<>>

\* Deliver the next n flashblocks of payload id, n = 0 being a mere switch.
Deliver(id, n) ==
  LET start == IF id = current THEN next ELSE 0
  IN /\ current' = id
     /\ next' = start + n
     /\ \E run \in [1 .. n -> {fb \in Flashblock : fb.payload_id = id}] :
          /\ \A k \in 1 .. n : run[k].index = start + k - 1
          /\ out' = out \o run

Next == \E id \in PayloadId, n \in 0 .. (MAX_FLASHBLOCK_INDEX + 1) : Deliver(id, n)

Spec == Init /\ [][Next]_<<current, next, out>>
=============================================================================
