--------------------- MODULE MCFlashblocksStateExecutor ---------------------
(***************************************************************************)
(* FlashblocksStateExecutor with a local job for payload pA, and another   *)
(* builder that builds payload pB on top of it.                            *)
(***************************************************************************)
EXTENDS FlashblocksStateExecutor

CONSTANTS pA, pB, h1, h2

MCBase(id) ==
  IF id = pA THEN [timestamp |-> 1, parent_hash |-> h1]
             ELSE [timestamp |-> 2, parent_hash |-> h2]

\* Flashblock 1 of the other builder is too large to be broadcast.
Fb(id, i) ==
  [payload_id |-> id, index |-> i, oversize |-> (id = pB /\ i = 1), base |-> MCBase(id)]

MCFlashblock == {Fb(id, i) : id \in PayloadId, i \in Slot}

MCJobs == << [payload_id |-> pA, base |-> MCBase(pA)] >>

MCNoJobs == << >>

MCRemote == {Fb(pB, i) : i \in Slot}
=============================================================================
