------------------------ MODULE MCPublishFlashblock ------------------------
(***************************************************************************)
(* PublishFlashblock with one sequencer transaction, two pool transactions *)
(* and two jobs; another builder may take over the collection.           *)
(***************************************************************************)
EXTENDS PublishFlashblock, TLC

CONSTANTS pA, pB, pC, h, deposit, t1, t2

Base(t) == [timestamp |-> t, parent_hash |-> h]

MCSequencer == <<deposit>>

MCJobs == << [payload_id |-> pA, base |-> Base(1)], [payload_id |-> pB, base |-> Base(2)] >>

\* A competing payload with the timestamp of the second job.
MCRemote == {[payload_id |-> pC, index |-> 0, base |-> Base(2), txs |-> <<>>,
              access_list |-> <<>>, executed |-> <<>>, block_hash |-> None]}

MCSymmetry == Permutations({t1, t2})
=============================================================================
