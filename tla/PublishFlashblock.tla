------------------------- MODULE PublishFlashblock -------------------------
(***************************************************************************)
(* The PublishFlashblock step within the payload jobs of one node          *)
(* (step/publish_flashblocks.rs), with the collection it publishes into    *)
(* (state.rs, primitives.rs) and the payload a job ends with               *)
(* (platform.rs).                                                          *)
(*                                                                         *)
(* All jobs share one instance of the step, hence one block_number and one *)
(* block_base (payload.rs gives one pipeline to the JobGenerator).  A job  *)
(* may start while an earlier one still runs; what a job does between two  *)
(* accesses to the shared state is one action.                             *)
(*                                                                         *)
(* A payload under construction is the sequence of transactions of its     *)
(* checkpoints, with the place of the latest barrier and what that barrier *)
(* carries as context.  A built block is its transactions and, as          *)
(* `executed`, those behind its receipts, gas and state.                   *)
(***************************************************************************)
EXTENDS Integers, Sequences, FiniteSets

CONSTANTS
  NoPayload, None, ZeroHash,
  Tx,                    \* transactions
  Sequencer,             \* the transactions of the payload attributes, in order
  Jobs,                  \* the jobs, in order of their start: [payload_id, base]
  RemoteFlashblock,      \* what other builders publish
  MaxTxs,                \* bound on the transactions of a block
  MaxPublishes           \* bound on block_number

INSTANCE Flashblocks

Job == DOMAIN Jobs

ASSUME PublishAssumption ==
  /\ Sequencer \in Seq(Tx) /\ Len(Sequencer) <= MaxTxs
  /\ \A i, k \in DOMAIN Sequencer : Sequencer[i] = Sequencer[k] => i = k
  /\ MaxTxs \in Nat /\ MaxPublishes \in Nat
  /\ Jobs \in Seq([payload_id : {Jobs[j].payload_id : j \in Job},
                   base : {Jobs[j].base : j \in Job}])
  /\ \A j \in Job : /\ Jobs[j].base # None /\ Jobs[j].base.timestamp \in Nat \ {0}
                    /\ Jobs[j].payload_id # NoPayload
  /\ \A j, k \in Job : Jobs[j].payload_id = Jobs[k].payload_id => j = k
  /\ BaseOf(DefaultFlashblocks) # None
  /\ None \notin [txs : Seq(Tx), executed : Seq(Tx)]
  /\ \A fb \in RemoteFlashblock :
       /\ fb.base = None \/ fb.base.timestamp \in Nat
       /\ \A j \in Job : fb.payload_id # Jobs[j].payload_id

VARIABLES
  list,          \* the collection of the state executor
  block_number,  \* PublishFlashblock::block_number
  block_base,    \* PublishFlashblock::block_base
  phase,         \* how far each job is
  txs,           \* transactions of the payload's history
  barrier,       \* how many of them precede the latest barrier
  built,         \* the built payload of the latest barrier's context
  draft,         \* locals of step: op_built_payload, then the flashblock
  result,        \* what the job ended with
  accepted,      \* history: how many flashblocks of the job were published
  overlapped     \* history: the jobs that ran while another did

shared == <<list, block_number, block_base>>
payload == <<txs, barrier, built>>
vars == <<shared, phase, payload, draft, result, accepted, overlapped>>

\* step goes from "running" through "built", "spanned", "numbered" and "based"
\* back to "running"; after_job from "ending" through "reset" to "done".
Phase == {"waiting", "running", "built", "spanned", "numbered", "based", "ending", "reset",
          "done"}

Active(j) == phase[j] \notin {"waiting", "done"}

PublishInit ==
  /\ list = DefaultFlashblocks
  /\ block_number = 0
  /\ block_base = None
  /\ phase = [j \in Job |-> "waiting"]
  /\ txs = [j \in Job |-> <<>>]
  /\ barrier = [j \in Job |-> 0]
  /\ built = [j \in Job |-> None]
  /\ draft = [j \in Job |-> None]
  /\ result = [j \in Job |-> None]
  /\ accepted = [j \in Job |-> 0]
  /\ overlapped = {}

\* before_job, and the prologue that applies the sequencer transactions and
\* places a barrier after them.
StartJob(j) ==
  /\ phase[j] = "waiting"
  /\ \A k \in Job : k < j => phase[k] # "waiting"
  /\ phase' = [phase EXCEPT ![j] = "running"]
  /\ block_base' = Jobs[j].base
  /\ txs' = [txs EXCEPT ![j] = Sequencer]
  /\ barrier' = [barrier EXCEPT ![j] = Len(Sequencer)]
  /\ LET others == {k \in Job : Active(k)}
     IN overlapped' = IF others = {} THEN overlapped ELSE overlapped \cup others \cup {j}
  /\ UNCHANGED <<list, block_number, built, draft, result, accepted>>

\* AppendOrders adds a transaction from the pool.
AppendOrder(j, tx) ==
  /\ phase[j] = "running"
  /\ Len(txs[j]) < MaxTxs
  /\ \A i \in DOMAIN txs[j] : txs[j][i] # tx
  /\ txs' = [txs EXCEPT ![j] = Append(@, tx)]
  /\ UNCHANGED <<shared, phase, barrier, built, draft, result, accepted, overlapped>>

-----------------------------------------------------------------------------
UnpublishedSinceBarrier(j) ==  \* mutant: the first flashblock is no exception
  SubSeq(txs[j], barrier[j] + 1, Len(txs[j]))

\* "One exception is the first flashblock": it spans the whole history.
Unpublished(j) ==
  IF block_number = 0 THEN txs[j] ELSE SubSeq(txs[j], barrier[j] + 1, Len(txs[j]))

\* extract_previous_state: what build_op_built_payload starts from.
PreviouslyExecuted(j) == IF built[j] = None THEN <<>> ELSE built[j].executed

\* build_op_built_payload reads the counter for the span it executes.
BuildBlock(j) ==
  /\ phase[j] = "running"
  /\ block_number < MaxPublishes
  /\ phase' = [phase EXCEPT ![j] = "built"]
  /\ draft' = [draft EXCEPT ![j] =
       [block |-> [txs |-> txs[j], executed |-> PreviouslyExecuted(j) \o Unpublished(j)]]]
  /\ UNCHANGED <<shared, payload, result, accepted, overlapped>>

\* step reads it again for the transactions of the flashblock ...
TakeSpan(j) ==
  /\ phase[j] = "built"
  /\ phase' = [phase EXCEPT ![j] = "spanned"]
  /\ draft' = [draft EXCEPT ![j] = [block |-> draft[j].block, txs |-> Unpublished(j)]]
  /\ UNCHANGED <<shared, payload, result, accepted, overlapped>>

\* ... and moves it, whatever becomes of the flashblock.
TakeNumber(j) ==
  /\ phase[j] = "spanned"
  /\ block_number < MaxPublishes
  /\ phase' = [phase EXCEPT ![j] = "numbered"]
  /\ block_number' = block_number + 1
  /\ draft' = [draft EXCEPT ![j] =
       [block |-> draft[j].block, txs |-> draft[j].txs, index |-> block_number]]
  /\ UNCHANGED <<list, block_base, payload, result, accepted, overlapped>>

\* The flashblock is complete.
TakeBase(j) ==
  /\ phase[j] = "numbered"
  /\ phase' = [phase EXCEPT ![j] = "based"]
  /\ draft' = [draft EXCEPT ![j] =
       [payload_id |-> Jobs[j].payload_id, index |-> draft[j].index, base |-> block_base,
        txs |-> draft[j].txs, access_list |-> draft[j].block.txs,
        executed |-> draft[j].block.executed, block_hash |-> draft[j].block]]
  /\ UNCHANGED <<shared, payload, result, accepted, overlapped>>

PublishIgnoringErrors(j) ==  \* mutant: a barrier is placed after a failed publish too
  /\ phase[j] = "based"
  /\ phase' = [phase EXCEPT ![j] = "running"]
  /\ IF Accepts(list, draft[j])
       THEN /\ list' = Push(list, draft[j])
            /\ accepted' = [accepted EXCEPT ![j] = @ + 1]
       ELSE UNCHANGED <<list, accepted>>
  /\ built' = [built EXCEPT ![j] = draft[j].block_hash]
  /\ barrier' = [barrier EXCEPT ![j] = Len(txs[j])]
  /\ draft' = [draft EXCEPT ![j] = None]
  /\ UNCHANGED <<block_number, block_base, txs, result, overlapped>>

\* p2p.publish pushes it into the collection, which may fail; only a success
\* places a barrier.
Publish(j) ==
  /\ phase[j] = "based"
  /\ phase' = [phase EXCEPT ![j] = "running"]
  /\ \/ /\ Accepts(list, draft[j])
        /\ list' = Push(list, draft[j])
        /\ built' = [built EXCEPT ![j] = draft[j].block_hash]
        /\ barrier' = [barrier EXCEPT ![j] = Len(txs[j])]
        /\ accepted' = [accepted EXCEPT ![j] = @ + 1]
     \/ /\ ~Accepts(list, draft[j])
        /\ UNCHANGED <<list, built, barrier, accepted>>
  /\ draft' = [draft EXCEPT ![j] = None]
  /\ UNCHANGED <<block_number, block_base, txs, result, overlapped>>

\* A flashblock of another builder has been executed and joins the collection.
RemotePush(fb) ==
  /\ Accepts(list, fb)
  /\ list' = Push(list, fb)
  /\ UNCHANGED <<block_number, block_base, phase, payload, draft, result, accepted, overlapped>>

-----------------------------------------------------------------------------
ExternalTxsUnfiltered(j) == txs[j]  \* mutant: sequencer transactions are not skipped

\* extract_external_txs skips as many transactions as agree with the
\* sequencer transactions in place.
ExternalTxs(j) ==
  LET agreeing == {i \in DOMAIN Sequencer : i \in DOMAIN txs[j] /\ txs[j][i] = Sequencer[i]}
  IN SubSeq(txs[j], Cardinality(agreeing) + 1, Len(txs[j]))

\* The vanilla builder adds the transactions of the attributes by itself.
VanillaPayload(j) ==
  LET all == Sequencer \o ExternalTxs(j)
  IN [txs |-> all, executed |-> all]

\* build_payload: the latest barrier's built payload if there is one.
FinalPayload(j) == IF built[j] = None THEN VanillaPayload(j) ELSE built[j]

\* The job ends with a payload, or fails because a block could not be built.
EndJob(j, outcome) ==
  /\ phase[j] = "running"
  /\ phase' = [phase EXCEPT ![j] = "ending"]
  /\ result' = [result EXCEPT ![j] = outcome]
  /\ UNCHANGED <<shared, payload, draft, accepted, overlapped>>

FinishJob(j) == EndJob(j, FinalPayload(j))

FailJob(j) == EndJob(j, None)

SkipReset(j) ==  \* mutant: the counter is not reset
  /\ phase[j] = "ending"
  /\ phase' = [phase EXCEPT ![j] = "reset"]
  /\ UNCHANGED <<shared, payload, draft, result, accepted, overlapped>>

\* after_job, whatever the job's outcome, resets the counter ...
ResetNumber(j) ==
  /\ phase[j] = "ending"
  /\ phase' = [phase EXCEPT ![j] = "reset"]
  /\ block_number' = 0
  /\ UNCHANGED <<list, block_base, payload, draft, result, accepted, overlapped>>

\* ... and the base, of whichever job it is.
ResetBase(j) ==
  /\ phase[j] = "reset"
  /\ phase' = [phase EXCEPT ![j] = "done"]
  /\ block_base' = None
  /\ UNCHANGED <<list, block_number, payload, draft, result, accepted, overlapped>>

PublishNext ==
  \/ \E j \in Job :
       \/ StartJob(j)
       \/ \E tx \in Tx : AppendOrder(j, tx)
       \/ BuildBlock(j) \/ TakeSpan(j) \/ TakeNumber(j) \/ TakeBase(j) \/ Publish(j)
       \/ FinishJob(j) \/ FailJob(j)
       \/ ResetNumber(j) \/ ResetBase(j)
  \/ \E fb \in RemoteFlashblock : RemotePush(fb)

PublishSpec == PublishInit /\ [][PublishNext]_vars

-----------------------------------------------------------------------------
Block == [txs : Seq(Tx), executed : Seq(Tx)]

TypeOK ==
  /\ WellFormed(list)
  /\ block_number \in 0 .. MaxPublishes
  /\ block_base \in {Jobs[j].base : j \in Job} \cup {None}
  /\ phase \in [Job -> Phase]
  /\ txs \in [Job -> Seq(Tx)]
  /\ barrier \in [Job -> Nat] /\ \A j \in Job : barrier[j] <= Len(txs[j])
  /\ built \in [Job -> Block \cup {None}]
  /\ result \in [Job -> Block \cup {None}]
  /\ accepted \in [Job -> Nat]
  /\ overlapped \subseteq Job

Alone(j) == j \notin overlapped

(***************************************************************************)
(* When the last running job has ended, the next one finds the step as it  *)
(* was created (publish_flashblocks.rs:254-267), in whatever order         *)
(* overlapping jobs set, moved and reset what they share.                  *)
(***************************************************************************)
QuiescentIsReset ==
  (\A j \in Job : ~Active(j)) => block_number = 0 /\ block_base = None

(***************************************************************************)
(* The block that goes with a published flashblock has executed all of its *)
(* transactions, the sequencer transactions of the prologue included       *)
(* (publish_flashblocks.rs:542-561): its receipts, gas and state come from *)
(* the previous block and the unpublished span, its transactions from the  *)
(* history, and the two must agree after any sequence of failed publishes. *)
(***************************************************************************)
BuiltExecutesItsTxs ==
  \A j \in Job : Alone(j) /\ built[j] # None => built[j].executed = built[j].txs

(***************************************************************************)
(* What a job has published, put together by reduce and TryFrom, names the *)
(* latest block the job built and has that block's transactions and        *)
(* execution (publish_flashblocks.rs:93-98, 142-184, 211-216 and           *)
(* primitives.rs:383-488): nothing lost to a failed publish, nothing sent  *)
(* twice.  The header computed for it is not the builder's: it has no      *)
(* beacon root and no requests hash, and reduce leaves the access list at  *)
(* the first flashblock's, so it is the block's only for one flashblock.   *)
(***************************************************************************)
ReducesToBuilt ==
  \A j \in Job : Alone(j) /\ PayloadIdOf(list) = Jobs[j].payload_id =>
    /\ Reduce(list).block_hash = built[j]
    /\ BlockOf(list).txs = built[j].txs
    /\ BlockOf(list).header.transactions_root = built[j].txs
    /\ BlockOf(list).header.executed = built[j].executed
    /\ BlockOf(list).header.base = Jobs[j].base
    /\ Len(list) = 1 => BlockOf(list).access_list = built[j].txs

(***************************************************************************)
(* Counter, base and collection stay in step (publish_flashblocks.rs:      *)
(* 155-184, 254-267 and primitives.rs:561-593): as long as the collection  *)
(* is at this job's payload or at an earlier one, it accepts the job's     *)
(* next flashblock; only a competing builder makes a publish fail.         *)
(***************************************************************************)
OnlyCompetitionRejects ==
  \A j \in Job : Alone(j) /\ phase[j] = "based" =>
    \/ Accepts(list, draft[j])
    \/ /\ PayloadIdOf(list) # Jobs[j].payload_id
       /\ BaseOf(list).timestamp >= Jobs[j].base.timestamp

(***************************************************************************)
(* A job ends with what it published; if it published nothing, with all of *)
(* its transactions, and with each of them once (platform.rs:71-89,        *)
(* 166-198).  Overlapping jobs do not change that.                         *)
(***************************************************************************)
ResultIsWhole ==
  \A j \in Job : result[j] # None =>
    /\ result[j].txs = IF accepted[j] > 0 THEN SubSeq(txs[j], 1, barrier[j]) ELSE txs[j]
    /\ \A i, k \in DOMAIN result[j].txs : result[j].txs[i] = result[j].txs[k] => i = k

=============================================================================
