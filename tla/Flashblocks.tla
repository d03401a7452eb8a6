---------------------------- MODULE Flashblocks ----------------------------
(***************************************************************************)
(* The collection `Flashblocks` (flashblocks/primitives.rs): the           *)
(* flashblocks of one payload, as a sequence.  Slot k of the Vec is        *)
(* element k + 1.                                                          *)
(*                                                                         *)
(* A flashblock has a payload_id, an index, and a base that is None or a   *)
(* record with a timestamp and a parent_hash.  Reduce reads four fields    *)
(* more, the parts of its diff: txs, access_list, block_hash (the block    *)
(* itself stands for its hash), and executed, the transactions behind its  *)
(* state, receipts and withdrawals root, its bloom and its gas.            *)
(***************************************************************************)
EXTENDS Integers, Sequences

CONSTANTS
  NoPayload,   \* PayloadId::default()
  None,        \* Option::None
  ZeroHash     \* B256::ZERO, the parent hash of the default base

\* Flashblocks::default: one flashblock with the default id and base.
DefaultFlashblocks ==
  << [payload_id |-> NoPayload, index |-> 0, oversize |-> FALSE,
      base |-> [timestamp |-> 0, parent_hash |-> ZeroHash]] >>

PayloadIdOf(list) == Head(list).payload_id

BaseOf(list) == Head(list).base

StartsNewPayloadAnyTime(list, fb) ==  \* mutant: the timestamps are not compared
  fb.payload_id # PayloadIdOf(list) /\ fb.index = 0 /\ fb.base # None

\* is_new_payload returns Ok(true).
StartsNewPayload(list, fb) ==
  /\ fb.payload_id # PayloadIdOf(list)
  /\ fb.index = 0
  /\ fb.base # None
  /\ fb.base.timestamp > BaseOf(list).timestamp

ContinuesPayloadAnyIndex(list, fb) ==  \* mutant: the index is not checked
  fb.payload_id = PayloadIdOf(list)

\* is_new_payload returns Ok(false).
ContinuesPayload(list, fb) ==
  /\ fb.payload_id = PayloadIdOf(list)
  /\ fb.index = Len(list)

\* is_new_payload, and with it push, succeeds.
Accepts(list, fb) == StartsNewPayload(list, fb) \/ ContinuesPayload(list, fb)

\* push of an accepted flashblock.
Push(list, fb) ==
  IF StartsNewPayload(list, fb) THEN <<fb>> ELSE Append(list, fb)

(***************************************************************************)
(* Flashblocks::new succeeds: the documented guarantee (primitives.rs:     *)
(* 490-494), with what base() and payload_id() unwrap.                     *)
(***************************************************************************)
WellFormed(list) ==
  /\ list # <<>>
  /\ Head(list).base # None
  /\ \A k \in 1 .. Len(list) :
       /\ list[k].payload_id = Head(list).payload_id
       /\ list[k].index = k - 1

-----------------------------------------------------------------------------
ReduceStepKeepingRoots(acc, next) ==  \* mutant: roots, bloom and gas stay the first one's
  [acc EXCEPT !.index = next.index,
              !.base = IF acc.base = None THEN next.base ELSE @,
              !.block_hash = next.block_hash,
              !.txs = @ \o next.txs]

\* One iteration of reduce; payload_id and access_list stay those of the first.
ReduceStep(acc, next) ==
  [acc EXCEPT !.index = next.index,
              !.base = IF acc.base = None THEN next.base ELSE @,
              !.block_hash = next.block_hash,
              !.executed = next.executed,
              !.txs = @ \o next.txs]

\* Flashblock::reduce of a collection.
Reduce(list) ==
  LET acc[k \in DOMAIN list] ==
        IF k = 1 THEN Head(list) ELSE ReduceStep(acc[k - 1], list[k])
  IN acc[Len(list)]

\* TryFrom<Flashblock> computes a header of its own, from base and diff; the
\* base stands for the eight fields it is copied to, txs for their root, the
\* access list for its hash.  None is the error of a missing base.
BlockOfReduced(fb) ==
  IF fb.base = None THEN None
  ELSE [header |-> [base |-> fb.base,
                    transactions_root |-> fb.txs,
                    executed |-> fb.executed,
                    parent_beacon_block_root |-> None,
                    requests_hash |-> None,
                    blob_gas_used |-> 0,
                    block_access_list_hash |-> fb.access_list],
        txs |-> fb.txs,
        access_list |-> fb.access_list]

\* TryFrom<Flashblocks>: the block that a collection stands for.
BlockOf(list) == BlockOfReduced(Reduce(list))

=============================================================================
