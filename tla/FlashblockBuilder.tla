------------------------- MODULE FlashblockBuilder -------------------------
(***************************************************************************)
(* How a follower executes the flashblocks of a payload                    *)
(* (flashblocks/builder.rs), against the builder that executed them first  *)
(* (step/publish_flashblocks.rs).                                          *)
(*                                                                         *)
(* The builder executes transactions one after another.  The follower      *)
(* executes those of a flashblock in parallel: each reads the state from   *)
(* before the flashblock, overridden by what the block access list says    *)
(* earlier transactions wrote.  Accounts and storage slots are keys.  What *)
(* executing a transaction does is a function of the state it reads.       *)
(***************************************************************************)
EXTENDS Integers, Sequences, SequencesExt

CONSTANTS
  Key, Value,
  Parent,          \* the state of the parent block
  SystemWrites,    \* what the pre-execution system calls write
  Tx,
  Deposit,         \* the deposit transactions
  Signer,          \* the key a transaction's deposit nonce is read from
  Tip,             \* effective_tip_per_gas
  Effect,          \* Effect[tx][s]: what tx writes and how much gas it uses in s
  GasLimit,        \* gas_limit of the flashblocks' base
  None,
  MaxTxs,          \* bound on the transactions of the block
  MaxFlashblocks   \* bound on its flashblocks

State == [Key -> Value]

\* A change lists the keys written.
Change == UNION {[K -> Value] : K \in SUBSET Key}

\* A block access list has, for each account or slot, the values written to it
\* with the index of the writer, in the order in which they were appended.
AccessList == [Key -> Seq([index : Nat, value : Value])]

\* A block under construction, or the payload built from it.
Block ==
  [txs : Seq(Tx),
   receipts : Seq([deposit_nonce : Value \cup {None}, cumulative_gas_used : Nat]),
   bundle : Change, gas_used : Nat, fees : Nat,
   access_list : AccessList]

ASSUME BuilderAssumption ==
  /\ Parent \in State
  /\ SystemWrites \in Change
  /\ Deposit \subseteq Tx
  /\ Signer \in [Tx -> Key]
  /\ Tip \in [Tx -> Nat]
  /\ Effect \in [Tx -> [State -> [writes : Change, gas : Nat]]]
  /\ GasLimit \in Nat \ {0}
  /\ MaxTxs \in Nat /\ MaxFlashblocks \in Nat
  /\ None \notin Block

VARIABLES
  building,   \* the block under construction at the builder
  span,       \* its transactions since the last flashblock
  published,  \* the flashblocks published so far, each with the block it was cut from
  followed,   \* how many of them the follower has executed
  committed   \* latest_payload of the follower

vars == <<building, span, published, followed, committed>>

\* What `over` and `under` say together; `over` decides on what both have.
\* (The @@ of module TLC, which the provers do not know.)
Override(over, under) ==
  [k \in DOMAIN over \cup DOMAIN under |-> IF k \in DOMAIN over THEN over[k] ELSE under[k]]

\* The state of a block with this bundle.
StateOf(bundle) == Override(bundle, Parent)

EmptyList == [k \in Key |-> <<>>]

\* The access list of one change; index 0 is for the system calls, index i for
\* transaction i.
AccessListEntries(change, i) ==
  [k \in Key |-> IF k \in DOMAIN change THEN <<[index |-> i, value |-> change[k]]>> ELSE <<>>]

\* Extending an access list appends to the writes of every account and slot,
\* the ones it has already included.
Extend(list, other) == [k \in Key |-> list[k] \o other[k]]

\* What an access list says, whatever the order and however often.
Entries(list) ==
  UNION {{[key |-> k, index |-> w.index, value |-> w.value] : w \in ToSet(list[k])} : k \in Key}

Receipt(tx, nonce, cumulative) ==
  [deposit_nonce |-> IF tx \in Deposit THEN nonce ELSE None,
   cumulative_gas_used |-> cumulative]

\* The miner's fee; a deposit pays none.
Fee(tx, gas) == IF tx \in Deposit THEN 0 ELSE Tip[tx] * gas

-----------------------------------------------------------------------------
\* The builder starts from the base bundle, which has the system calls' writes.
EmptyBlock ==
  [txs |-> <<>>, receipts |-> <<>>, bundle |-> SystemWrites, gas_used |-> 0, fees |-> 0,
   access_list |-> AccessListEntries(SystemWrites, 0)]

BuilderInit ==
  /\ building = EmptyBlock
  /\ span = <<>>
  /\ published = <<>>
  /\ followed = 0
  /\ committed = None

\* The block with one more transaction, executed on the checkpoint before it.
Execute(block, tx) ==
  LET read == StateOf(block.bundle)
      effect == Effect[tx][read]
      gas == block.gas_used + effect.gas
  IN [txs |-> Append(block.txs, tx),
      receipts |-> Append(block.receipts, Receipt(tx, read[Signer[tx]], gas)),
      bundle |-> Override(effect.writes, block.bundle),
      gas_used |-> gas,
      fees |-> block.fees + Fee(tx, effect.gas),
      access_list |-> Extend(block.access_list,
                             AccessListEntries(effect.writes, Len(block.txs) + 1))]

ExecuteTx(tx) ==
  /\ Len(building.txs) < MaxTxs
  /\ building' = Execute(building, tx)
  /\ span' = Append(span, tx)
  /\ UNCHANGED <<published, followed, committed>>

\* A flashblock has the transactions of its span; its access list and what its
\* block hash is computed from are those of the whole block.
PublishFlashblock ==
  /\ Len(published) < MaxFlashblocks
  /\ published' = Append(published, [txs |-> span, block |-> building])
  /\ span' = <<>>
  /\ UNCHANGED <<building, followed, committed>>

\* What the builder's block hash is computed from.
BuilderHeader(block) ==
  [txs |-> block.txs, receipts |-> block.receipts, state |-> StateOf(block.bundle),
   gas_used |-> block.gas_used, access_list |-> block.access_list,
   gas_limit |-> GasLimit]

-----------------------------------------------------------------------------
\* What the execution of a flashblock starts from.
Prestate ==
  IF committed # None THEN committed
  ELSE [txs |-> <<>>, receipts |-> <<>>, bundle |-> <<>>, gas_used |-> 0, fees |-> 0,
        access_list |-> EmptyList]

TransactionsOffsetOffByOne ==  \* mutant: the system calls' index is not counted
  Len(Prestate.txs)

\* The index of the flashblock's first transaction in the block's access list.
TransactionsOffset == Len(Prestate.txs) + 1

\* The system calls are applied before the first flashblock's transactions, to
\* a state that the parallel executions do not share.
PreExecution == IF committed = None THEN SystemWrites ELSE <<>>

AccessListBeforeForgetting ==  \* mutant: the entries of earlier flashblocks are dropped
  AccessListEntries(PreExecution, 0)

\* The list that every parallel execution starts from.
AccessListBefore == Extend(Prestate.access_list, AccessListEntries(PreExecution, 0))

\* What index i reads: the latest write listed before it, or else the base.
Read(base, access_list, i) ==
  LET Before(k) == {w \in ToSet(access_list[k]) : w.index < i}
      Latest(k) == CHOOSE w \in Before(k) : \A v \in Before(k) : v.index <= w.index
  IN [k \in Key |-> IF Before(k) = {} THEN base[k] ELSE Latest(k).value]

\* The parallel execution of a flashblock: one result per transaction, with the
\* prestate's bundle in the bundle of each, and the list of all that came before
\* the flashblock in the access list of each.  The nonce of a deposit is read
\* from the state that the system calls were applied to.
ParallelResults(fb) ==
  [i \in 1 .. Len(fb.txs) |->
     LET tx == fb.txs[i]
         index == TransactionsOffset + i - 1
         base == StateOf(Prestate.bundle)
         effect == Effect[tx][Read(base, fb.block.access_list, index)]
     IN [tx |-> tx,
         bundle |-> Override(effect.writes, Prestate.bundle),
         gas |-> effect.gas,
         nonce |-> Read(Override(PreExecution, base), fb.block.access_list, index)[Signer[tx]],
         access_list |-> Extend(AccessListBefore, AccessListEntries(effect.writes, index))]]

MergeEarliestWins(payload, result) ==  \* mutant: a later bundle does not replace an earlier one
  LET gas == payload.gas_used + result.gas
  IN [txs |-> Append(payload.txs, result.tx),
      receipts |-> Append(payload.receipts, Receipt(result.tx, result.nonce, gas)),
      bundle |-> Override(payload.bundle, result.bundle),
      gas_used |-> gas,
      fees |-> payload.fees + Fee(result.tx, result.gas),
      access_list |-> Extend(payload.access_list, result.access_list)]

\* The results are merged in the order of their indices.
Merge(payload, result) ==
  LET gas == payload.gas_used + result.gas
  IN [txs |-> Append(payload.txs, result.tx),
      receipts |-> Append(payload.receipts, Receipt(result.tx, result.nonce, gas)),
      bundle |-> Override(result.bundle, payload.bundle),
      gas_used |-> gas,
      fees |-> payload.fees + Fee(result.tx, result.gas),
      access_list |-> Extend(payload.access_list, result.access_list)]

BuildForgettingReceipts(fb) ==  \* mutant: the receipts start from nothing
  FoldLeft(Merge, [Prestate EXCEPT !.access_list = EmptyList, !.receipts = <<>>],
           ParallelResults(fb))

\* FlashblockBuilder::build.  The access list is that of the results alone.
Build(fb) ==
  FoldLeft(Merge, [Prestate EXCEPT !.access_list = EmptyList], ParallelResults(fb))

\* The attributes of the follower carry no gas limit.
FollowerHeader(payload) ==
  [txs |-> payload.txs, receipts |-> payload.receipts,
   state |-> StateOf(payload.bundle), gas_used |-> payload.gas_used,
   access_list |-> payload.access_list, gas_limit |-> 0]

\* The follower executes the next flashblock on the committed payload.
FollowFlashblock ==
  /\ followed < Len(published)
  /\ committed' = Build(published[followed + 1])
  /\ followed' = followed + 1
  /\ UNCHANGED <<building, span, published>>

BuilderNext ==
  \/ \E tx \in Tx : ExecuteTx(tx)
  \/ PublishFlashblock
  \/ FollowFlashblock

BuilderSpec == BuilderInit /\ [][BuilderNext]_vars

-----------------------------------------------------------------------------
IsBlock(b) ==
  /\ b \in Block
  /\ Len(b.receipts) = Len(b.txs)
  /\ \A e \in Entries(b.access_list) : e.index <= Len(b.txs)

\* The types of the variables; a block has one receipt per transaction.
TypeOK ==
  /\ IsBlock(building)
  /\ span \in Seq(Tx)
  /\ \A f \in DOMAIN published : published[f].txs \in Seq(Tx) /\ IsBlock(published[f].block)
  /\ followed \in 0 .. Len(published)
  /\ IF followed = 0 THEN committed = None ELSE IsBlock(committed)

\* The block the follower is at, as its builder had it.
Followed == published[followed].block

\* Executing each flashblock in parallel gives the transactions, receipts
\* (cumulative gas and deposit nonces included), gas and fees of the sequential
\* execution, whatever the transactions read of one another.
ExecutionAgrees ==
  followed > 0 =>
    /\ committed.txs = Followed.txs
    /\ committed.receipts = Followed.receipts
    /\ committed.gas_used = Followed.gas_used
    /\ committed.fees = Followed.fees

\* The follower's access list says what the builder's says, unless a flashblock
\* had no transactions: then nothing carries the earlier entries over.  It is
\* the builder's list, and has its hash, if every flashblock had one transaction:
\* of several, each appends the entries from before the flashblock once more
\* (builder.rs:346-360).
AccessListAgreesUnlessRepeated ==
  followed > 0 =>
    /\ (\A f \in 1 .. followed : published[f].txs # <<>>)
         => Entries(committed.access_list) = Entries(Followed.access_list)
    /\ (\A f \in 1 .. followed : Len(published[f].txs) = 1)
         => committed.access_list = Followed.access_list

\* The follower's state has the last write of a transaction to each key, unless
\* that write was followed by another transaction of its flashblock and an
\* earlier flashblock had written the key too: the bundles of later results
\* contain the prestate's value and replace it.
StateAgreesUnlessReplaced ==
  followed > 0 =>
    \A k \in Key :
      LET writes == {e.index : e \in {w \in Entries(Followed.access_list) :
                                        w.key = k /\ w.index > 0}}
          last == CHOOSE i \in writes : \A j \in writes : j <= i
          ends == {Len(published[f].block.txs) : f \in 1 .. followed}
          writtenBefore == \E i \in writes, e \in ends : i <= e /\ e < last
      IN (writes # {} /\ (last \in ends \/ ~writtenBefore))
           => k \in DOMAIN committed.bundle /\ committed.bundle[k] = Followed.bundle[k]

\* The debug assertion of process_flashblock: the executed block has the hash
\* that the builder published.  Violated: see the README.
BlockHashAgrees ==
  followed > 0 => FollowerHeader(committed) = BuilderHeader(Followed)

=============================================================================
