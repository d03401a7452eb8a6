--------------------------- MODULE FlattenReverts ---------------------------
(***************************************************************************)
(* The reverts of a block built in several flashblocks.                    *)
(*                                                                         *)
(* build_op_built_payload starts from the bundle of the previous           *)
(* flashblock, extends it with the state of every unpublished checkpoint,  *)
(* and flattens all reverts into one transition                            *)
(* (step/publish_flashblocks.rs).  A revert says how to undo a change; to  *)
(* say what flattening is for, the accounts themselves are modelled, and   *)
(* undoing the flattened reverts must give the accounts of the parent      *)
(* block.                                                                  *)
(***************************************************************************)
EXTENDS Integers, Sequences, SequencesExt

CONSTANTS
  Address,
  StorageSlot,
  AccountInfo,     \* balance, nonce and code of an account
  NoAccount,       \* the account does not exist
  Value,           \* values of storage slots
  Status,          \* AccountStatus
  Account,         \* the accounts that occur: [info, storage, status]
  MaxTransitions   \* bound on the transitions waiting to be flattened

ASSUME RevertsAssumption ==
  /\ NoAccount \notin AccountInfo
  /\ Account \subseteq [info : AccountInfo \cup {NoAccount},
                        storage : [StorageSlot -> Value],
                        status : Status]
  /\ MaxTransitions \in Nat

VARIABLES
  parent,       \* the accounts of the parent block
  accounts,     \* the accounts after all checkpoints so far
  published,    \* bundle.reverts of the previous flashblock
  unpublished,  \* the reverts of the checkpoints since then, one transition each
  wiped         \* history: accounts whose storage was wiped in this block

vars == <<parent, accounts, published, unpublished, wiped>>

\* The AccountInfoRevert that leads from `new` back to `old`.
InfoRevert(old, new) ==
  IF new.info = old.info THEN [kind |-> "DoNothing"]
  ELSE IF old.info = NoAccount THEN [kind |-> "DeleteIt"]
  ELSE [kind |-> "RevertTo", info |-> old.info]

\* The AccountRevert of one change; only changed slots are listed.
AccountRevert(old, new, wipe) ==
  [account |-> InfoRevert(old, new),
   storage |-> [slot \in {s \in StorageSlot : old.storage[s] # new.storage[s]} |->
                  old.storage[slot]],
   previous_status |-> old.status,
   wipe_storage |-> wipe]

\* What `over` and `under` say together; `over` decides on what both have.
\* (The @@ of module TLC, which the provers do not know.)
Override(over, under) ==
  [k \in DOMAIN over \cup DOMAIN under |-> IF k \in DOMAIN over THEN over[k] ELSE under[k]]

-----------------------------------------------------------------------------
MergeKeepsLatest(first, later) ==  \* mutant: later reverts overwrite earlier ones
  [account |-> IF later.account.kind = "DoNothing" THEN first.account ELSE later.account,
   storage |-> Override(later.storage, first.storage),
   previous_status |-> first.previous_status,
   wipe_storage |-> first.wipe_storage \/ later.wipe_storage]

MergeForgetsWipe(first, later) ==  \* mutant: wipe_storage of the first transition only
  [account |-> IF first.account.kind = "DoNothing" THEN later.account ELSE first.account,
   storage |-> Override(first.storage, later.storage),
   previous_status |-> first.previous_status,
   wipe_storage |-> first.wipe_storage]

\* An account met before: the earliest of everything, but any wipe.
Merge(first, later) ==
  [account |-> IF first.account.kind = "DoNothing" THEN later.account ELSE first.account,
   storage |-> Override(first.storage, later.storage),
   previous_status |-> first.previous_status,
   wipe_storage |-> first.wipe_storage \/ later.wipe_storage]

MergeTransition(merged, transition) ==
  [a \in DOMAIN merged \cup DOMAIN transition |->
     IF a \notin DOMAIN transition THEN merged[a]
     ELSE IF a \notin DOMAIN merged THEN transition[a]
     ELSE Merge(merged[a], transition[a])]

\* flatten_reverts.
Flatten(reverts) == << FoldLeft(MergeTransition, <<>>, reverts) >>

-----------------------------------------------------------------------------
\* What a revert does to an account.
UndoAccount(account, revert) ==
  [info |-> CASE revert.account.kind = "DoNothing" -> account.info
              [] revert.account.kind = "DeleteIt"  -> NoAccount
              [] revert.account.kind = "RevertTo"  -> revert.account.info,
   storage |-> Override(revert.storage, account.storage),
   status |-> revert.previous_status]

UndoTransition(transition, state) ==
  [a \in Address |-> IF a \in DOMAIN transition THEN UndoAccount(state[a], transition[a])
                                                ELSE state[a]]

\* The latest transition is undone first.
Undo(reverts, state) == FoldRight(UndoTransition, reverts, state)

-----------------------------------------------------------------------------
RevertsInit ==
  /\ parent \in [Address -> Account]
  /\ accounts = parent
  /\ published = <<>>
  /\ unpublished = <<>>
  /\ wiped = {}

\* A checkpoint changes some accounts; its state extends the bundle.
Checkpoint ==
  /\ Len(published) + Len(unpublished) < MaxTransitions
  /\ \E changed \in SUBSET Address \ {{}}, wipe \in SUBSET Address,
        new \in [Address -> Account] :
       /\ wipe \subseteq changed
       /\ \A a \in Address \ changed : new[a] = accounts[a]
       /\ accounts' = new
       /\ unpublished' =
            Append(unpublished,
                   [a \in changed |-> AccountRevert(accounts[a], new[a], a \in wipe)])
       /\ wiped' = wiped \cup wipe
  /\ UNCHANGED <<parent, published>>

BlockReverts == Flatten(published \o unpublished)

\* A flashblock is built and published; the next one starts from its bundle.
PublishFlashblock ==
  /\ unpublished # <<>>
  /\ published' = BlockReverts
  /\ unpublished' = <<>>
  /\ UNCHANGED <<parent, accounts, wiped>>

RevertsNext == Checkpoint \/ PublishFlashblock

RevertsSpec == RevertsInit /\ [][RevertsNext]_vars

-----------------------------------------------------------------------------
(***************************************************************************)
(* The flattened reverts undo the block (publish_flashblocks.rs:355-365,   *)
(* 697-741): applied to the accounts after any number of checkpoints,      *)
(* flattened once or at every flashblock in between, they give the         *)
(* accounts of the parent block.                                           *)
(***************************************************************************)
FlattenedUndoesTheBlock == Undo(BlockReverts, accounts) = parent

(***************************************************************************)
(* "If any transition wiped storage, the block-level revert must reflect   *)
(* it" (publish_flashblocks.rs:717-719), across flashblocks, and no other  *)
(* account's revert claims a wipe.                                         *)
(***************************************************************************)
WipesAreReflected ==
  LET block == Head(BlockReverts)
  IN {a \in DOMAIN block : block[a].wipe_storage} = wiped

=============================================================================
