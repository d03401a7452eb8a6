---------------------- MODULE PublishFlashblockProofs ----------------------
(***************************************************************************)
(* Proofs about PublishFlashblock, for all jobs, transactions and bounds.  *)
(***************************************************************************)
EXTENDS PublishFlashblock, FiniteSetTheorems, SequenceTheorems, WellFoundedInduction, TLAPS

IsSequence(s) == s \in Seq({s[k] : k \in DOMAIN s})

\* before_job has run, after_job has not.
Running(j) == phase[j] \in {"running", "built", "spanned", "numbered", "based"}

\* What the jobs that run find in `draft`.
DraftOK ==
  \A j \in Job :
    /\ phase[j] \in {"built", "spanned", "numbered"} =>
         draft[j].block \in Block /\ draft[j].block.txs = txs[j]
    /\ phase[j] \in {"numbered", "based"} => draft[j].index \in Nat
    /\ phase[j] = "based" =>
         /\ draft[j].block_hash \in Block /\ draft[j].block_hash.txs = txs[j]
         /\ draft[j].payload_id = Jobs[j].payload_id
         /\ draft[j].base \in {Jobs[k].base : k \in Job} \cup {None}

Types ==
  /\ TypeOK
  /\ IsSequence(list) /\ BaseOf(list).timestamp \in Nat
  /\ draft \in [Job -> {draft[j] : j \in Job}]
  /\ DraftOK

\* The counter after the last job to run has reset it.
NumberIsReset == (\A j \in Job : Active(j) => phase[j] = "reset") => block_number = 0

\* The transactions of a job begin with the sequencer's and do not repeat.
History ==
  \A j \in Job : phase[j] # "waiting" =>
    /\ \A i \in DOMAIN Sequencer : i \in DOMAIN txs[j] /\ txs[j][i] = Sequencer[i]
    /\ \A i, k \in DOMAIN txs[j] : txs[j][i] = txs[j][k] => i = k

\* A job has a built payload once it has published, and not before.
PublishedIsBuilt ==
  \A j \in Job :
    /\ built[j] = None => accepted[j] = 0 /\ PayloadIdOf(list) # Jobs[j].payload_id
    /\ built[j] # None =>
         accepted[j] > 0 /\ built[j].txs = SubSeq(txs[j], 1, barrier[j])
    /\ phase[j] = "waiting" => built[j] = None
    /\ result[j] # None => phase[j] \in {"ending", "reset", "done"}

\* What holds of all jobs, whichever run at the same time.
SharedInv == Types /\ NumberIsReset /\ QuiescentIsReset /\ History /\ PublishedIsBuilt /\ ResultIsWhole

OverlapNoted ==
  /\ \A j, k \in Job : j # k /\ Active(j) /\ Active(k) => j \in overlapped
  /\ \A j \in Job : phase[j] = "waiting" => j \notin overlapped

\* The counter that the job's next flashblock has or will get.
Spent(j) == IF phase[j] \in {"numbered", "based"} THEN draft[j].index ELSE block_number

\* The job's built payloads have executed what they list.
Executed(j) ==
  /\ built[j] # None => built[j].executed = built[j].txs
  /\ Running(j) /\ built[j] # None => Spent(j) > 0
  /\ built[j] # None \/ Spent(j) = 0 =>
       /\ phase[j] \in {"built", "spanned", "numbered"} => draft[j].block.executed = txs[j]
       /\ phase[j] = "based" => draft[j].block_hash.executed = txs[j]
  /\ phase[j] \in {"numbered", "based"} => block_number = draft[j].index + 1

\* The job's base, in the step, in its flashblock and in the collection.
OwnBase(j) ==
  /\ Running(j) => block_base = Jobs[j].base
  /\ phase[j] = "based" => draft[j].base = Jobs[j].base
  /\ PayloadIdOf(list) = Jobs[j].payload_id => BaseOf(list) = Jobs[j].base

\* Counter and collection are in step.
InStep(j) ==
  Running(j) =>
    /\ PayloadIdOf(list) = Jobs[j].payload_id => Len(list) = Spent(j)
    /\ (PayloadIdOf(list) # Jobs[j].payload_id
         /\ BaseOf(list).timestamp < Jobs[j].base.timestamp) => Spent(j) = 0

\* What holds of a job that runs alone.
AloneInv == OverlapNoted /\ \A j \in Job : Alone(j) => Executed(j) /\ OwnBase(j) /\ InStep(j)

-----------------------------------------------------------------------------
(***************************************************************************)
(* A sequence over any set is one over its own elements.                   *)
(***************************************************************************)
LEMMA SequenceOfElements ==
  ASSUME NEW S, NEW s \in Seq(S)
  PROVE  IsSequence(s)
  BY DEF IsSequence

(***************************************************************************)
(* What push makes of a well-formed collection (primitives.rs:561-593).    *)
(***************************************************************************)
LEMMA PushFacts ==
  ASSUME NEW s, IsSequence(s), WellFormed(s), NEW fb, Accepts(s, fb)
  PROVE  /\ IsSequence(Push(s, fb)) /\ WellFormed(Push(s, fb))
         /\ PayloadIdOf(Push(s, fb)) = fb.payload_id
         /\ StartsNewPayload(s, fb) => BaseOf(Push(s, fb)) = fb.base /\ Len(Push(s, fb)) = 1
         /\ ~StartsNewPayload(s, fb) =>
              BaseOf(Push(s, fb)) = BaseOf(s) /\ Len(Push(s, fb)) = Len(s) + 1
<1> DEFINE S == {s[k] : k \in DOMAIN s} \cup {fb}
<1>1. s \in Seq(S) /\ fb \in S
  BY DEF IsSequence
<1>2. CASE StartsNewPayload(s, fb)
  <2>1. Push(s, fb) = <<fb>> /\ <<fb>> \in Seq(S)
    BY <1>1, <1>2 DEF Push
  <2>2. IsSequence(<<fb>>)
    BY <2>1, SequenceOfElements
  <2>3. fb.index = 0 /\ fb.base # None
    BY <1>2 DEF StartsNewPayload
  <2> QED  BY <1>2, <2>1, <2>2, <2>3 DEF WellFormed, PayloadIdOf, BaseOf
<1>3. CASE ~StartsNewPayload(s, fb)
  <2>1. ContinuesPayload(s, fb)
    BY <1>3 DEF Accepts
  <2>2. Push(s, fb) = Append(s, fb) /\ Append(s, fb) \in Seq(S)
    BY <1>1, <1>3 DEF Push
  <2>3. IsSequence(Append(s, fb))
    BY <2>2, SequenceOfElements
  <2>4. Head(Append(s, fb)) = Head(s) /\ Len(Append(s, fb)) = Len(s) + 1
    BY <1>1 DEF WellFormed
  <2>5. WellFormed(Append(s, fb))
    BY <1>1, <2>1, <2>4 DEF WellFormed, ContinuesPayload, PayloadIdOf
  <2> QED  BY <1>3, <2>1, <2>2, <2>3, <2>4, <2>5 DEF PayloadIdOf, BaseOf, ContinuesPayload
<1> QED  BY <1>2, <1>3

(***************************************************************************)
(* The counter's bound, and the sequencer transactions.                    *)
(***************************************************************************)
LEMMA BoundFacts ==
  /\ MaxPublishes \in Nat
  /\ Sequencer \in Seq(Tx) /\ Len(Sequencer) \in Nat /\ DOMAIN Sequencer = 1 .. Len(Sequencer)
  /\ \A i, k \in DOMAIN Sequencer : Sequencer[i] = Sequencer[k] => i = k
<1>1. MaxPublishes \in Nat /\ Sequencer \in Seq(Tx)
  BY PublishAssumption
<1>2. \A i, k \in DOMAIN Sequencer : Sequencer[i] = Sequencer[k] => i = k
  BY PublishAssumption
<1> QED  BY <1>1, <1>2

(***************************************************************************)
(* A block is not None.                                                    *)
(***************************************************************************)
LEMMA NoneFacts == None \notin Block
  BY PublishAssumption DEF Block

(***************************************************************************)
(* What the attributes of the jobs and the remote flashblocks satisfy.     *)
(***************************************************************************)
LEMMA JobFacts ==
  /\ NoPayload \notin {Jobs[j].payload_id : j \in Job}
  /\ \A j \in Job : Jobs[j].base # None /\ Jobs[j].base.timestamp \in Nat
  /\ \A j, k \in Job : Jobs[j].payload_id = Jobs[k].payload_id => j = k
  /\ \A fb \in RemoteFlashblock, j \in Job : fb.payload_id # Jobs[j].payload_id
  BY PublishAssumption

(***************************************************************************)
(* The span of a flashblock and what precedes it make up the history.      *)
(***************************************************************************)
LEMMA SpanFacts ==
  ASSUME NEW s \in Seq(Tx), NEW b \in 0 .. Len(s)
  PROVE  /\ SubSeq(s, 1, b) \in Seq(Tx) /\ SubSeq(s, b + 1, Len(s)) \in Seq(Tx)
         /\ SubSeq(s, 1, b) \o SubSeq(s, b + 1, Len(s)) = s
         /\ SubSeq(s, 1, Len(s)) = s
         /\ <<>> \o s = s
         /\ \A e \in Tx : SubSeq(Append(s, e), 1, b) = SubSeq(s, 1, b)
<1>1. SubSeq(s, 1, b) \in Seq(Tx) /\ SubSeq(s, b + 1, Len(s)) \in Seq(Tx)
  OBVIOUS
<1>2. SubSeq(s, 1, b) \o SubSeq(s, b + 1, Len(s)) = s
  <2>1. 1 \in 1 .. Len(s) + 1 /\ b \in (1 - 1) .. Len(s) /\ Len(s) \in b .. Len(s)
    OBVIOUS
  <2>2. SubSeq(s, 1, b) \o SubSeq(s, b + 1, Len(s)) = SubSeq(s, 1, Len(s))
    BY <2>1, ConcatAdjacentSubSeq, Zenon
  <2> QED  BY <2>2, SubSeqFull
<1>3. SubSeq(s, 1, Len(s)) = s /\ <<>> \o s = s
  OBVIOUS
<1>4. ASSUME NEW e \in Tx PROVE SubSeq(Append(s, e), 1, b) = SubSeq(s, 1, b)
  OBVIOUS
<1> QED  BY <1>1, <1>2, <1>3, <1>4

(***************************************************************************)
(* A flashblock that is pushed has a timestamp no earlier than the         *)
(* collection's.                                                           *)
(***************************************************************************)
LEMMA PushedTimestamp ==
  ASSUME IsSequence(list), WellFormed(list), BaseOf(list).timestamp \in Nat,
         NEW fb, Accepts(list, fb), fb.base = None \/ fb.base.timestamp \in Nat
  PROVE  /\ BaseOf(Push(list, fb)).timestamp \in Nat
         /\ StartsNewPayload(list, fb) =>
              BaseOf(Push(list, fb)).timestamp > BaseOf(list).timestamp
<1>1. CASE StartsNewPayload(list, fb)
  BY <1>1, PushFacts DEF StartsNewPayload
<1>2. CASE ~StartsNewPayload(list, fb)
  BY <1>2, PushFacts
<1> QED  BY <1>1, <1>2

(***************************************************************************)
(* The vanilla builder's payload has the job's transactions if they begin  *)
(* with the sequencer's: extract_external_txs skips exactly those          *)
(* (platform.rs:166-198).                                                  *)
(***************************************************************************)
LEMMA VanillaFacts ==
  ASSUME NEW j \in Job, txs[j] \in Seq(Tx)
  PROVE  /\ VanillaPayload(j) \in Block
         /\ (\A i \in DOMAIN Sequencer : i \in DOMAIN txs[j] /\ txs[j][i] = Sequencer[i])
              => VanillaPayload(j).txs = txs[j]
<1> DEFINE agreeing == {i \in DOMAIN Sequencer : i \in DOMAIN txs[j] /\ txs[j][i] = Sequencer[i]}
<1>1. Sequencer \in Seq(Tx) /\ Len(Sequencer) \in Nat /\ DOMAIN Sequencer = 1 .. Len(Sequencer)
  BY BoundFacts
<1>2. IsFiniteSet(1 .. Len(Sequencer)) /\ Cardinality(1 .. Len(Sequencer)) = Len(Sequencer)
  <2>1. 1 \in Int /\ Len(Sequencer) \in Int
    BY <1>1
  <2>2. /\ IsFiniteSet(1 .. Len(Sequencer))
        /\ Cardinality(1 .. Len(Sequencer)) =
             IF 1 > Len(Sequencer) THEN 0 ELSE Len(Sequencer) - 1 + 1
    BY <2>1, FS_Interval, Zenon
  <2> QED  BY <1>1, <2>2
<1>3. IsFiniteSet(agreeing) /\ Cardinality(agreeing) \in Nat
  <2>1. agreeing \in SUBSET (1 .. Len(Sequencer))
    BY <1>1
  <2> HIDE DEF agreeing
  <2>2. IsFiniteSet(agreeing)
    BY <1>2, <2>1, FS_Subset, Zenon
  <2> QED  BY <2>2, FS_CardinalityType, Zenon
<1>4. ExternalTxs(j) = SubSeq(txs[j], Cardinality(agreeing) + 1, Len(txs[j]))
  BY DEF ExternalTxs
<1>5. ExternalTxs(j) \in Seq(Tx)
  <2> DEFINE n == Cardinality(agreeing)
  <2>1. n \in Nat
    BY <1>3
  <2> HIDE DEF n
  <2>2. SubSeq(txs[j], n + 1, Len(txs[j])) \in Seq(Tx)
    BY <2>1
  <2> QED  BY <1>4, <2>2 DEF n
<1>6. Sequencer \o ExternalTxs(j) \in Seq(Tx)
  BY <1>1, <1>5
<1>7. VanillaPayload(j) \in Block /\ VanillaPayload(j).txs = Sequencer \o ExternalTxs(j)
  BY <1>6 DEF VanillaPayload, Block
<1>8. ASSUME \A i \in DOMAIN Sequencer : i \in DOMAIN txs[j] /\ txs[j][i] = Sequencer[i]
      PROVE  Sequencer \o ExternalTxs(j) = txs[j]
  <2>1. agreeing = 1 .. Len(Sequencer)
    BY <1>1, <1>8
  <2>2. ExternalTxs(j) = SubSeq(txs[j], Len(Sequencer) + 1, Len(txs[j]))
    BY <1>2, <1>4, <2>1
  <2>3. Len(Sequencer) \in 0 .. Len(txs[j])
    BY <1>1, <1>8
  <2>4. SubSeq(txs[j], 1, Len(Sequencer)) \in Seq(Tx)
        /\ Len(SubSeq(txs[j], 1, Len(Sequencer))) = Len(Sequencer)
        /\ \A i \in 1 .. Len(Sequencer) : SubSeq(txs[j], 1, Len(Sequencer))[i] = Sequencer[i]
    BY <1>1, <1>8, <2>3
  <2>5. SubSeq(txs[j], 1, Len(Sequencer)) = Sequencer
    BY <1>1, <2>4, SeqEqual
  <2> QED  BY <2>2, <2>3, <2>5, SpanFacts
<1> QED  BY <1>7, <1>8

-----------------------------------------------------------------------------
(***************************************************************************)
(* A job's payload and what it published are well typed initially.         *)
(***************************************************************************)
LEMMA InitSharedInv == PublishInit => SharedInv
<1> SUFFICES ASSUME PublishInit PROVE SharedInv
  OBVIOUS
<1>1. WellFormed(list) /\ IsSequence(list) /\ BaseOf(list).timestamp \in Nat
      /\ PayloadIdOf(list) = NoPayload
  <2>1. list = DefaultFlashblocks /\ BaseOf(DefaultFlashblocks) # None
    BY PublishAssumption DEF PublishInit
  <2>2. Len(list) = 1 /\ list \in Seq({DefaultFlashblocks[1]})
    BY <2>1 DEF DefaultFlashblocks
  <2>3. /\ Head(list) = list[1] /\ list[1].payload_id = NoPayload /\ list[1].index = 0
        /\ list[1].base.timestamp = 0
    BY <2>1 DEF DefaultFlashblocks
  <2>4. IsSequence(list) /\ list # <<>>
    BY <2>2, SequenceOfElements
  <2>5. Head(list).base # None
    BY <2>1 DEF BaseOf
  <2>6. WellFormed(list)
    BY <2>2, <2>3, <2>4, <2>5 DEF WellFormed
  <2> QED  BY <2>3, <2>4, <2>6 DEF BaseOf, PayloadIdOf
<1>2. Types
  BY <1>1, PublishAssumption DEF PublishInit, Types, TypeOK, DraftOK, Phase
<1>3. NumberIsReset /\ QuiescentIsReset /\ History
  BY DEF PublishInit, NumberIsReset, QuiescentIsReset, History
<1>4. PublishedIsBuilt /\ ResultIsWhole
  BY <1>1, JobFacts DEF PublishInit, PublishedIsBuilt, ResultIsWhole
<1> QED  BY <1>2, <1>3, <1>4 DEF SharedInv

(***************************************************************************)
(* Types and drafts, one action at a time.  Building a block takes well    *)
(* typed sequences to well typed sequences.                                *)
(***************************************************************************)
LEMMA TypesStep ==
  ASSUME SharedInv, PublishNext
  PROVE  Types'
<1> USE DEF SharedInv, Types
<1>0. DOMAIN draft = Job /\ phase \in [Job -> Phase] /\ txs \in [Job -> Seq(Tx)]
  BY DEF TypeOK
<1>1. ASSUME NEW j \in Job, StartJob(j) PROVE Types'
  <2>1. Len(Sequencer) \in Nat /\ Sequencer \in Seq(Tx)
    BY BoundFacts
  <2>2. WellFormed(list') /\ block_number' \in 0 .. MaxPublishes
        /\ block_base' \in {Jobs[k].base : k \in Job} \cup {None}
        /\ phase' \in [Job -> Phase] /\ txs' \in [Job -> Seq(Tx)]
    BY <1>0, <1>1, <2>1 DEF StartJob, TypeOK, Phase
  <2>4. barrier' \in [Job -> Nat]
    BY <1>0, <1>1, <2>1 DEF StartJob, TypeOK
  <2>7. ASSUME NEW k \in Job PROVE barrier'[k] <= Len(txs'[k])
    <3>1. CASE k = j
      BY <1>0, <1>1, <2>1, <3>1 DEF StartJob, TypeOK
    <3>2. CASE k # j
      BY <1>0, <1>1, <3>2 DEF StartJob, TypeOK
    <3> QED  BY <3>1, <3>2
  <2>5. overlapped' \subseteq Job
    BY <1>1 DEF StartJob, TypeOK
  <2>6. TypeOK'
    BY <1>1, <2>2, <2>4, <2>5, <2>7 DEF StartJob, TypeOK
  <2>3. DraftOK'
    BY <1>0, <1>1 DEF StartJob, DraftOK
  <2> QED  BY <1>1, <2>6, <2>3 DEF StartJob
<1>2. ASSUME NEW j \in Job, NEW tx \in Tx, AppendOrder(j, tx) PROVE Types'
  <2>1. Append(txs[j], tx) \in Seq(Tx) /\ Len(Append(txs[j], tx)) = Len(txs[j]) + 1
    BY <1>0
  <2>4. txs' \in [Job -> Seq(Tx)]
    BY <1>0, <1>2, <2>1 DEF AppendOrder
  <2>5. ASSUME NEW k \in Job PROVE barrier'[k] <= Len(txs'[k])
    <3>1. CASE k = j
      <4>1. txs'[k] = Append(txs[j], tx) /\ barrier'[k] = barrier[j]
        BY <1>0, <1>2, <3>1 DEF AppendOrder
      <4>2. barrier[j] \in Nat /\ barrier[j] <= Len(txs[j]) /\ Len(txs[j]) \in Nat
        BY <1>0 DEF TypeOK
      <4> QED  BY <2>1, <4>1, <4>2
    <3>2. CASE k # j
      BY <1>0, <1>2, <3>2 DEF AppendOrder, TypeOK
    <3> QED  BY <3>1, <3>2
  <2>2. TypeOK'
    BY <1>0, <1>2, <2>4, <2>5 DEF AppendOrder, TypeOK, shared
  <2>3. DraftOK'
    BY <1>0, <1>2 DEF AppendOrder, DraftOK
  <2> QED  BY <1>2, <2>2, <2>3 DEF AppendOrder, shared
<1>3. ASSUME NEW j \in Job, BuildBlock(j) PROVE Types'
  <2>1. barrier[j] \in 0 .. Len(txs[j]) /\ built[j] \in Block \cup {None}
    BY <1>0 DEF TypeOK
  <2>2. PreviouslyExecuted(j) \in Seq(Tx)
    BY <2>1 DEF PreviouslyExecuted, Block
  <2>3. Unpublished(j) \in Seq(Tx)
    BY <1>0, <2>1, SpanFacts DEF Unpublished
  <2>4. draft'[j].block \in Block /\ draft'[j].block.txs = txs[j]
    BY <1>0, <1>3, <2>2, <2>3 DEF BuildBlock, Block
  <2>5. TypeOK'
    BY <1>0, <1>3 DEF BuildBlock, TypeOK, shared, payload, Phase
  <2>6. DraftOK'
    BY <1>0, <1>3, <2>4 DEF BuildBlock, DraftOK, payload
  <2> QED  BY <1>0, <1>3, <2>5, <2>6 DEF BuildBlock, shared
<1>4. ASSUME NEW j \in Job, TakeSpan(j) PROVE Types'
  <2>1. TypeOK'
    BY <1>0, <1>4 DEF TakeSpan, TypeOK, shared, payload, Phase
  <2>2. DraftOK'
    BY <1>0, <1>4 DEF TakeSpan, DraftOK, payload
  <2> QED  BY <1>0, <1>4, <2>1, <2>2 DEF TakeSpan, shared
<1>5. ASSUME NEW j \in Job, TakeNumber(j) PROVE Types'
  <2>4. block_number \in 0 .. MaxPublishes /\ block_number < MaxPublishes
    BY <1>5 DEF TakeNumber, TypeOK
  <2>1. block_number \in Nat /\ block_number + 1 \in 0 .. MaxPublishes
    BY <2>4, BoundFacts
  <2>2. TypeOK'
    BY <1>0, <1>5, <2>1 DEF TakeNumber, TypeOK, payload, Phase
  <2>3. DraftOK'
    BY <1>0, <1>5, <2>1 DEF TakeNumber, DraftOK, payload
  <2> QED  BY <1>0, <1>5, <2>2, <2>3 DEF TakeNumber
<1>6. ASSUME NEW j \in Job, TakeBase(j) PROVE Types'
  <2>1. TypeOK'
    BY <1>0, <1>6 DEF TakeBase, TypeOK, shared, payload, Phase
  <2>2. DraftOK'
    BY <1>0, <1>6 DEF TakeBase, DraftOK, TypeOK, payload
  <2> QED  BY <1>0, <1>6, <2>1, <2>2 DEF TakeBase, shared
<1>7. ASSUME NEW j \in Job, Publish(j) PROVE Types'
  <2>1. DraftOK'
    BY <1>0, <1>7 DEF Publish, DraftOK
  <2>2. CASE Accepts(list, draft[j])
    <3>1. IsSequence(list') /\ WellFormed(list')
      BY <1>7, <2>2, PushFacts DEF Publish, TypeOK
    <3>2. draft[j].base = None \/ draft[j].base.timestamp \in Nat
      BY <1>7, JobFacts DEF Publish, DraftOK
    <3>3. BaseOf(list').timestamp \in Nat
      BY <1>7, <2>2, <3>2, PushedTimestamp DEF Publish, TypeOK
    <3>4. Len(txs[j]) \in Nat /\ draft[j].block_hash \in Block
      BY <1>0, <1>7 DEF Publish, DraftOK
    <3>6. barrier' \in [Job -> Nat] /\ \A k \in Job : barrier'[k] <= Len(txs'[k])
      <4>1. barrier' = [barrier EXCEPT ![j] = Len(txs[j])] /\ txs' = txs
        BY <1>7, <2>2 DEF Publish
      <4>2. barrier \in [Job -> Nat] /\ \A k \in Job : barrier[k] <= Len(txs[k])
        BY DEF TypeOK
      <4> QED  BY <3>4, <4>1, <4>2
    <3>7. built' \in [Job -> Block \cup {None}]
      BY <1>0, <1>7, <2>2, <3>4 DEF Publish, TypeOK
    <3>8. accepted \in [Job -> Nat] /\ accepted' = [accepted EXCEPT ![j] = @ + 1]
      BY <1>7, <2>2 DEF Publish, TypeOK
    <3>9. accepted' \in [Job -> Nat]
      BY <3>8
    <3>5. TypeOK'
      BY <1>0, <1>7, <2>2, <3>1, <3>6, <3>7, <3>9 DEF Publish, TypeOK, Phase
    <3> QED  BY <1>0, <1>7, <2>1, <3>1, <3>3, <3>5 DEF Publish
  <2>3. CASE ~Accepts(list, draft[j])
    <3>1. TypeOK'
      BY <1>0, <1>7, <2>3 DEF Publish, TypeOK, Phase
    <3> QED  BY <1>0, <1>7, <2>1, <2>3, <3>1 DEF Publish
  <2> QED  BY <2>2, <2>3
<1>8. ASSUME NEW fb \in RemoteFlashblock, RemotePush(fb) PROVE Types'
  <2>1. IsSequence(list') /\ WellFormed(list')
    BY <1>8, PushFacts DEF RemotePush, TypeOK
  <2>2. BaseOf(list').timestamp \in Nat
    BY <1>8, PushedTimestamp, PublishAssumption DEF RemotePush, TypeOK
  <2>3. TypeOK' /\ DraftOK'
    BY <1>8, <2>1 DEF RemotePush, TypeOK, DraftOK, payload
  <2> QED  BY <1>8, <2>1, <2>2, <2>3 DEF RemotePush
<1>9. ASSUME NEW j \in Job, NEW outcome \in Block \cup {None}, EndJob(j, outcome) PROVE Types'
  <2>1. TypeOK'
    BY <1>0, <1>9 DEF EndJob, TypeOK, shared, payload, Phase
  <2>2. DraftOK'
    BY <1>0, <1>9 DEF EndJob, DraftOK, payload
  <2> QED  BY <1>9, <2>1, <2>2 DEF EndJob, shared
<1>10. ASSUME NEW j \in Job, FinishJob(j) PROVE Types'
  <2>1. built[j] \in Block \cup {None}
    BY DEF TypeOK
  <2>2. VanillaPayload(j) \in Block
    BY VanillaFacts, <1>0
  <2>3. FinalPayload(j) \in Block \cup {None}
    BY <2>1, <2>2 DEF FinalPayload
  <2> QED  BY <1>9, <1>10, <2>3 DEF FinishJob
<1>11. ASSUME NEW j \in Job, FailJob(j) PROVE Types'
  BY <1>9, <1>11 DEF FailJob
<1>12. ASSUME NEW j \in Job, ResetNumber(j) PROVE Types'
  <2>1. 0 \in 0 .. MaxPublishes
    BY PublishAssumption
  <2>2. TypeOK' /\ DraftOK'
    BY <1>0, <1>12, <2>1 DEF ResetNumber, TypeOK, DraftOK, payload, Phase
  <2> QED  BY <1>12, <2>2 DEF ResetNumber
<1>13. ASSUME NEW j \in Job, ResetBase(j) PROVE Types'
  <2>1. TypeOK' /\ DraftOK'
    BY <1>0, <1>13 DEF ResetBase, TypeOK, DraftOK, payload, Phase
  <2> QED  BY <1>13, <2>1 DEF ResetBase
<1> QED
  BY <1>1, <1>2, <1>3, <1>4, <1>5, <1>6, <1>7, <1>8, <1>10, <1>11, <1>12, <1>13
     DEF PublishNext

(***************************************************************************)
(* The last job to end leaves the counter and the base as the next job     *)
(* must find them, however the resets of overlapping jobs interleave.      *)
(***************************************************************************)
LEMMA ResetStep ==
  ASSUME SharedInv, PublishNext
  PROVE  NumberIsReset' /\ QuiescentIsReset'
<1> USE DEF SharedInv, Types, NumberIsReset, QuiescentIsReset, Active
<1>0. phase \in [Job -> Phase]
  BY DEF TypeOK
<1>1. ASSUME NEW j \in Job, \/ StartJob(j) \/ BuildBlock(j) \/ TakeSpan(j) \/ TakeNumber(j)
                            \/ TakeBase(j) \/ Publish(j) \/ FinishJob(j) \/ FailJob(j)
      PROVE  NumberIsReset' /\ QuiescentIsReset'
  <2>1. phase'[j] \notin {"waiting", "reset", "done"}
    BY <1>0, <1>1 DEF StartJob, BuildBlock, TakeSpan, TakeNumber, TakeBase, Publish, FinishJob,
                      FailJob, EndJob
  <2> QED  BY <2>1
<1>2. ASSUME NEW j \in Job, NEW tx \in Tx, AppendOrder(j, tx)
      PROVE  NumberIsReset' /\ QuiescentIsReset'
  BY <1>2 DEF AppendOrder, shared
<1>3. ASSUME NEW fb \in RemoteFlashblock, RemotePush(fb)
      PROVE  NumberIsReset' /\ QuiescentIsReset'
  BY <1>3 DEF RemotePush
<1>4. ASSUME NEW j \in Job, ResetNumber(j) PROVE NumberIsReset' /\ QuiescentIsReset'
  BY <1>0, <1>4 DEF ResetNumber
<1>5. ASSUME NEW j \in Job, ResetBase(j) PROVE NumberIsReset' /\ QuiescentIsReset'
  <2>1. phase[j] = "reset" /\ phase' = [phase EXCEPT ![j] = "done"]
    BY <1>5 DEF ResetBase
  <2>2. \A k \in Job : k # j => phase'[k] = phase[k]
    BY <1>0, <2>1
  <2> QED  BY <1>5, <2>1, <2>2 DEF ResetBase
<1> QED  BY <1>1, <1>2, <1>3, <1>4, <1>5 DEF PublishNext

(***************************************************************************)
(* A job only ever appends new transactions to its sequencer transactions. *)
(***************************************************************************)
LEMMA HistoryStep ==
  ASSUME SharedInv, PublishNext
  PROVE  History'
<1> USE DEF SharedInv, Types
<1>0. phase \in [Job -> Phase] /\ txs \in [Job -> Seq(Tx)]
  BY DEF TypeOK
<1>1. ASSUME NEW j \in Job, StartJob(j) PROVE History'
  <2>1. /\ txs' = [txs EXCEPT ![j] = Sequencer] /\ phase' = [phase EXCEPT ![j] = "running"]
        /\ History
    BY <1>1 DEF StartJob
  <2>2. \A i, k \in DOMAIN Sequencer : Sequencer[i] = Sequencer[k] => i = k
    BY BoundFacts
  <2> HIDE DEF SharedInv, Types
  <2> QED  BY <1>0, <2>1, <2>2 DEF History
<1>2. ASSUME NEW j \in Job, NEW tx \in Tx, AppendOrder(j, tx) PROVE History'
  <2> DEFINE s == Append(txs[j], tx)
  <2>1. /\ s \in Seq(Tx) /\ Len(s) = Len(txs[j]) + 1 /\ s[Len(txs[j]) + 1] = tx
        /\ \A i \in 1 .. Len(txs[j]) : s[i] = txs[j][i]
    BY <1>0
  <2>2. /\ \A i \in DOMAIN Sequencer : i \in DOMAIN s /\ s[i] = Sequencer[i]
        /\ \A i, k \in DOMAIN s : s[i] = s[k] => i = k
    <3>1. /\ \A i \in DOMAIN Sequencer : i \in DOMAIN txs[j] /\ txs[j][i] = Sequencer[i]
          /\ \A i, k \in DOMAIN txs[j] : txs[j][i] = txs[j][k] => i = k
          /\ \A i \in DOMAIN txs[j] : txs[j][i] # tx
      BY <1>2 DEF AppendOrder, History
    <3>2. DOMAIN txs[j] = 1 .. Len(txs[j]) /\ DOMAIN s = 1 .. (Len(txs[j]) + 1)
          /\ Len(txs[j]) \in Nat
      BY <1>0, <2>1
    <3> HIDE DEF s
    <3>3. \A i \in DOMAIN Sequencer : i \in DOMAIN s /\ s[i] = Sequencer[i]
      BY <2>1, <3>1, <3>2
    <3>4. ASSUME NEW i \in DOMAIN s, NEW k \in DOMAIN s, s[i] = s[k] PROVE i = k
      <4>1. CASE i \in DOMAIN txs[j] /\ k \in DOMAIN txs[j]
        BY <2>1, <3>1, <3>2, <3>4, <4>1
      <4>2. CASE i \in DOMAIN txs[j] /\ k = Len(txs[j]) + 1
        BY <2>1, <3>1, <3>2, <3>4, <4>2
      <4>3. CASE i = Len(txs[j]) + 1 /\ k \in DOMAIN txs[j]
        BY <2>1, <3>1, <3>2, <3>4, <4>3
      <4> QED  BY <3>2, <4>1, <4>2, <4>3
    <3> QED  BY <3>3, <3>4
  <2>3. txs'[j] = s /\ phase' = phase /\ \A k \in Job : k # j => txs'[k] = txs[k]
    BY <1>0, <1>2 DEF AppendOrder
  <2> HIDE DEF s
  <2> QED  BY <2>2, <2>3 DEF History
<1>3. ASSUME NEW j \in Job, \/ BuildBlock(j) \/ TakeSpan(j) \/ TakeNumber(j) \/ TakeBase(j)
                            \/ Publish(j) \/ FinishJob(j) \/ FailJob(j)
                            \/ ResetNumber(j) \/ ResetBase(j)
      PROVE  History'
  <2>1. txs' = txs /\ phase[j] # "waiting" /\ \A k \in Job : k # j => phase'[k] = phase[k]
    BY <1>0, <1>3 DEF BuildBlock, TakeSpan, TakeNumber, TakeBase, Publish, FinishJob, FailJob,
                      EndJob, ResetNumber, ResetBase, payload
  <2> QED  BY <2>1 DEF History
<1>4. ASSUME NEW fb \in RemoteFlashblock, RemotePush(fb) PROVE History'
  BY <1>4 DEF RemotePush, History, payload
<1> QED  BY <1>1, <1>2, <1>3, <1>4 DEF PublishNext

(***************************************************************************)
(* A job's built payload lists its transactions up to the latest barrier,  *)
(* and exists once the collection has taken a flashblock of the job.       *)
(***************************************************************************)
LEMMA PublishedIsBuiltStep ==
  ASSUME SharedInv, PublishNext
  PROVE  PublishedIsBuilt'
<1> USE DEF SharedInv, Types
<1>0. /\ phase \in [Job -> Phase] /\ txs \in [Job -> Seq(Tx)] /\ barrier \in [Job -> Nat]
      /\ built \in [Job -> Block \cup {None}] /\ result \in [Job -> Block \cup {None}]
      /\ accepted \in [Job -> Nat] /\ \A k \in Job : barrier[k] <= Len(txs[k])
  BY DEF TypeOK
<1>1. ASSUME NEW j \in Job, StartJob(j) PROVE PublishedIsBuilt'
  <2>1. built[j] = None /\ result[j] = None
    BY <1>1 DEF StartJob, PublishedIsBuilt
  <2>2. /\ \A k \in Job : k # j => /\ txs'[k] = txs[k] /\ barrier'[k] = barrier[k]
                                   /\ phase'[k] = phase[k]
        /\ list' = list /\ built' = built /\ accepted' = accepted /\ result' = result
    BY <1>0, <1>1 DEF StartJob
  <2> QED  BY <1>0, <2>1, <2>2 DEF PublishedIsBuilt
<1>2. ASSUME NEW j \in Job, NEW tx \in Tx, AppendOrder(j, tx) PROVE PublishedIsBuilt'
  <2>1. SubSeq(Append(txs[j], tx), 1, barrier[j]) = SubSeq(txs[j], 1, barrier[j])
    <3>1. txs[j] \in Seq(Tx) /\ barrier[j] \in 0 .. Len(txs[j])
      BY <1>0
    <3> QED  BY <3>1, SpanFacts
  <2>2. /\ txs'[j] = Append(txs[j], tx) /\ \A k \in Job : k # j => txs'[k] = txs[k]
        /\ list' = list /\ built' = built /\ accepted' = accepted /\ result' = result
        /\ barrier' = barrier /\ phase' = phase
    BY <1>0, <1>2 DEF AppendOrder, shared
  <2>3. \A k \in Job : SubSeq(txs'[k], 1, barrier'[k]) = SubSeq(txs[k], 1, barrier[k])
    BY <2>1, <2>2
  <2> QED  BY <2>2, <2>3 DEF PublishedIsBuilt
<1>3. ASSUME NEW j \in Job, BuildBlock(j) \/ TakeSpan(j) \/ TakeNumber(j) \/ TakeBase(j)
      PROVE  PublishedIsBuilt'
  <2>1. /\ UNCHANGED <<list, built, txs, barrier, accepted, result>>
        /\ \A k \in Job : k # j => phase'[k] = phase[k]
        /\ phase[j] \in {"running", "built", "spanned", "numbered"} /\ phase'[j] # "waiting"
    BY <1>0, <1>3 DEF BuildBlock, TakeSpan, TakeNumber, TakeBase, shared, payload
  <2>2. result[j] = None
    BY <2>1 DEF PublishedIsBuilt
  <2> QED  BY <2>1, <2>2 DEF PublishedIsBuilt
<1>4. ASSUME NEW j \in Job, Publish(j) PROVE PublishedIsBuilt'
  <2>1. /\ UNCHANGED <<txs, result>> /\ phase[j] = "based" /\ phase'[j] = "running"
        /\ \A k \in Job : k # j => phase'[k] = phase[k]
    BY <1>0, <1>4 DEF Publish
  <2>2. result[j] = None
    BY <2>1 DEF PublishedIsBuilt
  <2>3. CASE ~Accepts(list, draft[j])
    <3>1. UNCHANGED <<list, built, barrier, accepted>>
      BY <1>4, <2>3 DEF Publish
    <3> QED  BY <2>1, <2>2, <3>1 DEF PublishedIsBuilt
  <2>4. CASE Accepts(list, draft[j])
    <3>1. /\ draft[j].block_hash \in Block /\ draft[j].block_hash.txs = txs[j]
          /\ draft[j].payload_id = Jobs[j].payload_id
      BY <1>4 DEF Publish, DraftOK
    <3>2. draft[j].block_hash # None
      BY <3>1, NoneFacts
    <3>3. PayloadIdOf(list') = Jobs[j].payload_id
      <4>1. list' = Push(list, draft[j]) /\ WellFormed(list)
        BY <1>4, <2>4 DEF Publish, TypeOK
      <4> QED  BY <2>4, <3>1, <4>1, PushFacts
    <3>4. \A k \in Job : k # j => PayloadIdOf(list') # Jobs[k].payload_id
      BY <3>3, JobFacts
    <3>5. /\ built'[j] = draft[j].block_hash /\ barrier'[j] = Len(txs[j])
          /\ accepted'[j] = accepted[j] + 1
          /\ \A k \in Job : k # j =>
               /\ built'[k] = built[k] /\ barrier'[k] = barrier[k] /\ accepted'[k] = accepted[k]
      BY <1>0, <1>4, <2>4 DEF Publish
    <3>6. accepted'[j] > 0 /\ built'[j].txs = SubSeq(txs[j], 1, barrier'[j])
      <4>1. accepted[j] \in Nat /\ txs[j] \in Seq(Tx)
        BY <1>0
      <4>2. SubSeq(txs[j], 1, Len(txs[j])) = txs[j]
        BY <4>1, SubSeqFull
      <4> QED  BY <3>1, <3>5, <4>1, <4>2
    <3> QED  BY <2>1, <2>2, <3>2, <3>4, <3>5, <3>6 DEF PublishedIsBuilt
  <2> QED  BY <2>3, <2>4
<1>5. ASSUME NEW fb \in RemoteFlashblock, RemotePush(fb) PROVE PublishedIsBuilt'
  <2>1. PayloadIdOf(list') = fb.payload_id
    BY <1>5, PushFacts DEF RemotePush, TypeOK
  <2>2. \A k \in Job : PayloadIdOf(list') # Jobs[k].payload_id
    BY <2>1, JobFacts
  <2> QED  BY <1>5, <2>2 DEF RemotePush, PublishedIsBuilt, payload
<1>6. ASSUME NEW j \in Job, FinishJob(j) \/ FailJob(j) \/ ResetNumber(j) \/ ResetBase(j)
      PROVE  PublishedIsBuilt'
  <2>1. /\ UNCHANGED <<list, built, txs, barrier, accepted>>
        /\ \A k \in Job : k # j => phase'[k] = phase[k] /\ result'[k] = result[k]
        /\ phase'[j] \in {"ending", "reset", "done"}
    BY <1>0, <1>6 DEF FinishJob, FailJob, EndJob, ResetNumber, ResetBase, shared, payload
  <2> QED  BY <2>1 DEF PublishedIsBuilt
<1> QED  BY <1>1, <1>2, <1>3, <1>4, <1>5, <1>6 DEF PublishNext

(***************************************************************************)
(* What a job ends with stays what it was.                                 *)
(***************************************************************************)
LEMMA ResultStep ==
  ASSUME SharedInv, PublishNext
  PROVE  ResultIsWhole'
<1> USE DEF SharedInv, Types
<1>0. /\ phase \in [Job -> Phase] /\ txs \in [Job -> Seq(Tx)] /\ barrier \in [Job -> Nat]
      /\ built \in [Job -> Block \cup {None}] /\ result \in [Job -> Block \cup {None}]
      /\ accepted \in [Job -> Nat] /\ \A k \in Job : barrier[k] <= Len(txs[k])
  BY DEF TypeOK
<1>1. ASSUME NEW j \in Job, FinishJob(j) PROVE ResultIsWhole'
  <2>1. /\ UNCHANGED <<txs, barrier, accepted>> /\ result'[j] = FinalPayload(j)
        /\ \A k \in Job : k # j => result'[k] = result[k]
        /\ phase[j] = "running"
    BY <1>0, <1>1 DEF FinishJob, EndJob, payload
  <2>2. \A i, k \in DOMAIN txs[j] : txs[j][i] = txs[j][k] => i = k
    BY <2>1 DEF History
  <2>3. CASE built[j] = None
    <3>1. result'[j].txs = txs[j] /\ accepted[j] = 0
      BY <1>0, <2>1, <2>3, VanillaFacts DEF FinalPayload, History, PublishedIsBuilt
    <3> QED  BY <2>1, <2>2, <3>1 DEF ResultIsWhole
  <2>4. CASE built[j] # None
    <3>1. result'[j].txs = SubSeq(txs[j], 1, barrier[j]) /\ accepted[j] > 0
      BY <2>1, <2>4 DEF FinalPayload, PublishedIsBuilt
    <3>2. barrier[j] \in 0 .. Len(txs[j]) /\ txs[j] \in Seq(Tx)
      BY <1>0
    <3>3. \A i, k \in DOMAIN SubSeq(txs[j], 1, barrier[j]) :
            SubSeq(txs[j], 1, barrier[j])[i] = SubSeq(txs[j], 1, barrier[j])[k] => i = k
      BY <2>2, <3>2
    <3> QED  BY <2>1, <3>1, <3>3 DEF ResultIsWhole
  <2> QED  BY <2>3, <2>4
<1>2. ASSUME NEW j \in Job, \/ StartJob(j) \/ (\E tx \in Tx : AppendOrder(j, tx)) \/ BuildBlock(j)
                            \/ TakeSpan(j) \/ TakeNumber(j) \/ TakeBase(j) \/ Publish(j)
                            \/ FailJob(j)
      PROVE  ResultIsWhole'
  <2>1. phase[j] \in Phase \ {"ending", "reset", "done"}
    BY <1>0, <1>2 DEF StartJob, AppendOrder, BuildBlock, TakeSpan, TakeNumber, TakeBase, Publish,
                      FailJob, EndJob, Phase
  <2>2. result[j] = None
    BY <2>1 DEF PublishedIsBuilt
  <2>3. result' = result \/ result' = [result EXCEPT ![j] = None]
    BY <1>2 DEF StartJob, AppendOrder, BuildBlock, TakeSpan, TakeNumber, TakeBase, Publish,
                FailJob, EndJob
  <2>4. \A k \in Job : k # j =>
          txs'[k] = txs[k] /\ barrier'[k] = barrier[k] /\ accepted'[k] = accepted[k]
    BY <1>0, <1>2 DEF StartJob, AppendOrder, BuildBlock, TakeSpan, TakeNumber, TakeBase, Publish,
                      FailJob, EndJob, payload
  <2>5. result'[j] = None /\ \A k \in Job : k # j => result'[k] = result[k]
    BY <1>0, <2>2, <2>3
  <2> QED  BY <2>4, <2>5 DEF ResultIsWhole
<1>3. ASSUME NEW j \in Job, ResetNumber(j) \/ ResetBase(j) PROVE ResultIsWhole'
  BY <1>3 DEF ResetNumber, ResetBase, payload, ResultIsWhole
<1>4. ASSUME NEW fb \in RemoteFlashblock, RemotePush(fb) PROVE ResultIsWhole'
  BY <1>4 DEF RemotePush, payload, ResultIsWhole
<1> QED  BY <1>1, <1>2, <1>3, <1>4 DEF PublishNext

-----------------------------------------------------------------------------
(***************************************************************************)
(* No job runs initially.                                                  *)
(***************************************************************************)
LEMMA InitAloneInv == PublishInit => AloneInv
<1> SUFFICES ASSUME PublishInit PROVE AloneInv
  OBVIOUS
<1>1. OverlapNoted
  BY DEF PublishInit, OverlapNoted, Active
<1>2. ASSUME NEW j \in Job PROVE Executed(j) /\ OwnBase(j) /\ InStep(j)
  <2>1. phase[j] = "waiting" /\ built[j] = None
    BY DEF PublishInit
  <2>2. PayloadIdOf(list) # Jobs[j].payload_id
    BY InitSharedInv, <2>1 DEF SharedInv, PublishedIsBuilt
  <2> QED  BY <2>1, <2>2 DEF Executed, OwnBase, InStep, Running
<1> QED  BY <1>1, <1>2 DEF AloneInv

(***************************************************************************)
(* Two jobs never run at the same time unnoticed.                          *)
(***************************************************************************)
LEMMA OverlapStep ==
  ASSUME SharedInv, OverlapNoted, PublishNext
  PROVE  OverlapNoted' /\ overlapped \subseteq overlapped'
<1>0. phase \in [Job -> Phase]
  BY DEF SharedInv, Types, TypeOK
<1>1. ASSUME NEW j \in Job, StartJob(j) PROVE OverlapNoted' /\ overlapped \subseteq overlapped'
  <2> DEFINE others == {k \in Job : Active(k)}
  <2>1. overlapped' = IF others = {} THEN overlapped ELSE (overlapped \cup others) \cup {j}
    BY <1>1 DEF StartJob
  <2>2. phase' = [phase EXCEPT ![j] = "running"] /\ phase[j] = "waiting"
    BY <1>1 DEF StartJob
  <2>3. CASE others = {}
    BY <1>0, <2>1, <2>2, <2>3 DEF OverlapNoted, Active
  <2>4. CASE others # {}
    <3>1. ASSUME NEW k \in Job, NEW h \in Job, k # h, Active(k)', Active(h)'
          PROVE  k \in overlapped'
      BY <1>0, <2>1, <2>2, <2>4, <3>1 DEF Active
    <3>2. ASSUME NEW k \in Job, phase'[k] = "waiting" PROVE k \notin overlapped'
      BY <1>0, <2>1, <2>2, <2>4, <3>2 DEF OverlapNoted, Active
    <3> QED  BY <2>1, <3>1, <3>2 DEF OverlapNoted
  <2> QED  BY <2>3, <2>4
<1>2. ASSUME NEW j \in Job, \/ (\E tx \in Tx : AppendOrder(j, tx)) \/ BuildBlock(j)
                            \/ TakeSpan(j) \/ TakeNumber(j) \/ TakeBase(j) \/ Publish(j)
                            \/ FinishJob(j) \/ FailJob(j) \/ ResetNumber(j) \/ ResetBase(j)
      PROVE  OverlapNoted' /\ overlapped \subseteq overlapped'
  <2>1. overlapped' = overlapped /\ phase[j] # "waiting" /\ Active(j) /\ phase'[j] # "waiting"
        /\ \A k \in Job : k # j => phase'[k] = phase[k]
    BY <1>0, <1>2 DEF AppendOrder, BuildBlock, TakeSpan, TakeNumber, TakeBase, Publish, FinishJob,
                      FailJob, EndJob, ResetNumber, ResetBase, Active
  <2> QED  BY <2>1 DEF OverlapNoted, Active
<1>3. ASSUME NEW fb \in RemoteFlashblock, RemotePush(fb)
      PROVE  OverlapNoted' /\ overlapped \subseteq overlapped'
  BY <1>3 DEF RemotePush, OverlapNoted, Active
<1> QED  BY <1>1, <1>2, <1>3 DEF PublishNext

(***************************************************************************)
(* Nothing that other jobs do disturbs a job that does not run.            *)
(***************************************************************************)
LEMMA RestingJob ==
  ASSUME NEW k \in Job, Executed(k), OwnBase(k), ~Active(k),
         phase'[k] = phase[k], built'[k] = built[k],
         list' = list \/ PayloadIdOf(list') # Jobs[k].payload_id
  PROVE  Executed(k)' /\ OwnBase(k)' /\ InStep(k)'
<1>1. phase'[k] \in {"waiting", "done"}
  BY DEF Active
<1>2. built'[k] # None => built'[k].executed = built'[k].txs
  BY DEF Executed
<1>3. PayloadIdOf(list') = Jobs[k].payload_id => BaseOf(list') = Jobs[k].base
  BY DEF OwnBase
<1> QED  BY <1>1, <1>2, <1>3 DEF Executed, OwnBase, InStep, Running

(***************************************************************************)
(* The steps of a job that runs alone keep its counter, base, draft and    *)
(* built payload in agreement with the collection.                         *)
(***************************************************************************)
LEMMA OwnStep ==
  ASSUME SharedInv, AloneInv, NEW k \in Job, k \notin overlapped, Executed(k), OwnBase(k), InStep(k),
         \/ \E tx \in Tx : AppendOrder(k, tx)
         \/ BuildBlock(k) \/ TakeSpan(k) \/ TakeNumber(k) \/ TakeBase(k) \/ Publish(k)
         \/ FinishJob(k) \/ FailJob(k) \/ ResetNumber(k) \/ ResetBase(k)
  PROVE  Executed(k)' /\ OwnBase(k)' /\ InStep(k)'
<1>0. /\ phase \in [Job -> Phase] /\ txs \in [Job -> Seq(Tx)] /\ barrier \in [Job -> Nat]
      /\ built \in [Job -> Block \cup {None}] /\ DOMAIN draft = Job
      /\ \A h \in Job : barrier[h] <= Len(txs[h])
      /\ IsSequence(list) /\ WellFormed(list) /\ BaseOf(list).timestamp \in Nat
      /\ block_number \in Nat
  <2>1. Types
    BY DEF SharedInv
  <2>2. TypeOK /\ DOMAIN draft = Job
    BY <2>1 DEF Types
  <2>3. /\ phase \in [Job -> Phase] /\ txs \in [Job -> Seq(Tx)] /\ barrier \in [Job -> Nat]
        /\ built \in [Job -> Block \cup {None}]
        /\ \A h \in Job : barrier[h] <= Len(txs[h])
    BY <2>2 DEF TypeOK
  <2>4. WellFormed(list) /\ block_number \in 0 .. MaxPublishes
    BY <2>2 DEF TypeOK
  <2>5. IsSequence(list) /\ BaseOf(list).timestamp \in Nat
    BY <2>1 DEF Types
  <2> QED  BY <2>2, <2>3, <2>4, <2>5, BoundFacts
<1>1. CASE \E tx \in Tx : AppendOrder(k, tx)
  <2>1. UNCHANGED <<list, block_number, block_base, phase, built, draft>> /\ phase[k] = "running"
    BY <1>1 DEF AppendOrder, shared
  <2> QED  BY <2>1 DEF Executed, OwnBase, InStep, Running, Spent
<1>2. CASE BuildBlock(k)
  <2>1. /\ UNCHANGED <<list, block_number, block_base, built, txs, barrier>>
        /\ phase[k] = "running" /\ phase'[k] = "built"
        /\ draft'[k].block.executed = PreviouslyExecuted(k) \o Unpublished(k)
    BY <1>0, <1>2 DEF BuildBlock, shared, payload
  <2>2. txs[k] \in Seq(Tx) /\ barrier[k] \in 0 .. Len(txs[k])
    BY <1>0
  <2>3. ASSUME built[k] # None PROVE draft'[k].block.executed = txs[k]
    <3>1. block_number # 0
      BY <2>1, <2>3 DEF Executed, Running, Spent
    <3>2. built[k].executed = SubSeq(txs[k], 1, barrier[k])
      BY <2>3 DEF Executed, SharedInv, PublishedIsBuilt
    <3> QED  BY <2>1, <2>2, <2>3, <3>1, <3>2, SpanFacts DEF PreviouslyExecuted, Unpublished
  <2>4. ASSUME built[k] = None, block_number = 0 PROVE draft'[k].block.executed = txs[k]
    BY <2>1, <2>2, <2>4, SpanFacts DEF PreviouslyExecuted, Unpublished
  <2> QED  BY <2>1, <2>3, <2>4 DEF Executed, OwnBase, InStep, Running, Spent
<1>3. CASE TakeSpan(k)
  <2>1. /\ UNCHANGED <<list, block_number, block_base, built, txs>>
        /\ phase[k] = "built" /\ phase'[k] = "spanned" /\ draft'[k].block = draft[k].block
    BY <1>0, <1>3 DEF TakeSpan, shared, payload
  <2> QED  BY <2>1 DEF Executed, OwnBase, InStep, Running, Spent
<1>4. CASE TakeNumber(k)
  <2>1. /\ UNCHANGED <<list, block_base, built, txs>> /\ block_number' = block_number + 1
        /\ phase[k] = "spanned" /\ phase'[k] = "numbered"
        /\ draft'[k].block = draft[k].block /\ draft'[k].index = block_number
    BY <1>0, <1>4 DEF TakeNumber, payload
  <2> QED  BY <2>1 DEF Executed, OwnBase, InStep, Running, Spent
<1>5. CASE TakeBase(k)
  <2>1. /\ UNCHANGED <<list, block_number, block_base, built, txs>>
        /\ phase[k] = "numbered" /\ phase'[k] = "based"
        /\ draft'[k].block_hash = draft[k].block /\ draft'[k].index = draft[k].index
        /\ draft'[k].base = block_base
    BY <1>0, <1>5 DEF TakeBase, shared, payload
  <2> QED  BY <2>1 DEF Executed, OwnBase, InStep, Running, Spent
<1>6. CASE Publish(k)
  <2>1. /\ UNCHANGED <<block_number, block_base, txs>>
        /\ phase[k] = "based" /\ phase'[k] = "running"
    BY <1>0, <1>6 DEF Publish
  <2>2. /\ draft[k].payload_id = Jobs[k].payload_id /\ draft[k].index \in Nat
        /\ draft[k].base = Jobs[k].base /\ draft[k].block_hash.txs = txs[k]
        /\ block_number = draft[k].index + 1 /\ Spent(k) = draft[k].index
    BY <2>1 DEF SharedInv, Types, DraftOK, OwnBase, Executed, Spent
  <2>3. Spent(k)' = block_number /\ block_number > 0
    BY <2>1, <2>2 DEF Spent
  <2>4. CASE Accepts(list, draft[k])
    <3>1. built'[k] = draft[k].block_hash /\ list' = Push(list, draft[k])
      BY <1>0, <1>6, <2>4 DEF Publish
    <3>2. built[k] # None \/ draft[k].index = 0
      <4>1. ASSUME built[k] = None PROVE draft[k].index = 0
        <5>1. PayloadIdOf(list) # Jobs[k].payload_id
          BY <4>1 DEF SharedInv, PublishedIsBuilt
        <5> QED  BY <2>2, <2>4, <5>1 DEF Accepts, StartsNewPayload, ContinuesPayload
      <4> QED  BY <4>1
    <3>3. draft[k].block_hash.executed = txs[k]
      BY <2>1, <2>2, <3>2 DEF Executed
    <3>4. Executed(k)'
      BY <2>1, <2>2, <2>3, <3>1, <3>3 DEF Executed
    <3>5. PayloadIdOf(list') = Jobs[k].payload_id /\ BaseOf(list') = Jobs[k].base
          /\ Len(list') = block_number
      <4>1. CASE StartsNewPayload(list, draft[k])
        <5>1. draft[k].index = 0
          BY <4>1 DEF StartsNewPayload
        <5> QED  BY <1>0, <2>2, <2>4, <3>1, <4>1, <5>1, PushFacts
      <4>2. CASE ~StartsNewPayload(list, draft[k])
        <5>1. PayloadIdOf(list) = Jobs[k].payload_id /\ draft[k].index = Len(list)
          BY <2>2, <2>4, <4>2 DEF Accepts, ContinuesPayload
        <5>2. BaseOf(list) = Jobs[k].base
          BY <5>1 DEF OwnBase
        <5> QED  BY <1>0, <2>2, <2>4, <3>1, <4>2, <5>1, <5>2, PushFacts
      <4> QED  BY <4>1, <4>2
    <3>6. OwnBase(k)' /\ InStep(k)'
      BY <2>1, <2>3, <3>5 DEF OwnBase, InStep, Running
    <3> QED  BY <3>4, <3>6
  <2>5. CASE ~Accepts(list, draft[k])
    <3>1. UNCHANGED <<list, built>>
      BY <1>6, <2>5 DEF Publish
    <3>2. Executed(k)'
      BY <2>1, <2>3, <3>1 DEF Executed
    <3>3. OwnBase(k)'
      BY <2>1, <3>1 DEF OwnBase, Running
    <3>4. PayloadIdOf(list) # Jobs[k].payload_id
      BY <2>1, <2>2, <2>5 DEF InStep, Running, Accepts, ContinuesPayload
    <3>5. ~(BaseOf(list).timestamp < Jobs[k].base.timestamp)
      <4>1. SUFFICES ASSUME BaseOf(list).timestamp < Jobs[k].base.timestamp PROVE FALSE
        OBVIOUS
      <4>2. draft[k].index = 0
        BY <2>1, <2>2, <3>4, <4>1 DEF InStep, Running
      <4>3. Jobs[k].base # None /\ Jobs[k].base.timestamp > BaseOf(list).timestamp
        BY <1>0, <4>1, JobFacts
      <4> QED  BY <2>2, <2>5, <3>4, <4>2, <4>3 DEF Accepts, StartsNewPayload
    <3>6. InStep(k)'
      BY <3>1, <3>4, <3>5 DEF InStep
    <3> QED  BY <3>2, <3>3, <3>6
  <2> QED  BY <2>4, <2>5
<1>7. CASE FinishJob(k) \/ FailJob(k) \/ ResetNumber(k) \/ ResetBase(k)
  <2>1. UNCHANGED <<list, built>> /\ phase'[k] \in {"ending", "reset", "done"}
    BY <1>0, <1>7 DEF FinishJob, FailJob, EndJob, ResetNumber, ResetBase, shared, payload
  <2> QED  BY <2>1 DEF Executed, OwnBase, InStep, Running
<1> QED  BY <1>1, <1>2, <1>3, <1>4, <1>5, <1>6, <1>7

(***************************************************************************)
(* Whatever a step does, a job that has run alone stays in step: no other  *)
(* job touches the shared state while it runs, and a flashblock of another *)
(* builder takes the collection to a payload that is not the job's.        *)
(***************************************************************************)
LEMMA AloneStep ==
  ASSUME SharedInv, AloneInv, PublishNext, NEW k \in Job, k \notin overlapped'
  PROVE  Executed(k)' /\ OwnBase(k)' /\ InStep(k)'
<1>0. /\ k \notin overlapped /\ Executed(k) /\ OwnBase(k) /\ InStep(k) /\ OverlapNoted
      /\ phase \in [Job -> Phase] /\ built \in [Job -> Block \cup {None}]
  <2>1. k \notin overlapped /\ OverlapNoted
    BY OverlapStep DEF AloneInv
  <2>2. Executed(k) /\ OwnBase(k) /\ InStep(k)
    BY <2>1 DEF AloneInv, Alone
  <2> QED  BY <2>1, <2>2 DEF SharedInv, Types, TypeOK
<1>1. CASE StartJob(k)
  <2>1. /\ UNCHANGED <<list, block_number, built>> /\ block_base' = Jobs[k].base
        /\ phase[k] = "waiting" /\ phase'[k] = "running"
    BY <1>0, <1>1 DEF StartJob
  <2>2. \A j \in Job : ~Active(j)
    BY <1>1 DEF StartJob
  <2>3. block_number = 0
    BY <2>2 DEF SharedInv, NumberIsReset
  <2>4. built[k] = None /\ PayloadIdOf(list) # Jobs[k].payload_id
    BY <2>1 DEF SharedInv, PublishedIsBuilt
  <2> QED  BY <2>1, <2>3, <2>4 DEF Executed, OwnBase, InStep, Running, Spent
<1>2. CASE \/ \E tx \in Tx : AppendOrder(k, tx)
           \/ BuildBlock(k) \/ TakeSpan(k) \/ TakeNumber(k) \/ TakeBase(k) \/ Publish(k)
           \/ FinishJob(k) \/ FailJob(k) \/ ResetNumber(k) \/ ResetBase(k)
  BY <1>0, <1>2, OwnStep
<1>3. ASSUME NEW j \in Job, j # k,
             \/ StartJob(j)
             \/ \E tx \in Tx : AppendOrder(j, tx)
             \/ BuildBlock(j) \/ TakeSpan(j) \/ TakeNumber(j) \/ TakeBase(j) \/ Publish(j)
             \/ FinishJob(j) \/ FailJob(j) \/ ResetNumber(j) \/ ResetBase(j)
      PROVE  Executed(k)' /\ OwnBase(k)' /\ InStep(k)'
  <2>1. ~Active(k)
    <3>1. CASE StartJob(j)
      BY <3>1 DEF StartJob
    <3>2. CASE ~StartJob(j)
      <4>1. Active(j)
        BY <1>3, <3>2 DEF AppendOrder, BuildBlock, TakeSpan, TakeNumber, TakeBase, Publish,
                          FinishJob, FailJob, EndJob, ResetNumber, ResetBase, Active
      <4> QED  BY <1>0, <1>3, <4>1 DEF OverlapNoted
    <3> QED  BY <3>1, <3>2
  <2>2. phase'[k] = phase[k] /\ built'[k] = built[k]
    BY <1>0, <1>3 DEF StartJob, AppendOrder, BuildBlock, TakeSpan, TakeNumber, TakeBase, Publish,
                      FinishJob, FailJob, EndJob, ResetNumber, ResetBase, payload
  <2>3. list' = list \/ PayloadIdOf(list') # Jobs[k].payload_id
    <3>1. CASE Publish(j) /\ Accepts(list, draft[j])
      <4>1. list' = Push(list, draft[j]) /\ draft[j].payload_id = Jobs[j].payload_id
        BY <3>1 DEF Publish, SharedInv, Types, DraftOK
      <4>2. IsSequence(list) /\ WellFormed(list)
        BY DEF SharedInv, Types, TypeOK
      <4>3. PayloadIdOf(list') = Jobs[j].payload_id
        BY <3>1, <4>1, <4>2, PushFacts
      <4> QED  BY <1>3, <4>3, JobFacts
    <3>2. CASE Publish(j) /\ ~Accepts(list, draft[j])
      BY <3>2 DEF Publish
    <3>3. CASE ~Publish(j)
      BY <1>3, <3>3 DEF StartJob, AppendOrder, BuildBlock, TakeSpan, TakeNumber, TakeBase,
                        FinishJob, FailJob, EndJob, ResetNumber, ResetBase, shared
    <3> QED  BY <3>1, <3>2, <3>3
  <2> QED  BY <1>0, <2>1, <2>2, <2>3, RestingJob
<1>4. ASSUME NEW fb \in RemoteFlashblock, RemotePush(fb)
      PROVE  Executed(k)' /\ OwnBase(k)' /\ InStep(k)'
  <2>1. /\ UNCHANGED <<block_number, block_base, phase, txs, built, draft>>
        /\ list' = Push(list, fb) /\ Accepts(list, fb)
    BY <1>4 DEF RemotePush, payload
  <2>2. IsSequence(list) /\ WellFormed(list) /\ BaseOf(list).timestamp \in Nat
    BY DEF SharedInv, Types, TypeOK
  <2>3. fb.base = None \/ fb.base.timestamp \in Nat
    BY PublishAssumption
  <2>4. PayloadIdOf(list') # Jobs[k].payload_id /\ fb.payload_id # Jobs[k].payload_id
    BY <2>1, <2>2, PushFacts, JobFacts
  <2>5. Executed(k)'
    BY <1>0, <2>1 DEF Executed, Running, Spent
  <2>6. OwnBase(k)'
    BY <1>0, <2>1, <2>4 DEF OwnBase, Running
  <2>7. ASSUME Running(k), BaseOf(list').timestamp < Jobs[k].base.timestamp
        PROVE  Spent(k) = 0
    <3>1. CASE StartsNewPayload(list, fb)
      <4>1. BaseOf(list').timestamp \in Nat /\ BaseOf(list').timestamp > BaseOf(list).timestamp
        BY <2>1, <2>2, <2>3, <3>1, PushedTimestamp
      <4>2. BaseOf(list).timestamp < Jobs[k].base.timestamp
        BY <2>2, <2>7, <4>1, JobFacts
      <4>3. PayloadIdOf(list) # Jobs[k].payload_id
        BY <1>0, <2>2, <4>2 DEF OwnBase
      <4> QED  BY <1>0, <2>7, <4>2, <4>3 DEF InStep
    <3>2. CASE ~StartsNewPayload(list, fb)
      <4>1. BaseOf(list') = BaseOf(list) /\ PayloadIdOf(list) # Jobs[k].payload_id
        BY <2>1, <2>2, <2>4, <3>2, PushFacts DEF Accepts, ContinuesPayload
      <4> QED  BY <1>0, <2>7, <4>1 DEF InStep
    <3> QED  BY <3>1, <3>2
  <2>8. InStep(k)'
    <3>1. Running(k)' <=> Running(k)
      BY <2>1 DEF Running
    <3>2. Spent(k)' = Spent(k)
      BY <2>1 DEF Spent
    <3> QED  BY <2>4, <2>7, <3>1, <3>2 DEF InStep
  <2> QED  BY <2>5, <2>6, <2>8
<1> QED  BY <1>1, <1>2, <1>3, <1>4 DEF PublishNext

-----------------------------------------------------------------------------
(***************************************************************************)
(* The inductive invariant: what holds of all jobs, and what holds of a    *)
(* job that runs alone.                                                    *)
(***************************************************************************)
THEOREM Invariance == PublishSpec => [](SharedInv /\ AloneInv)
<1>1. PublishInit => SharedInv /\ AloneInv
  BY InitSharedInv, InitAloneInv
<1>2. SharedInv /\ AloneInv /\ [PublishNext]_vars => (SharedInv /\ AloneInv)'
  <2>1. ASSUME SharedInv, AloneInv, PublishNext PROVE (SharedInv /\ AloneInv)'
    <3>1. SharedInv'
      BY <2>1, TypesStep, ResetStep, HistoryStep, PublishedIsBuiltStep, ResultStep DEF SharedInv
    <3>2. OverlapNoted'
      BY <2>1, OverlapStep DEF AloneInv
    <3>3. AloneInv'
      BY <2>1, <3>2, AloneStep DEF AloneInv, Alone
    <3> QED  BY <3>1, <3>3
  <2>2. ASSUME SharedInv, AloneInv, UNCHANGED vars PROVE (SharedInv /\ AloneInv)'
    <3>1. /\ UNCHANGED <<list, block_number, block_base, phase, txs, barrier, built>>
          /\ UNCHANGED <<draft, result, accepted, overlapped>>
      BY <2>2 DEF vars, shared, payload
    <3>2. TypeOK'
      BY <2>2, <3>1 DEF SharedInv, Types, TypeOK
    <3>3. Types'
      BY <2>2, <3>1, <3>2 DEF SharedInv, Types, DraftOK
    <3>4. SharedInv'
      BY <2>2, <3>1, <3>3 DEF SharedInv, NumberIsReset, QuiescentIsReset, History,
                              PublishedIsBuilt, ResultIsWhole, Active
    <3>5. AloneInv'
      BY <2>2, <3>1 DEF AloneInv, OverlapNoted, Alone, Active, Executed, OwnBase, InStep, Running,
                        Spent
    <3> QED  BY <3>4, <3>5
  <2> QED  BY <2>1, <2>2
<1> QED  BY <1>1, <1>2, PTL DEF PublishSpec

(***************************************************************************)
(* The step, the jobs and the collection have their types: a failed        *)
(* publish never leaves the collection malformed or a barrier beyond the   *)
(* history (publish_flashblocks.rs:187-216, primitives.rs:561-593).        *)
(***************************************************************************)
THEOREM TypeCorrect == PublishSpec => []TypeOK
<1>1. SharedInv => TypeOK
  BY DEF SharedInv, Types
<1> QED  BY <1>1, Invariance, PTL

(***************************************************************************)
(* However many jobs overlap, in whatever order, the step is as created    *)
(* once none runs (publish_flashblocks.rs:222-267).                        *)
(***************************************************************************)
THEOREM StepIsReset == PublishSpec => []QuiescentIsReset
<1>1. SharedInv => QuiescentIsReset
  BY DEF SharedInv
<1> QED  BY <1>1, Invariance, PTL

(***************************************************************************)
(* A job that runs alone builds blocks that have executed exactly their    *)
(* transactions (publish_flashblocks.rs:482-561).                          *)
(***************************************************************************)
THEOREM BlocksExecuteTheirTxs == PublishSpec => []BuiltExecutesItsTxs
<1>1. AloneInv => BuiltExecutesItsTxs
  BY DEF AloneInv, BuiltExecutesItsTxs, Executed
<1> QED  BY <1>1, Invariance, PTL

(***************************************************************************)
(* The collection refuses a flashblock of a job that runs alone only for   *)
(* the payload of a competing builder (primitives.rs:561-593).             *)
(***************************************************************************)
THEOREM OnlyCompetition == PublishSpec => []OnlyCompetitionRejects
<1>1. SharedInv /\ AloneInv => OnlyCompetitionRejects
  <2> SUFFICES ASSUME SharedInv, AloneInv, NEW j \in Job, Alone(j), phase[j] = "based",
                      ~Accepts(list, draft[j])
               PROVE  /\ PayloadIdOf(list) # Jobs[j].payload_id
                      /\ BaseOf(list).timestamp >= Jobs[j].base.timestamp
    BY DEF OnlyCompetitionRejects
  <2>1. OwnBase(j) /\ InStep(j) /\ Running(j) /\ Spent(j) = draft[j].index
    BY DEF AloneInv, Running, Spent
  <2>2. draft[j].payload_id = Jobs[j].payload_id /\ draft[j].base = Jobs[j].base
    BY <2>1 DEF OwnBase, SharedInv, Types, DraftOK
  <2>3. PayloadIdOf(list) # Jobs[j].payload_id
    BY <2>1, <2>2 DEF InStep, Accepts, ContinuesPayload
  <2>4. BaseOf(list).timestamp \in Nat
    BY DEF SharedInv, Types
  <2>5. ASSUME BaseOf(list).timestamp < Jobs[j].base.timestamp PROVE FALSE
    <3>1. draft[j].index = 0
      BY <2>1, <2>3, <2>5 DEF InStep
    <3>2. draft[j].base # None /\ draft[j].base.timestamp > BaseOf(list).timestamp
      BY <2>2, <2>4, <2>5, JobFacts
    <3> QED  BY <2>2, <2>3, <3>1, <3>2 DEF Accepts, StartsNewPayload
  <2> QED  BY <2>3, <2>4, <2>5, JobFacts
<1> QED  BY <1>1, Invariance, PTL

(***************************************************************************)
(* A job ends with what it published, or with all it has; overlapping or   *)
(* not (platform.rs:71-89, 166-198).                                       *)
(***************************************************************************)
THEOREM ResultsAreWhole == PublishSpec => []ResultIsWhole
<1>1. SharedInv => ResultIsWhole
  BY DEF SharedInv
<1> QED  BY <1>1, Invariance, PTL

-----------------------------------------------------------------------------
(***************************************************************************)
(* What the collection reduces to.  Reduce is a recursive function on the  *)
(* indices of the collection; what is needed of it is one step.            *)
(***************************************************************************)

(***************************************************************************)
(* Every set of naturals that is not empty has a least element.            *)
(***************************************************************************)
LEMMA LeastElement ==
  ASSUME NEW T, T \subseteq Nat, T # {}
  PROVE  \E n \in T : \A m \in T : n <= m
<1>1. IsWellFoundedOn(OpToRel(<, Nat), Nat)
  BY NatLessThanWellFounded, Zenon
<1>2. PICK n \in T : \A m \in T : ~(<<m, n>> \in OpToRel(<, Nat))
  BY <1>1, WFMin, Zenon
<1>3. \A m \in T : ~(m < n)
  BY <1>2 DEF OpToRel
<1> QED BY <1>3

(***************************************************************************)
(* A set that has 0, and n + 1 with every n, has all naturals: induction   *)
(* for a property that is given as a set.                                  *)
(***************************************************************************)
LEMMA SetInduction ==
  ASSUME NEW S, 0 \in S, \A n \in Nat : n \in S => n + 1 \in S
  PROVE  Nat \subseteq S
<1> SUFFICES ASSUME NEW x \in Nat, x \notin S PROVE FALSE
  OBVIOUS
<1> DEFINE T == {n \in Nat : n \notin S}
<1>1. PICK n \in T : \A m \in T : n <= m
  BY LeastElement
<1>2. n - 1 \in Nat /\ n - 1 \notin T
  BY <1>1
<1> QED BY <1>2

\* h has what the first n elements of `s` reduce to, one after the other.
ReducesTo(h, s, n) ==
  h = [k \in 1 .. n |-> IF k = 1 THEN Head(s) ELSE ReduceStep(h[k - 1], s[k])]

(***************************************************************************)
(* The recursion that defines Reduce has a solution.                       *)
(***************************************************************************)
LEMMA ReductionExists ==
  ASSUME NEW s, NEW n \in Nat
  PROVE  \E h : ReducesTo(h, s, n)
<1> DEFINE S == {k \in Nat : \E h : ReducesTo(h, s, k)}
<1>1. 0 \in S
  <2> DEFINE h == [k \in 1 .. 0 |-> Head(s)]
  <2>1. ReducesTo(h, s, 0)
    BY DEF ReducesTo
  <2> QED BY <2>1
<1>2. ASSUME NEW k \in Nat, k \in S PROVE k + 1 \in S
  <2>1. PICK h : ReducesTo(h, s, k)
    BY <1>2
  <2> DEFINE last == IF k = 0 THEN Head(s) ELSE ReduceStep(h[k], s[k + 1])
             g == [i \in 1 .. (k + 1) |-> IF i = k + 1 THEN last ELSE h[i]]
  <2>2. \A i \in 1 .. k : g[i] = h[i]
    OBVIOUS
  <2>3. g[k + 1] = last
    OBVIOUS
  <2> HIDE DEF g
  <2>4. ASSUME NEW i \in 1 .. (k + 1)
        PROVE  g[i] = IF i = 1 THEN Head(s) ELSE ReduceStep(g[i - 1], s[i])
    <3>1. CASE i = k + 1
      <4>1. i - 1 = k /\ (i = 1 <=> k = 0) /\ (k # 0 => k \in 1 .. k)
        BY <3>1
      <4> QED BY <3>1, <4>1, <2>2, <2>3
    <3>2. CASE i \in 1 .. k
      <4>1. i # 1 => i - 1 \in 1 .. k
        BY <3>2
      <4>2. h[i] = IF i = 1 THEN Head(s) ELSE ReduceStep(h[i - 1], s[i])
        BY <3>2, <2>1 DEF ReducesTo
      <4> QED BY <3>2, <4>1, <4>2, <2>2
    <3> QED BY <3>1, <3>2
  <2>5. ReducesTo(g, s, k + 1)
    BY <2>4 DEF ReducesTo, g
  <2> QED BY <2>5
<1> HIDE DEF S
<1>3. Nat \subseteq S
  BY <1>1, <1>2, SetInduction
<1> QED BY <1>3 DEF S

(***************************************************************************)
(* reduce takes the flashblocks one after the other (primitives.rs:        *)
(* 372-419).                                                               *)
(***************************************************************************)
LEMMA ReduceOneByOne ==
  ASSUME NEW s, NEW n \in Nat, DOMAIN s = 1 .. n, Len(s) = n
  PROVE  \E g : ReducesTo(g, s, n) /\ Reduce(s) = g[n]
<1> DEFINE g == CHOOSE h : ReducesTo(h, s, n)
<1>1. Reduce(s) = g[n]
  BY DEF Reduce, ReducesTo
<1>2. ReducesTo(g, s, n)
  BY ReductionExists
<1> QED BY <1>1, <1>2

(***************************************************************************)
(* A collection of one flashblock reduces to that flashblock.              *)
(***************************************************************************)
LEMMA ReduceOfOne ==
  ASSUME NEW fb
  PROVE  Reduce(<<fb>>) = fb
<1>1. 1 \in Nat /\ DOMAIN <<fb>> = 1 .. 1 /\ Len(<<fb>>) = 1 /\ Head(<<fb>>) = fb
  OBVIOUS
<1>2. PICK g : ReducesTo(g, <<fb>>, 1) /\ Reduce(<<fb>>) = g[1]
  BY <1>1, ReduceOneByOne
<1> QED BY <1>1, <1>2 DEF ReducesTo

(***************************************************************************)
(* One more flashblock is one more iteration of reduce.                    *)
(***************************************************************************)
LEMMA ReduceOfNext ==
  ASSUME NEW s, IsSequence(s), s # <<>>, NEW fb
  PROVE  Reduce(Append(s, fb)) = ReduceStep(Reduce(s), fb)
<1> DEFINE S == {s[k] : k \in DOMAIN s} \cup {fb}
           n == Len(s)
           next == Append(s, fb)
<1>1. s \in Seq(S) /\ fb \in S
  BY DEF IsSequence
<1>2. /\ n \in Nat /\ n >= 1 /\ n + 1 \in Nat /\ DOMAIN s = 1 .. n
      /\ DOMAIN next = 1 .. (n + 1) /\ Len(next) = n + 1
      /\ next[n + 1] = fb /\ \A k \in 1 .. n : next[k] = s[k]
      /\ Head(next) = Head(s)
  BY <1>1
<1>3. PICK g : ReducesTo(g, s, n) /\ Reduce(s) = g[n]
  BY <1>2, ReduceOneByOne
<1>4. PICK h : ReducesTo(h, next, n + 1) /\ Reduce(next) = h[n + 1]
  <2> HIDE DEF n, next
  <2> QED BY <1>2, ReduceOneByOne
<1> HIDE DEF n, next, S
<1> DEFINE T == {i \in Nat : i + 1 <= n => h[i + 1] = g[i + 1]}
<1>5. 0 \in T
  <2>1. 1 \in 1 .. n /\ 1 \in 1 .. (n + 1) /\ 0 + 1 = 1
    BY <1>2
  <2> QED BY <2>1, <1>2, <1>3, <1>4 DEF ReducesTo
<1>6. ASSUME NEW i \in Nat, i \in T PROVE i + 1 \in T
  <2> SUFFICES ASSUME (i + 1) + 1 <= n PROVE h[(i + 1) + 1] = g[(i + 1) + 1]
    OBVIOUS
  <2> DEFINE k == (i + 1) + 1
  <2>1. k \in 1 .. n /\ k \in 1 .. (n + 1) /\ k # 1 /\ k - 1 = i + 1
    BY <1>2
  <2>2. h[i + 1] = g[i + 1]
    BY <1>2, <1>6
  <2> HIDE DEF k
  <2>3. g[k] = ReduceStep(g[k - 1], s[k])
    BY <2>1, <1>3 DEF ReducesTo
  <2>4. h[k] = ReduceStep(h[k - 1], next[k])
    BY <2>1, <1>4 DEF ReducesTo
  <2> QED BY <2>1, <2>2, <2>3, <2>4, <1>2 DEF k
<1> HIDE DEF T
<1>7. Nat \subseteq T
  BY <1>5, <1>6, SetInduction
<1>8. h[n] = g[n]
  <2>1. n - 1 \in Nat /\ (n - 1) + 1 = n
    BY <1>2
  <2> QED BY <2>1, <1>7 DEF T
<1>9. h[n + 1] = ReduceStep(h[n], next[n + 1])
  <2>1. n + 1 \in 1 .. (n + 1) /\ n + 1 # 1 /\ (n + 1) - 1 = n
    BY <1>2
  <2> QED BY <2>1, <1>4 DEF ReducesTo
<1> QED BY <1>2, <1>3, <1>4, <1>8, <1>9 DEF next

\* What reduce reads and replaces.
ReducedFields == {"index", "base", "block_hash", "executed", "access_list", "txs"}

(***************************************************************************)
(* What an iteration of reduce keeps, replaces and appends (primitives.rs: *)
(* 372-419).                                                               *)
(***************************************************************************)
LEMMA ReduceStepFacts ==
  ASSUME NEW acc, ReducedFields \subseteq DOMAIN acc, acc.base # None, NEW next
  PROVE  /\ ReducedFields \subseteq DOMAIN ReduceStep(acc, next)
         /\ ReduceStep(acc, next).base = acc.base
         /\ ReduceStep(acc, next).block_hash = next.block_hash
         /\ ReduceStep(acc, next).executed = next.executed
         /\ ReduceStep(acc, next).txs = acc.txs \o next.txs
<1> DEFINE r == ReduceStep(acc, next)
<1>1. DOMAIN r = DOMAIN acc
  BY DEF ReduceStep
<1>2. /\ "base" \in DOMAIN acc /\ "block_hash" \in DOMAIN acc
      /\ "executed" \in DOMAIN acc /\ "txs" \in DOMAIN acc
  BY DEF ReducedFields
<1>3. r.base = acc.base
  BY <1>2 DEF ReduceStep
<1>4. r.block_hash = next.block_hash
  BY <1>2 DEF ReduceStep
<1>5. r.txs = acc.txs \o next.txs
  BY <1>2 DEF ReduceStep
<1>6. r.executed = next.executed
  BY <1>2 DEF ReduceStep
<1> QED BY <1>1, <1>3, <1>4, <1>5, <1>6

\* The flashblock that a job prepares carries what the collection does not
\* have of its history, and describes the execution of its block.
SpanOK(j) ==
  /\ phase[j] \in {"spanned", "numbered", "based"} =>
       draft[j].txs = IF Spent(j) = 0 THEN txs[j] ELSE UnpublishedSinceBarrier(j)
  /\ phase[j] = "based" =>
       /\ ReducedFields \subseteq DOMAIN draft[j]
       /\ draft[j].executed = draft[j].block_hash.executed
       /\ draft[j].access_list = draft[j].block_hash.txs

\* The collection is at the job's payload: it reduces to what the job built.
Reduced(j) ==
  PayloadIdOf(list) = Jobs[j].payload_id =>
    /\ ReducedFields \subseteq DOMAIN Reduce(list)
    /\ Reduce(list).base = Jobs[j].base
    /\ Reduce(list).block_hash = built[j]
    /\ Reduce(list).executed = built[j].executed
    /\ Reduce(list).txs = built[j].txs
    /\ Len(list) = 1 => Reduce(list).access_list = built[j].txs

ReducedInv == \A j \in Job : Alone(j) => SpanOK(j) /\ Reduced(j)

(***************************************************************************)
(* The collection takes the job's flashblock: a first one is all there is, *)
(* a later one brings what the collection lacks (publish_flashblocks.rs:   *)
(* 187-216, primitives.rs:561-593).                                        *)
(***************************************************************************)
LEMMA PublishedReduces ==
  ASSUME SharedInv, AloneInv, NEW k \in Job, k \notin overlapped, SpanOK(k), Reduced(k),
         phase[k] = "based", Accepts(list, draft[k]),
         list' = Push(list, draft[k]), built'[k] = draft[k].block_hash
  PROVE  Reduced(k)'
<1> DEFINE d == draft[k]
<1>1. OwnBase(k) /\ InStep(k) /\ Executed(k)
  BY DEF AloneInv, Alone
<1>2. /\ IsSequence(list) /\ WellFormed(list)
      /\ txs[k] \in Seq(Tx) /\ barrier[k] \in 0 .. Len(txs[k])
  <2>1. TypeOK /\ IsSequence(list)
    BY DEF SharedInv, Types
  <2> QED BY <2>1 DEF TypeOK
<1>3. /\ d.index \in Nat /\ d.block_hash.txs = txs[k]
      /\ d.payload_id = Jobs[k].payload_id /\ d.base = Jobs[k].base
  BY <1>1 DEF SharedInv, Types, DraftOK, OwnBase
<1>4. /\ Spent(k) = d.index /\ ReducedFields \subseteq DOMAIN d
      /\ d.executed = d.block_hash.executed /\ d.access_list = d.block_hash.txs
      /\ d.txs = IF d.index = 0 THEN txs[k] ELSE UnpublishedSinceBarrier(k)
  BY DEF SpanOK, Spent
<1>5. CASE StartsNewPayload(list, d)
  <2>1. list' = <<d>> /\ d.index = 0
    BY <1>5 DEF Push, StartsNewPayload
  <2>2. Reduce(list') = d
    BY <2>1, ReduceOfOne
  <2> QED BY <1>3, <1>4, <2>1, <2>2 DEF Reduced
<1>6. CASE ~StartsNewPayload(list, d)
  <2>1. list' = Append(list, d) /\ ContinuesPayload(list, d)
    BY <1>6 DEF Push, Accepts
  <2>2. PayloadIdOf(list) = Jobs[k].payload_id /\ d.index = Len(list)
    BY <1>3, <2>1 DEF ContinuesPayload
  <2>3. list # <<>> /\ d.index # 0
    <3>1. list # <<>>
      BY <1>2 DEF WellFormed
    <3> QED BY <1>2, <2>2, <3>1 DEF IsSequence
  <2>4. built[k] # None /\ built[k].txs = SubSeq(txs[k], 1, barrier[k])
    BY <2>2 DEF SharedInv, PublishedIsBuilt
  <2> DEFINE r == Reduce(list)
  <2>5. ReducedFields \subseteq DOMAIN r /\ r.base = Jobs[k].base /\ r.txs = built[k].txs
    BY <2>2 DEF Reduced
  <2>6. r.base # None
    BY <2>5, JobFacts
  <2>7. Reduce(list') = ReduceStep(r, d)
    BY <1>2, <2>1, <2>3, ReduceOfNext
  <2> HIDE DEF r, d
  <2>8. /\ ReducedFields \subseteq DOMAIN ReduceStep(r, d) /\ ReduceStep(r, d).base = r.base
        /\ ReduceStep(r, d).block_hash = d.block_hash
        /\ ReduceStep(r, d).executed = d.executed
        /\ ReduceStep(r, d).txs = r.txs \o d.txs
    <3>1. ReducedFields \subseteq DOMAIN r /\ r.base # None
      BY <2>5, <2>6
    <3> QED BY <3>1, ReduceStepFacts, Zenon
  <2>9. r.txs \o d.txs = txs[k]
    <3>1. r.txs = SubSeq(txs[k], 1, barrier[k])
      BY <2>4, <2>5
    <3>2. d.txs = SubSeq(txs[k], barrier[k] + 1, Len(txs[k]))
      BY <1>4, <2>3 DEF UnpublishedSinceBarrier
    <3> QED BY <1>2, <3>1, <3>2, SpanFacts
  <2>10. Len(list') # 1
    <3>1. Len(list') = Len(list) + 1 /\ Len(list) \in Nat \ {0}
      BY <1>2, <2>1, <2>3 DEF IsSequence
    <3> QED BY <3>1
  <2> QED BY <1>3, <1>4, <2>5, <2>7, <2>8, <2>9, <2>10 DEF Reduced, d
<1> QED BY <1>5, <1>6

(***************************************************************************)
(* The steps of a job that runs alone: the span is taken and numbered at   *)
(* the same count (publish_flashblocks.rs:142-184).                        *)
(***************************************************************************)
LEMMA OwnReducedStep ==
  ASSUME SharedInv, AloneInv, NEW k \in Job, k \notin overlapped, SpanOK(k), Reduced(k),
         \/ \E tx \in Tx : AppendOrder(k, tx)
         \/ BuildBlock(k) \/ TakeSpan(k) \/ TakeNumber(k) \/ TakeBase(k) \/ Publish(k)
         \/ FinishJob(k) \/ FailJob(k) \/ ResetNumber(k) \/ ResetBase(k)
  PROVE  SpanOK(k)' /\ Reduced(k)'
<1>0. phase \in [Job -> Phase] /\ built \in [Job -> Block \cup {None}] /\ DOMAIN draft = Job
  <2>1. TypeOK /\ DOMAIN draft = Job
    BY DEF SharedInv, Types
  <2> QED BY <2>1 DEF TypeOK
<1>1. CASE \/ \E tx \in Tx : AppendOrder(k, tx)
           \/ BuildBlock(k) \/ FinishJob(k) \/ FailJob(k) \/ ResetNumber(k) \/ ResetBase(k)
  <2>1. UNCHANGED <<list, built>> /\ phase'[k] \in {"running", "built", "ending", "reset", "done"}
    BY <1>0, <1>1 DEF AppendOrder, BuildBlock, FinishJob, FailJob, EndJob, ResetNumber, ResetBase,
                      shared, payload
  <2> QED BY <2>1 DEF SpanOK, Reduced
<1>2. CASE TakeSpan(k)
  <2>1. /\ UNCHANGED <<list, built, block_number, txs, barrier>> /\ phase'[k] = "spanned"
        /\ draft'[k].txs = Unpublished(k)
    BY <1>0, <1>2 DEF TakeSpan, shared, payload
  <2>2. Spent(k)' = block_number
    BY <2>1 DEF Spent
  <2> QED BY <2>1, <2>2 DEF SpanOK, Reduced, Unpublished, UnpublishedSinceBarrier
<1>3. CASE TakeNumber(k)
  <2>1. /\ UNCHANGED <<list, built, txs, barrier>>
        /\ phase[k] = "spanned" /\ phase'[k] = "numbered"
        /\ draft'[k].txs = draft[k].txs /\ draft'[k].index = block_number
    BY <1>0, <1>3 DEF TakeNumber, payload
  <2>2. Spent(k)' = Spent(k)
    BY <2>1 DEF Spent
  <2> QED BY <2>1, <2>2 DEF SpanOK, Reduced, UnpublishedSinceBarrier
<1>4. CASE TakeBase(k)
  <2>1. /\ UNCHANGED <<list, built, txs, barrier>>
        /\ phase[k] = "numbered" /\ phase'[k] = "based"
        /\ draft'[k].txs = draft[k].txs /\ draft'[k].index = draft[k].index
        /\ ReducedFields \subseteq DOMAIN draft'[k]
        /\ draft'[k].executed = draft'[k].block_hash.executed
        /\ draft'[k].access_list = draft'[k].block_hash.txs
    BY <1>0, <1>4 DEF TakeBase, shared, payload, ReducedFields
  <2>2. Spent(k)' = Spent(k)
    BY <2>1 DEF Spent
  <2> QED BY <2>1, <2>2 DEF SpanOK, Reduced, UnpublishedSinceBarrier
<1>5. CASE Publish(k)
  <2>1. phase[k] = "based" /\ phase'[k] = "running"
    BY <1>0, <1>5 DEF Publish
  <2>2. SpanOK(k)'
    BY <2>1 DEF SpanOK
  <2>3. CASE Accepts(list, draft[k])
    <3>1. list' = Push(list, draft[k]) /\ built'[k] = draft[k].block_hash
      BY <1>0, <1>5, <2>3 DEF Publish
    <3> QED BY <2>1, <2>2, <2>3, <3>1, PublishedReduces
  <2>4. CASE ~Accepts(list, draft[k])
    <3>1. UNCHANGED <<list, built>>
      BY <1>5, <2>4 DEF Publish
    <3> QED BY <2>2, <3>1 DEF Reduced
  <2> QED BY <2>3, <2>4
<1> QED BY <1>1, <1>2, <1>3, <1>4, <1>5

(***************************************************************************)
(* Whatever a step does, the collection at the payload of a job that has   *)
(* run alone reduces to what that job built: no other step touches it.     *)
(***************************************************************************)
LEMMA ReducedStep ==
  ASSUME SharedInv, AloneInv, PublishNext, NEW k \in Job, k \notin overlapped',
         SpanOK(k), Reduced(k)
  PROVE  SpanOK(k)' /\ Reduced(k)'
<1>0. k \notin overlapped /\ OverlapNoted /\ phase \in [Job -> Phase]
      /\ built \in [Job -> Block \cup {None}] /\ DOMAIN draft = Job
      /\ IsSequence(list) /\ WellFormed(list)
  <2>1. k \notin overlapped /\ OverlapNoted
    BY OverlapStep DEF AloneInv
  <2>2. TypeOK /\ DOMAIN draft = Job /\ IsSequence(list)
    BY DEF SharedInv, Types
  <2> QED BY <2>1, <2>2 DEF TypeOK
<1>1. CASE StartJob(k)
  <2>1. UNCHANGED <<list, built>> /\ phase[k] = "waiting" /\ phase'[k] = "running"
    BY <1>0, <1>1 DEF StartJob
  <2>2. PayloadIdOf(list) # Jobs[k].payload_id
    BY <2>1 DEF SharedInv, PublishedIsBuilt
  <2> QED BY <2>1, <2>2 DEF SpanOK, Reduced
<1>2. CASE \/ \E tx \in Tx : AppendOrder(k, tx)
           \/ BuildBlock(k) \/ TakeSpan(k) \/ TakeNumber(k) \/ TakeBase(k) \/ Publish(k)
           \/ FinishJob(k) \/ FailJob(k) \/ ResetNumber(k) \/ ResetBase(k)
  BY <1>0, <1>2, OwnReducedStep
<1>3. ASSUME NEW j \in Job, j # k,
             \/ StartJob(j)
             \/ \E tx \in Tx : AppendOrder(j, tx)
             \/ BuildBlock(j) \/ TakeSpan(j) \/ TakeNumber(j) \/ TakeBase(j) \/ Publish(j)
             \/ FinishJob(j) \/ FailJob(j) \/ ResetNumber(j) \/ ResetBase(j)
      PROVE  SpanOK(k)' /\ Reduced(k)'
  <2>1. ~Active(k)
    <3>1. CASE StartJob(j)
      BY <3>1 DEF StartJob
    <3>2. CASE ~StartJob(j)
      <4>1. Active(j)
        BY <1>3, <3>2 DEF AppendOrder, BuildBlock, TakeSpan, TakeNumber, TakeBase, Publish,
                          FinishJob, FailJob, EndJob, ResetNumber, ResetBase, Active
      <4> QED  BY <1>0, <1>3, <4>1 DEF OverlapNoted
    <3> QED  BY <3>1, <3>2
  <2>2. phase'[k] = phase[k] /\ built'[k] = built[k]
    BY <1>0, <1>3 DEF StartJob, AppendOrder, BuildBlock, TakeSpan, TakeNumber, TakeBase, Publish,
                      FinishJob, FailJob, EndJob, ResetNumber, ResetBase, payload
  <2>3. list' = list \/ PayloadIdOf(list') # Jobs[k].payload_id
    <3>1. CASE Publish(j) /\ Accepts(list, draft[j])
      <4>1. list' = Push(list, draft[j]) /\ draft[j].payload_id = Jobs[j].payload_id
        BY <3>1 DEF Publish, SharedInv, Types, DraftOK
      <4>2. PayloadIdOf(list') = Jobs[j].payload_id
        BY <1>0, <3>1, <4>1, PushFacts
      <4> QED  BY <1>3, <4>2, JobFacts
    <3>2. CASE Publish(j) /\ ~Accepts(list, draft[j])
      BY <3>2 DEF Publish
    <3>3. CASE ~Publish(j)
      BY <1>3, <3>3 DEF StartJob, AppendOrder, BuildBlock, TakeSpan, TakeNumber, TakeBase,
                        FinishJob, FailJob, EndJob, ResetNumber, ResetBase, shared
    <3> QED  BY <3>1, <3>2, <3>3
  <2>4. SpanOK(k)'
    BY <2>1, <2>2 DEF SpanOK, Active
  <2>5. Reduced(k)'
    <3>1. CASE list' = list
      BY <2>2, <3>1 DEF Reduced
    <3>2. CASE PayloadIdOf(list') # Jobs[k].payload_id
      BY <3>2 DEF Reduced
    <3> QED BY <2>3, <3>1, <3>2
  <2> QED  BY <2>4, <2>5
<1>4. ASSUME NEW fb \in RemoteFlashblock, RemotePush(fb)
      PROVE  SpanOK(k)' /\ Reduced(k)'
  <2>1. /\ UNCHANGED <<block_number, phase, txs, barrier, draft>>
        /\ list' = Push(list, fb) /\ Accepts(list, fb)
    BY <1>4 DEF RemotePush, payload
  <2>2. PayloadIdOf(list') # Jobs[k].payload_id
    BY <1>0, <2>1, PushFacts, JobFacts
  <2>3. Reduced(k)'
    BY <2>2 DEF Reduced
  <2> QED  BY <2>1, <2>3 DEF SpanOK, Spent, UnpublishedSinceBarrier
<1> QED  BY <1>1, <1>2, <1>3, <1>4 DEF PublishNext

(***************************************************************************)
(* The collection of a job that runs alone, reduced and converted, names   *)
(* the job's latest block and has its base, transactions and execution,    *)
(* for every number of flashblocks, failed publishes and competing         *)
(* builders (publish_flashblocks.rs:93-98, 142-184, 211-216,               *)
(* primitives.rs:383-488).  The other header fields are not the block's.   *)
(***************************************************************************)
THEOREM ReducesToTheBlock == PublishSpec => []ReducesToBuilt
<1>1. PublishInit => ReducedInv
  <2> SUFFICES ASSUME PublishInit, NEW j \in Job PROVE SpanOK(j) /\ Reduced(j)
    BY DEF ReducedInv
  <2>1. phase[j] = "waiting" /\ built[j] = None
    BY DEF PublishInit
  <2>2. PayloadIdOf(list) # Jobs[j].payload_id
    BY InitSharedInv, <2>1 DEF SharedInv, PublishedIsBuilt
  <2> QED BY <2>1, <2>2 DEF SpanOK, Reduced
<1>2. SharedInv /\ AloneInv /\ ReducedInv /\ [PublishNext]_vars => ReducedInv'
  <2>1. ASSUME SharedInv, AloneInv, ReducedInv, PublishNext, NEW k \in Job, Alone(k)'
        PROVE  SpanOK(k)' /\ Reduced(k)'
    <3>1. k \notin overlapped'
      BY <2>1 DEF Alone
    <3>2. k \notin overlapped
      BY <2>1, <3>1, OverlapStep DEF AloneInv
    <3>3. SpanOK(k) /\ Reduced(k)
      BY <2>1, <3>2 DEF ReducedInv, Alone
    <3> QED BY <2>1, <3>1, <3>3, ReducedStep
  <2>2. ASSUME ReducedInv, UNCHANGED vars PROVE ReducedInv'
    <3>1. UNCHANGED <<list, block_number, phase, txs, barrier, built, draft, overlapped>>
      BY <2>2 DEF vars, shared, payload
    <3> QED BY <2>2, <3>1 DEF ReducedInv, Alone, SpanOK, Reduced, Spent, UnpublishedSinceBarrier
  <2> QED BY <2>1, <2>2 DEF ReducedInv
<1>3. ReducedInv => ReducesToBuilt
  <2> SUFFICES ASSUME ReducedInv, NEW j \in Job, Alone(j),
                      PayloadIdOf(list) = Jobs[j].payload_id
               PROVE  /\ Reduce(list).block_hash = built[j]
                      /\ BlockOf(list).txs = built[j].txs
                      /\ BlockOf(list).header.transactions_root = built[j].txs
                      /\ BlockOf(list).header.executed = built[j].executed
                      /\ BlockOf(list).header.base = Jobs[j].base
                      /\ Len(list) = 1 => BlockOf(list).access_list = built[j].txs
    BY DEF ReducesToBuilt
  <2> DEFINE r == Reduce(list)
  <2>1. /\ r.base = Jobs[j].base /\ r.block_hash = built[j]
        /\ r.executed = built[j].executed /\ r.txs = built[j].txs
        /\ Len(list) = 1 => r.access_list = built[j].txs
    BY DEF ReducedInv, Reduced
  <2>2. r.base # None
    BY <2>1, JobFacts
  <2>3. BlockOf(list) = BlockOfReduced(r)
    BY DEF BlockOf
  <2> HIDE DEF r
  <2>4. /\ BlockOf(list).txs = r.txs /\ BlockOf(list).access_list = r.access_list
        /\ BlockOf(list).header.transactions_root = r.txs
        /\ BlockOf(list).header.executed = r.executed
        /\ BlockOf(list).header.base = r.base
    BY <2>2, <2>3 DEF BlockOfReduced
  <2> QED BY <2>1, <2>4 DEF r
<1> QED  BY <1>1, <1>2, <1>3, Invariance, PTL DEF PublishSpec

=============================================================================
