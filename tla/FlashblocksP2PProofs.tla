------------------------ MODULE FlashblocksP2PProofs ------------------------
(***************************************************************************)
(* Proofs about FlashblocksP2P, for every set of flashblocks and every     *)
(* MAX_FLASHBLOCK_INDEX.                                                   *)
(***************************************************************************)
EXTENDS FlashblocksP2P, TLAPS

\* The flashblock emitted last is the one just below the frontier.
LastEmitted ==
  flashblock_index > 0 =>
    /\ Len(flashblock_tx) > 0
    /\ flashblock_tx[Len(flashblock_tx)] = flashblocks[flashblock_index - 1]

\* Every cached flashblock was broadcast, except the oversize ones.
CachedWasBroadcast ==
  \A i \in Slot : flashblocks[i] # None =>
    flashblocks[i].oversize \/ \E j \in 1 .. Len(peer_tx) : peer_tx[j] = flashblocks[i]

\* The inductive invariant.
IInv ==
  /\ P2PTypeOK
  /\ BufferCoherent
  /\ LastEmitted
  /\ InOrder
  /\ FrontierAtGap
  /\ CachedWasBroadcast
  /\ EmittedWasBroadcast

-----------------------------------------------------------------------------
(***************************************************************************)
(* What appending one element yields, element by element.                  *)
(***************************************************************************)
LEMMA AppendFacts ==
  ASSUME NEW S, NEW s \in Seq(S), NEW e \in S
  PROVE  /\ Append(s, e) \in Seq(S)
         /\ Len(Append(s, e)) = Len(s) + 1
         /\ \A k \in 1 .. Len(s) : Append(s, e)[k] = s[k]
         /\ Append(s, e)[Len(s) + 1] = e
  OBVIOUS

(***************************************************************************)
(* A run of ready slots is a sequence of flashblocks.                      *)
(***************************************************************************)
LEMMA RunFacts ==
  ASSUME NEW buffer \in [Slot -> Flashblock \cup {None}],
         NEW lo \in Nat, NEW hi \in Nat, lo <= hi,
         \A i \in lo .. (hi - 1) : Ready(buffer, i)
  PROVE  /\ Run(buffer, lo, hi) \in Seq(Flashblock)
         /\ Len(Run(buffer, lo, hi)) = hi - lo
         /\ \A k \in 1 .. (hi - lo) :
              /\ Run(buffer, lo, hi)[k] = buffer[lo + k - 1]
              /\ lo + k - 1 \in Slot
              /\ buffer[lo + k - 1] \in Flashblock
<1> DEFINE r == Run(buffer, lo, hi)
<1>1. \A k \in 1 .. (hi - lo) : lo + k - 1 \in lo .. (hi - 1)
  OBVIOUS
<1>2. \A k \in 1 .. (hi - lo) : lo + k - 1 \in Slot /\ buffer[lo + k - 1] \in Flashblock
  BY <1>1 DEF Ready
<1>3. \A k \in 1 .. (hi - lo) : r[k] = buffer[lo + k - 1]
  BY DEF Run
<1>4. r \in [1 .. (hi - lo) -> Flashblock]
  BY <1>2 DEF Run
<1>5. hi - lo \in Nat
  OBVIOUS
<1>6. r \in Seq(Flashblock) /\ Len(r) = hi - lo
  BY <1>4, <1>5
<1> QED  BY <1>2, <1>3, <1>6

(***************************************************************************)
(* Step 1 of publish leaves a coherent buffer and frontier for the payload *)
(* of the flashblock at hand, whichever payload was current.               *)
(***************************************************************************)
LEMMA ResetFacts ==
  ASSUME IInv, NEW fb \in Flashblock
  PROVE  /\ BufferFor(fb) \in [Slot -> Flashblock \cup {None}]
         /\ FrontierFor(fb) \in 0 .. (MAX_FLASHBLOCK_INDEX + 1)
         /\ \A i \in Slot : BufferFor(fb)[i] # None =>
              /\ BufferFor(fb)[i].payload_id = fb.payload_id
              /\ BufferFor(fb)[i].index = i
              /\ \/ BufferFor(fb)[i].oversize
                 \/ \E j \in 1 .. Len(peer_tx) : peer_tx[j] = BufferFor(fb)[i]
         /\ \A i \in 0 .. (FrontierFor(fb) - 1) : BufferFor(fb)[i] # None
         /\ FrontierFor(fb) > 0 =>
              /\ Len(flashblock_tx) > 0
              /\ flashblock_tx[Len(flashblock_tx)] = BufferFor(fb)[FrontierFor(fb) - 1]
         /\ Ready(BufferFor(fb), FrontierFor(fb)) => BufferFor(fb)[FrontierFor(fb)].oversize
<1>1. CASE fb.payload_id = payload_id
  BY <1>1 DEF IInv, P2PTypeOK, BufferCoherent, LastEmitted, FrontierAtGap,
              CachedWasBroadcast, BufferFor, FrontierFor
<1>2. CASE fb.payload_id # payload_id
  BY <1>2, P2PAssumption DEF BufferFor, FrontierFor, EmptyBuffer, Ready, Slot
<1> QED  BY <1>1, <1>2

(***************************************************************************)
(* The initial state satisfies the inductive invariant.                    *)
(***************************************************************************)
LEMMA InitIInv == Init => IInv
<1> SUFFICES ASSUME Init PROVE IInv
  OBVIOUS
<1>1. P2PTypeOK
  BY P2PAssumption DEF Init, P2PTypeOK, EmptyBuffer, Slot
<1>2. BufferCoherent
  BY DEF Init, BufferCoherent, EmptyBuffer
<1>3. LastEmitted /\ InOrder
  BY DEF Init, LastEmitted, InOrder
<1>4. FrontierAtGap
  BY DEF Init, FrontierAtGap, Ready, EmptyBuffer
<1>5. CachedWasBroadcast /\ EmittedWasBroadcast
  BY DEF Init, CachedWasBroadcast, EmittedWasBroadcast, EmptyBuffer
<1> QED  BY <1>1, <1>2, <1>3, <1>4, <1>5 DEF IInv

(***************************************************************************)
(* A flashblock above MAX_FLASHBLOCK_INDEX at most resets the buffer.      *)
(***************************************************************************)
LEMMA RejectIndexIInv ==
  ASSUME IInv, NEW fb \in Flashblock, RejectIndex(fb)
  PROVE  IInv'
<1> USE ResetFacts
<1>1. fb.payload_id \in PayloadId
  BY P2PAssumption
<1>2. P2PTypeOK'
  BY <1>1 DEF IInv, P2PTypeOK, RejectIndex
<1>3. BufferCoherent'
  BY DEF BufferCoherent, RejectIndex
<1>4. LastEmitted'
  BY DEF LastEmitted, RejectIndex
<1>5. InOrder' /\ EmittedWasBroadcast'
  BY DEF IInv, InOrder, EmittedWasBroadcast, RejectIndex
<1>6. FrontierAtGap'
  BY DEF FrontierAtGap, RejectIndex, Ready
<1>7. CachedWasBroadcast'
  BY DEF CachedWasBroadcast, RejectIndex
<1> QED  BY <1>2, <1>3, <1>4, <1>5, <1>6, <1>7 DEF IInv

(***************************************************************************)
(* An oversize flashblock is cached at its own slot and nothing is sent.   *)
(***************************************************************************)
LEMMA CacheOversizeIInv ==
  ASSUME IInv, NEW fb \in Flashblock, CacheOversize(fb)
  PROVE  IInv'
<1> DEFINE b == BufferFor(fb)
           f == FrontierFor(fb)
<1>0. /\ fb.payload_id \in PayloadId
      /\ fb.index \in Slot
      /\ fb # None
      /\ fb.oversize
  BY P2PAssumption DEF CacheOversize, Slot
<1>1. /\ b \in [Slot -> Flashblock \cup {None}]
      /\ f \in 0 .. (MAX_FLASHBLOCK_INDEX + 1)
      /\ flashblocks' = [b EXCEPT ![fb.index] = fb]
      /\ b[fb.index] = None
      /\ payload_id' = fb.payload_id
      /\ flashblock_index' = f
      /\ UNCHANGED <<peer_tx, flashblock_tx>>
  BY ResetFacts DEF CacheOversize
<1>2. \A i \in Slot : flashblocks'[i] = IF i = fb.index THEN fb ELSE b[i]
  BY <1>0, <1>1
<1>3. \A i \in 0 .. (f - 1) : i \in Slot /\ i # fb.index
  BY <1>0, <1>1, ResetFacts, P2PAssumption DEF Slot
<1>4. P2PTypeOK'
  BY <1>0, <1>1 DEF IInv, P2PTypeOK
<1>5. BufferCoherent'
  <2>1. \A i \in Slot : flashblocks'[i] # None =>
          flashblocks'[i].payload_id = payload_id' /\ flashblocks'[i].index = i
    BY <1>0, <1>1, <1>2, ResetFacts
  <2>2. \A i \in 0 .. (f - 1) : flashblocks'[i] # None
    BY <1>2, <1>3, ResetFacts
  <2> QED  BY <1>1, <2>1, <2>2 DEF BufferCoherent
<1>6. LastEmitted'
  BY <1>1, <1>2, <1>3, ResetFacts DEF LastEmitted
<1>7. InOrder' /\ EmittedWasBroadcast'
  BY <1>1 DEF IInv, InOrder, EmittedWasBroadcast
<1>8. FrontierAtGap'
  BY <1>0, <1>1, <1>2, ResetFacts DEF FrontierAtGap, Ready
<1>9. CachedWasBroadcast'
  BY <1>0, <1>1, <1>2, ResetFacts DEF CachedWasBroadcast
<1> QED  BY <1>4, <1>5, <1>6, <1>7, <1>8, <1>9 DEF IInv

(***************************************************************************)
(* A broadcast flashblock is cached, sent to the connections, and the run  *)
(* of flashblocks that became ready is emitted behind what was emitted.    *)
(***************************************************************************)
LEMMA CacheAndBroadcastIInv ==
  ASSUME IInv, NEW fb \in Flashblock, CacheAndBroadcast(fb)
  PROVE  IInv'
<1> DEFINE b == BufferFor(fb)
           f == FrontierFor(fb)
           c == [b EXCEPT ![fb.index] = fb]
           n == Len(flashblock_tx)
<1>0. /\ fb.payload_id \in PayloadId
      /\ fb.index \in Slot
      /\ fb # None
      /\ MAX_FLASHBLOCK_INDEX \in Nat
  BY P2PAssumption DEF CacheAndBroadcast, Slot
<1>1. /\ b \in [Slot -> Flashblock \cup {None}]
      /\ f \in 0 .. (MAX_FLASHBLOCK_INDEX + 1)
      /\ flashblocks' = c
      /\ b[fb.index] = None
      /\ payload_id' = fb.payload_id
      /\ peer_tx' = Append(peer_tx, fb)
      /\ peer_tx \in Seq(Flashblock)
      /\ flashblock_tx \in Seq(Flashblock)
  BY ResetFacts DEF CacheAndBroadcast, IInv, P2PTypeOK
<1>2. PICK hi \in f .. (MAX_FLASHBLOCK_INDEX + 1) :
        /\ \A i \in f .. (hi - 1) : Ready(c, i)
        /\ ~Ready(c, hi)
        /\ flashblock_tx' = flashblock_tx \o Run(c, f, hi)
        /\ flashblock_index' = hi
  BY <1>1 DEF CacheAndBroadcast, EmitConsecutive
<1> DEFINE r == Run(c, f, hi)
<1>3. /\ c \in [Slot -> Flashblock \cup {None}]
      /\ \A i \in Slot : c[i] = IF i = fb.index THEN fb ELSE b[i]
  BY <1>0, <1>1
<1>4. /\ f \in Nat /\ hi \in Nat /\ f <= hi
      /\ n \in Nat
  BY <1>0, <1>1, <1>2
<1>r. /\ \A i \in Slot : b[i] # None =>
           /\ b[i].payload_id = fb.payload_id
           /\ b[i].index = i
           /\ b[i].oversize \/ \E j \in 1 .. Len(peer_tx) : peer_tx[j] = b[i]
      /\ \A i \in 0 .. (f - 1) : b[i] # None
      /\ f > 0 => n > 0 /\ flashblock_tx[n] = b[f - 1]
  BY ResetFacts
<1>s. c[fb.index] = fb /\ \A i \in Slot : i # fb.index => c[i] = b[i]
  BY <1>0, <1>3
<1> HIDE DEF b, c, f
<1>5. /\ r \in Seq(Flashblock)
      /\ Len(r) = hi - f
      /\ \A k \in 1 .. (hi - f) :
           /\ r[k] = c[f + k - 1]
           /\ f + k - 1 \in Slot
           /\ c[f + k - 1] \in Flashblock
  BY <1>2, <1>3, <1>4, RunFacts
<1>6. /\ flashblock_tx' \in Seq(Flashblock)
      /\ Len(flashblock_tx') = n + (hi - f)
      /\ \A k \in 1 .. n : flashblock_tx'[k] = flashblock_tx[k]
      /\ \A k \in 1 .. (hi - f) : flashblock_tx'[n + k] = c[f + k - 1]
  <2> HIDE DEF r
  <2>1. flashblock_tx' = flashblock_tx \o r
    BY <1>2 DEF r
  <2>2. /\ flashblock_tx \o r \in Seq(Flashblock)
        /\ Len(flashblock_tx \o r) = n + Len(r)
        /\ \A k \in 1 .. n : (flashblock_tx \o r)[k] = flashblock_tx[k]
        /\ \A k \in 1 .. Len(r) : (flashblock_tx \o r)[n + k] = r[k]
    <3>1. flashblock_tx \in Seq(Flashblock) /\ r \in Seq(Flashblock)
      BY <1>1, <1>5
    <3> QED  BY <3>1
  <2> QED  BY <1>5, <2>1, <2>2
<1>7. /\ peer_tx' \in Seq(Flashblock)
      /\ Len(peer_tx') = Len(peer_tx) + 1
      /\ \A j \in 1 .. Len(peer_tx) : peer_tx'[j] = peer_tx[j]
      /\ peer_tx'[Len(peer_tx) + 1] = fb
      /\ Len(peer_tx) \in Nat
  BY <1>1, AppendFacts
<1>8. \A x : (\E j \in 1 .. Len(peer_tx) : peer_tx[j] = x)
               => \E j \in 1 .. Len(peer_tx') : peer_tx'[j] = x
  BY <1>7
<1>9. \E j \in 1 .. Len(peer_tx') : peer_tx'[j] = fb
  BY <1>7
<1>10. \A i \in Slot : c[i] # None =>
         /\ c[i].payload_id = fb.payload_id
         /\ c[i].index = i
         /\ c[i].oversize \/ \E j \in 1 .. Len(peer_tx') : peer_tx'[j] = c[i]
  <2> TAKE i \in Slot
  <2>1. CASE i = fb.index
    BY <2>1, <1>9, <1>s
  <2>2. CASE i # fb.index
    <3>1. c[i] = b[i]
      BY <2>2, <1>s
    <3>2. CASE b[i] # None
      <4>1. /\ b[i].payload_id = fb.payload_id
            /\ b[i].index = i
            /\ b[i].oversize \/ \E j \in 1 .. Len(peer_tx) : peer_tx[j] = b[i]
        BY <3>2, <1>r
      <4>2. (\E j \in 1 .. Len(peer_tx) : peer_tx[j] = b[i])
              => \E j \in 1 .. Len(peer_tx') : peer_tx'[j] = b[i]
        BY <1>8
      <4> QED  BY <3>1, <4>1, <4>2
    <3> QED  BY <3>1, <3>2
  <2> QED  BY <2>1, <2>2
<1>11. \A i \in 0 .. (hi - 1) : i \in Slot /\ c[i] # None
  <2> TAKE i \in 0 .. (hi - 1)
  <2>1. CASE i < f
    <3>1. i \in 0 .. (f - 1) /\ i \in Slot
      BY <2>1, <1>0, <1>1, <1>4 DEF Slot
    <3>2. b[i] # None
      BY <3>1, <1>r
    <3> QED  BY <3>1, <3>2, <1>0, <1>3
  <2>2. CASE i >= f
    BY <2>2, <1>2, <1>4 DEF Ready
  <2> QED  BY <2>1, <2>2, <1>4
<1>12. f > 0 => /\ n > 0
                /\ flashblock_tx[n] = c[f - 1]
  <2>1. f > 0 => f - 1 \in 0 .. (f - 1) /\ f - 1 \in Slot
    BY <1>0, <1>1, <1>4 DEF Slot
  <2>2. f > 0 => f - 1 # fb.index
    BY <2>1, <1>1, <1>r
  <2> QED  BY <2>1, <2>2, <1>r, <1>s
<1>13. P2PTypeOK'
  BY <1>0, <1>1, <1>2, <1>3, <1>4, <1>6, <1>7 DEF P2PTypeOK
<1>14. BufferCoherent'
  <2>1. \A i \in Slot : flashblocks'[i] # None =>
          flashblocks'[i].payload_id = payload_id' /\ flashblocks'[i].index = i
    BY <1>1, <1>10
  <2>2. \A i \in 0 .. (flashblock_index' - 1) : flashblocks'[i] # None
    BY <1>1, <1>2, <1>11
  <2> QED  BY <2>1, <2>2 DEF BufferCoherent
<1>15. LastEmitted'
  <2>1. CASE hi = f
    <3>1. Len(flashblock_tx') = n
      BY <2>1, <1>4, <1>6
    <3>2. f > 0 => n \in 1 .. n
      BY <1>4, <1>12
    <3>3. f > 0 => flashblock_tx'[n] = c[f - 1]
      BY <3>2, <1>6, <1>12
    <3> QED  BY <2>1, <3>1, <3>2, <3>3, <1>1, <1>2, <1>12 DEF LastEmitted
  <2>2. CASE hi > f
    <3>1. hi - f \in 1 .. (hi - f)
      BY <2>2, <1>4
    <3>2. flashblock_tx'[n + (hi - f)] = c[f + (hi - f) - 1]
      BY <3>1, <1>6
    <3>3. f + (hi - f) - 1 = hi - 1 /\ n + (hi - f) > 0
      BY <2>2, <1>4
    <3> QED  BY <3>2, <3>3, <1>1, <1>2, <1>6 DEF LastEmitted
  <2> QED  BY <2>1, <2>2, <1>4
<1>16. InOrder'
  <2> SUFFICES ASSUME NEW k \in 1 .. Len(flashblock_tx'), flashblock_tx'[k].index > 0
               PROVE  /\ k > 1
                      /\ flashblock_tx'[k - 1].payload_id = flashblock_tx'[k].payload_id
                      /\ flashblock_tx'[k - 1].index = flashblock_tx'[k].index - 1
    BY DEF InOrder
  <2>1. CASE k \in 1 .. n
    <3>1. /\ k > 1
          /\ flashblock_tx[k - 1].payload_id = flashblock_tx[k].payload_id
          /\ flashblock_tx[k - 1].index = flashblock_tx[k].index - 1
      BY <2>1, <1>6 DEF IInv, InOrder
    <3>2. k - 1 \in 1 .. n
      BY <2>1, <3>1, <1>4
    <3> QED  BY <2>1, <3>1, <3>2, <1>6
  <2>2. CASE k > n
    <3> DEFINE m == k - n
    <3>1. m \in 1 .. (hi - f) /\ k = n + m
      BY <2>2, <1>4, <1>6
    <3>2. flashblock_tx'[k] = c[f + m - 1] /\ f + m - 1 \in Slot /\ c[f + m - 1] \in Flashblock
      BY <3>1, <1>5, <1>6
    <3>3. /\ flashblock_tx'[k].index = f + m - 1
          /\ flashblock_tx'[k].payload_id = fb.payload_id
      BY <3>2, <1>10, P2PAssumption
    <3>4. CASE m > 1
      <4>1. m - 1 \in 1 .. (hi - f) /\ k - 1 = n + (m - 1) /\ k > 1
        BY <3>1, <3>4, <1>4
      <4>2. /\ flashblock_tx'[k - 1] = c[f + (m - 1) - 1]
            /\ f + (m - 1) - 1 \in Slot
            /\ c[f + (m - 1) - 1] \in Flashblock
        BY <4>1, <1>5, <1>6
      <4>3. /\ flashblock_tx'[k - 1].index = f + (m - 1) - 1
            /\ flashblock_tx'[k - 1].payload_id = fb.payload_id
        BY <4>2, <1>10, P2PAssumption
      <4> QED  BY <4>1, <4>3, <3>3, <3>1, <1>4
    <3>5. CASE m = 1
      <4>1. f > 0 /\ k = n + 1 /\ k - 1 = n
        BY <3>1, <3>3, <3>5, <1>4
      <4>2. n > 0 /\ flashblock_tx[n] = c[f - 1]
        BY <4>1, <1>12
      <4>3. flashblock_tx'[k - 1] = c[f - 1]
        BY <4>1, <4>2, <1>4, <1>6
      <4>4. f - 1 \in 0 .. (hi - 1)
        BY <4>1, <1>4
      <4>5. f - 1 \in Slot /\ c[f - 1] # None
        BY <4>4, <1>11
      <4>6. c[f - 1].payload_id = fb.payload_id /\ c[f - 1].index = f - 1
        BY <4>5, <1>10
      <4> QED  BY <4>1, <4>2, <4>3, <4>6, <3>3, <3>5, <1>4
    <3> QED  BY <3>1, <3>4, <3>5, <1>4
  <2> QED  BY <2>1, <2>2, <1>4, <1>6
<1>17. FrontierAtGap'
  BY <1>1, <1>2 DEF FrontierAtGap, Ready
<1>18. CachedWasBroadcast'
  BY <1>1, <1>10 DEF CachedWasBroadcast
<1>19. EmittedWasBroadcast'
  <2> SUFFICES ASSUME NEW k \in 1 .. Len(flashblock_tx')
               PROVE  \/ flashblock_tx'[k].oversize
                      \/ \E j \in 1 .. Len(peer_tx') : peer_tx'[j] = flashblock_tx'[k]
    BY DEF EmittedWasBroadcast
  <2>1. CASE k \in 1 .. n
    BY <2>1, <1>6, <1>8 DEF IInv, EmittedWasBroadcast
  <2>2. CASE k > n
    <3>1. k - n \in 1 .. (hi - f) /\ k = n + (k - n)
      BY <2>2, <1>4, <1>6
    <3>2. /\ flashblock_tx'[k] = c[f + (k - n) - 1]
          /\ f + (k - n) - 1 \in Slot
          /\ c[f + (k - n) - 1] # None
      BY <3>1, <1>5, <1>6, P2PAssumption
    <3> QED  BY <3>2, <1>10
  <2> QED  BY <2>1, <2>2, <1>4, <1>6
<1> QED  BY <1>13, <1>14, <1>15, <1>16, <1>17, <1>18, <1>19 DEF IInv

(***************************************************************************)
(* Every publish, and every step that leaves the state alone, preserves    *)
(* the inductive invariant.                                                *)
(***************************************************************************)
LEMMA NextIInv == IInv /\ [Next]_p2pVars => IInv'
<1> SUFFICES ASSUME IInv, [Next]_p2pVars PROVE IInv'
  OBVIOUS
<1>1. CASE UNCHANGED p2pVars
  BY <1>1 DEF p2pVars, IInv, P2PTypeOK, BufferCoherent, LastEmitted, InOrder,
              FrontierAtGap, Ready, CachedWasBroadcast, EmittedWasBroadcast
<1>2. ASSUME NEW fb \in Flashblock, Publish(fb) PROVE IInv'
  <2>1. CASE RejectIndex(fb)        BY <2>1, <1>2, RejectIndexIInv
  <2>2. CASE AlreadyCached(fb)      BY <2>2, <1>1 DEF AlreadyCached
  <2>3. CASE CacheOversize(fb)      BY <2>3, <1>2, CacheOversizeIInv
  <2>4. CASE CacheAndBroadcast(fb)  BY <2>4, <1>2, CacheAndBroadcastIInv
  <2> QED  BY <1>2, <2>1, <2>2, <2>3, <2>4 DEF Publish
<1> QED  BY <1>1, <1>2 DEF Next

-----------------------------------------------------------------------------
(***************************************************************************)
(* The inductive invariant holds throughout every behaviour of the         *)
(* protocol state (publish under the mutex, p2p.rs:241-344).               *)
(***************************************************************************)
THEOREM Invariance == Spec => []IInv
  BY InitIInv, NextIInv, PTL DEF Spec

(***************************************************************************)
(* The protocol state stays well typed: in particular the frontier never   *)
(* passes MAX_FLASHBLOCK_INDEX + 1, so no buffer access is out of range.   *)
(***************************************************************************)
THEOREM TypeCorrect == Spec => []P2PTypeOK
<1>1. IInv => P2PTypeOK
  BY DEF IInv
<1> QED  BY <1>1, Invariance, PTL

(***************************************************************************)
(* Whatever arrives, in whatever order and however often, the buffer holds *)
(* only the current payload (p2p.rs:251-257, 277-282).                     *)
(***************************************************************************)
THEOREM BufferCoherence == Spec => []BufferCoherent
<1>1. IInv => BufferCoherent
  BY DEF IInv
<1> QED  BY <1>1, Invariance, PTL

(***************************************************************************)
(* In-order delivery to the consumers of flashblock_tx (p2p.rs:329-343).   *)
(***************************************************************************)
THEOREM InOrderDelivery == Spec => []InOrder
<1>1. IInv => InOrder
  BY DEF IInv
<1> QED  BY <1>1, Invariance, PTL

(***************************************************************************)
(* The emit loop never stops early, except at an oversize flashblock       *)
(* (p2p.rs:296-304, 329-343).                                              *)
(***************************************************************************)
THEOREM EmitsWhatIsReady == Spec => []FrontierAtGap
<1>1. IInv => FrontierAtGap
  BY DEF IInv
<1> QED  BY <1>1, Invariance, PTL

(***************************************************************************)
(* Consumers see nothing that the peers were not sent, oversize ones       *)
(* excepted (p2p.rs:296-320).                                              *)
(***************************************************************************)
THEOREM PeersAreSentWhatIsEmitted == Spec => []EmittedWasBroadcast
<1>1. IInv => EmittedWasBroadcast
  BY DEF IInv
<1> QED  BY <1>1, Invariance, PTL

-----------------------------------------------------------------------------
(***************************************************************************)
(* A publish that emits is a delivery of the next flashblocks of one       *)
(* payload.                                                                *)
(***************************************************************************)
LEMMA BroadcastRefines ==
  ASSUME IInv, NEW fb \in Flashblock, CacheAndBroadcast(fb)
  PROVE  Stream!Next
<1> DEFINE b == BufferFor(fb)
           f == FrontierFor(fb)
           c == [b EXCEPT ![fb.index] = fb]
<1>1. /\ fb.payload_id \in PayloadId
      /\ fb.index \in Slot
      /\ MAX_FLASHBLOCK_INDEX \in Nat
      /\ b \in [Slot -> Flashblock \cup {None}]
      /\ f \in 0 .. (MAX_FLASHBLOCK_INDEX + 1)
      /\ payload_id' = fb.payload_id
      /\ f = IF fb.payload_id = payload_id THEN flashblock_index ELSE 0
  BY P2PAssumption, ResetFacts DEF CacheAndBroadcast, Slot, FrontierFor
<1>2. PICK hi \in f .. (MAX_FLASHBLOCK_INDEX + 1) :
        /\ \A i \in f .. (hi - 1) : Ready(c, i)
        /\ flashblock_tx' = flashblock_tx \o Run(c, f, hi)
        /\ flashblock_index' = hi
  BY DEF CacheAndBroadcast, EmitConsecutive
<1>3. /\ c \in [Slot -> Flashblock \cup {None}]
      /\ \A i \in Slot : c[i] = IF i = fb.index THEN fb ELSE b[i]
  BY <1>1
<1>4. \A i \in Slot : b[i] # None => b[i].payload_id = fb.payload_id /\ b[i].index = i
  BY ResetFacts
<1>5. \A i \in Slot : c[i] # None => c[i].payload_id = fb.payload_id /\ c[i].index = i
  BY <1>1, <1>3, <1>4
<1>6. f \in Nat /\ hi \in Nat /\ f <= hi /\ hi - f \in 0 .. (MAX_FLASHBLOCK_INDEX + 1)
  BY <1>1, <1>2
<1> HIDE DEF b, c, f
<1> DEFINE r == Run(c, f, hi)
<1>7. \A k \in 1 .. (hi - f) :
        /\ r[k] = c[f + k - 1]
        /\ f + k - 1 \in Slot
        /\ c[f + k - 1] \in Flashblock
  BY <1>2, <1>3, <1>6, RunFacts
<1>8. \A k \in 1 .. (hi - f) :
        /\ r[k] \in {x \in Flashblock : x.payload_id = fb.payload_id}
        /\ r[k].index = f + k - 1
  BY <1>5, <1>7, P2PAssumption
<1>9. r \in [1 .. (hi - f) -> {x \in Flashblock : x.payload_id = fb.payload_id}]
  BY <1>8 DEF Run
<1>10. flashblock_tx' = flashblock_tx \o r /\ flashblock_index' = f + (hi - f)
  BY <1>2, <1>6
<1> HIDE DEF r
<1>11. Stream!Deliver(fb.payload_id, hi - f)
  BY <1>1, <1>8, <1>9, <1>10 DEF Stream!Deliver
<1> QED  BY <1>1, <1>6, <1>11 DEF Stream!Next

(***************************************************************************)
(* A publish that emits nothing is invisible, or turns the stream to       *)
(* another payload without delivering anything.                            *)
(***************************************************************************)
LEMMA SilentRefines ==
  ASSUME IInv, NEW fb \in Flashblock, RejectIndex(fb) \/ CacheOversize(fb)
  PROVE  Stream!Next
<1>1. /\ fb.payload_id \in PayloadId
      /\ MAX_FLASHBLOCK_INDEX \in Nat
      /\ payload_id' = fb.payload_id
      /\ flashblock_index' = IF fb.payload_id = payload_id THEN flashblock_index ELSE 0
      /\ flashblock_index \in Nat
      /\ flashblock_tx' = flashblock_tx
      /\ flashblock_tx \in Seq(Flashblock)
  BY P2PAssumption DEF RejectIndex, CacheOversize, FrontierFor, IInv, P2PTypeOK
<1> DEFINE run == [k \in 1 .. 0 |-> fb]
<1>2. run \in [1 .. 0 -> {x \in Flashblock : x.payload_id = fb.payload_id}]
  OBVIOUS
<1>3. flashblock_tx' = flashblock_tx \o run
  BY <1>1
<1>4. \A k \in 1 .. 0 : FALSE
  OBVIOUS
<1>5. flashblock_index' = (IF fb.payload_id = payload_id THEN flashblock_index ELSE 0) + 0
  BY <1>1
<1> HIDE DEF run
<1>6. Stream!Deliver(fb.payload_id, 0)
  BY <1>1, <1>2, <1>3, <1>4, <1>5 DEF Stream!Deliver
<1> QED  BY <1>1, <1>6 DEF Stream!Next

(***************************************************************************)
(* The buffering protocol implements the in-order stream: whatever order   *)
(* flashblocks arrive in, publish (p2p.rs:241-344) delivers what the docs  *)
(* at p2p.rs:138-143 promise.                                              *)
(***************************************************************************)
THEOREM StreamRefinement == Spec => ImplementsStream
<1> DEFINE streamVars == <<payload_id, flashblock_index, flashblock_tx>>
<1>1. Init => Stream!Init
  BY DEF Init, Stream!Init
<1>2. IInv /\ [Next]_p2pVars => [Stream!Next]_streamVars
  <2> SUFFICES ASSUME IInv, [Next]_p2pVars PROVE [Stream!Next]_streamVars
    OBVIOUS
  <2>1. CASE UNCHANGED p2pVars
    BY <2>1 DEF p2pVars
  <2>2. ASSUME NEW fb \in Flashblock, Publish(fb) PROVE [Stream!Next]_streamVars
    <3>1. CASE AlreadyCached(fb)      BY <3>1, <2>1 DEF AlreadyCached
    <3>2. CASE RejectIndex(fb)        BY <3>2, <2>2, SilentRefines
    <3>3. CASE CacheOversize(fb)      BY <3>3, <2>2, SilentRefines
    <3>4. CASE CacheAndBroadcast(fb)  BY <3>4, <2>2, BroadcastRefines
    <3> QED  BY <2>2, <3>1, <3>2, <3>3, <3>4 DEF Publish
  <2> QED  BY <2>1, <2>2 DEF Next
<1> QED  BY <1>1, <1>2, Invariance, PTL DEF Spec, ImplementsStream, Stream!Spec

=============================================================================
