----------------------- MODULE FlashblockLimitsProofs -----------------------
(***************************************************************************)
(* Proofs about FlashblockLimits, for every interval, deadline, gas limit  *)
(* and overrun.                                                            *)
(***************************************************************************)
EXTENDS FlashblockLimits, TLAPS

(***************************************************************************)
(* What the truncating division of limits.rs yields.                       *)
(***************************************************************************)
LEMMA DivFacts ==
  ASSUME NEW a \in Nat, NEW n \in Nat \ {0}
  PROVE  /\ a \div n \in Nat
         /\ (a \div n) * n <= a
         /\ a < (a \div n + 1) * n
  OBVIOUS

(***************************************************************************)
(* The quotient is the largest factor.                                     *)
(***************************************************************************)
LEMMA DivIsLargest ==
  ASSUME NEW a \in Nat, NEW n \in Nat \ {0}, NEW q \in Nat, q * n <= a
  PROVE  q <= a \div n
<1> DEFINE d == a \div n
<1>1. d \in Nat /\ a < (d + 1) * n
  BY DivFacts
<1>2. q * n < (d + 1) * n
  BY <1>1
<1>3. CASE q > d
  <2>1. q >= d + 1
    BY <1>1, <1>3
  <2>2. q * n >= (d + 1) * n
    BY <1>1, <2>1
  <2> QED  BY <1>1, <1>2, <2>2
<1> QED  BY <1>1, <1>3

(***************************************************************************)
(* An interval later there is at least one flashblock less to come.        *)
(***************************************************************************)
LEMMA DivAfterInterval ==
  ASSUME NEW t \in Nat, NEW n \in Nat \ {0}, NEW u \in Nat, u + n <= t
  PROVE  u \div n <= t \div n - 1
<1> DEFINE q == u \div n
<1>1. q \in Nat /\ q * n <= u
  BY DivFacts
<1>2. (q + 1) * n <= t
  BY <1>1
<1>3. q + 1 <= t \div n
  BY <1>1, <1>2, DivIsLargest
<1> QED  BY <1>1, <1>3, DivFacts

(***************************************************************************)
(* Room for a share in each of the n - 1 flashblocks to come is room for   *)
(* it in each of m, of which there are no more.                            *)
(***************************************************************************)
LEMMA FewerShares ==
  ASSUME NEW q \in Nat, NEW n \in Nat, NEW m \in Nat, NEW g \in Nat, NEW h \in Nat,
         n > 1, m <= n - 1, q * (n - 1) <= h, h <= g
  PROVE  q * m <= g /\ q <= g
<1> DEFINE k == n - 1
<1>1. k \in Nat /\ k >= 1 /\ m <= k /\ q * k <= h
  OBVIOUS
<1> HIDE DEF k
<1>2. q * m <= q * k /\ q <= q * k /\ q * m \in Nat /\ q * k \in Nat
  BY <1>1
<1> QED  BY <1>1, <1>2

(***************************************************************************)
(* The gas remaining after at most l of L was used.                        *)
(***************************************************************************)
LEMMA RemainingAfterUse ==
  ASSUME NEW L \in Nat, NEW l \in Nat, NEW u \in Nat, u <= l, l <= L
  PROVE  LET g == IF u >= L THEN 0 ELSE L - u
         IN  g \in Nat /\ L - l <= g
  OBVIOUS

-----------------------------------------------------------------------------
\* The flashblocks still to come, at least one, can all have the share again.
Affordable == share * RemainingBlocks <= RemainingGas /\ share <= RemainingGas

\* The limits of the flashblock being built.
Offered ==
  /\ elapsed <= enclosing_deadline
  /\ gas_used <= gas_limit
  /\ share = gas_limit - gas_used
  /\ \/ deadline = RemainingTime /\ gas_limit = enclosing_gas_limit
     \/ /\ deadline = interval
        /\ RemainingBlocks > 1
        /\ share * (RemainingBlocks - 1) <= enclosing_gas_limit - gas_limit

\* The inductive invariant.
IInv ==
  /\ TypeOK
  /\ pc = "build" => Offered
  /\ pc = "create" => elapsed <= enclosing_deadline
  /\ pc = "create" /\ deadline > 0 => Affordable
  /\ AllGasIsOffered

(***************************************************************************)
(* The remaining gas, time and flashblocks are natural numbers.            *)
(***************************************************************************)
LEMMA RemainingFacts ==
  ASSUME TypeOK
  PROVE  /\ RemainingTime \in Nat /\ RemainingTime <= enclosing_deadline
         /\ elapsed <= enclosing_deadline => elapsed + RemainingTime = enclosing_deadline
         /\ RemainingGas = enclosing_gas_limit - gas_used
         /\ RemainingGas \in Nat
         /\ RemainingBlocks \in Nat
<1>1. RemainingTime \in Nat /\ RemainingTime <= enclosing_deadline
  BY LimitsAssumption DEF TypeOK, RemainingTime
<1>2. RemainingBlocks \in Nat
  BY <1>1, DivFacts, LimitsAssumption DEF RemainingBlocks
<1> QED  BY <1>1, <1>2, LimitsAssumption DEF TypeOK, RemainingTime, RemainingGas

(***************************************************************************)
(* Nothing is offered when the job starts.                                 *)
(***************************************************************************)
LEMMA InitIInv == LimitsInit => IInv
<1> SUFFICES ASSUME LimitsInit PROVE IInv
  OBVIOUS
<1>1. TypeOK /\ elapsed <= enclosing_deadline
  <2>1. overran \in BOOLEAN /\ pc \in {"create", "build", "done"}
    BY DEF LimitsInit
  <2>2. /\ elapsed \in Nat /\ elapsed <= enclosing_deadline
        /\ gas_used \in 0 .. enclosing_gas_limit
        /\ deadline = 0 /\ gas_limit = 0 /\ share = 0
    BY LimitsAssumption DEF LimitsInit
  <2> QED  BY <2>1, <2>2, LimitsAssumption DEF TypeOK
<1>2. pc = "create" /\ ~(deadline > 0)
  BY DEF LimitsInit
<1> QED  BY <1>1, <1>2 DEF IInv, AllGasIsOffered

(***************************************************************************)
(* The flashblock that takes the rest.                                     *)
(***************************************************************************)
LEMMA OfferTheRestIInv ==
  ASSUME IInv, OfferTheRest
  PROVE  IInv'
<1>1. /\ pc = "create" /\ pc' = "build"
      /\ elapsed' = elapsed /\ gas_used' = gas_used /\ overran' = overran
      /\ deadline' = RemainingTime /\ gas_limit' = enclosing_gas_limit
      /\ share' = enclosing_gas_limit - gas_used
      /\ elapsed <= enclosing_deadline
  BY DEF OfferTheRest, Offer, IInv
<1>2. TypeOK
  BY DEF IInv
<1>3. RemainingTime' = RemainingTime
  BY <1>1 DEF RemainingTime
<1>4. TypeOK'
  BY <1>1, <1>2, RemainingFacts, LimitsAssumption DEF TypeOK
<1>5. Offered'
  BY <1>1, <1>2, <1>3, LimitsAssumption DEF Offered, TypeOK
<1> QED  BY <1>1, <1>4, <1>5 DEF IInv, AllGasIsOffered

(***************************************************************************)
(* The flashblock that takes its share: as much is left for each of the    *)
(* flashblocks after it.                                                   *)
(***************************************************************************)
LEMMA OfferShareIInv ==
  ASSUME IInv, OfferShare
  PROVE  IInv'
<1> DEFINE n == RemainingBlocks
           g == RemainingGas \div RemainingBlocks
<1>1. /\ pc = "create" /\ pc' = "build"
      /\ elapsed' = elapsed /\ gas_used' = gas_used /\ overran' = overran
      /\ deadline' = interval /\ gas_limit' = gas_used + g
      /\ share' = (gas_used + g) - gas_used
      /\ elapsed <= enclosing_deadline
      /\ n > 1
  BY DEF OfferShare, Offer, IInv
<1>2. TypeOK
  BY DEF IInv
<1>3. n \in Nat /\ RemainingGas \in Nat /\ RemainingGas = enclosing_gas_limit - gas_used
  BY <1>2, RemainingFacts
<1>4. g \in Nat /\ g * n <= RemainingGas
  BY <1>1, <1>3, DivFacts
<1>5. g * (n - 1) = g * n - g /\ g * (n - 1) >= 0
  BY <1>1, <1>3, <1>4
<1>6. g <= RemainingGas /\ g * (n - 1) <= RemainingGas - g
  BY <1>3, <1>4, <1>5
<1>7. RemainingBlocks' = n
  BY <1>1 DEF RemainingBlocks, RemainingTime
<1>8. interval <= RemainingTime
  <2>1. RemainingTime \in Nat /\ n * interval <= RemainingTime
    BY <1>2, RemainingFacts, DivFacts, LimitsAssumption DEF RemainingBlocks
  <2>2. interval \in Nat /\ interval <= n * interval
    BY <1>1, <1>3, LimitsAssumption
  <2> QED  BY <1>3, <2>1, <2>2
<1>9. share' = g /\ gas_used \in Nat
  BY <1>1, <1>2, <1>4 DEF TypeOK
<1>10. TypeOK'
  <2>1. interval \in 0 .. enclosing_deadline
    BY <1>2, <1>8, RemainingFacts, LimitsAssumption
  <2>2. gas_used + g \in 0 .. enclosing_gas_limit /\ g \in 0 .. enclosing_gas_limit
    BY <1>3, <1>4, <1>6, <1>9, LimitsAssumption
  <2> QED  BY <1>1, <1>2, <1>9, <2>1, <2>2 DEF TypeOK
<1>11. share' * (RemainingBlocks - 1)' <= enclosing_gas_limit - gas_limit'
  <2>1. enclosing_gas_limit - (gas_used + g) = RemainingGas - g
    BY <1>3, <1>4, <1>9, LimitsAssumption
  <2> QED  BY <1>1, <1>6, <1>7, <1>9, <2>1
<1>12. Offered'
  BY <1>1, <1>4, <1>7, <1>9, <1>11 DEF Offered
<1> QED  BY <1>1, <1>10, <1>12 DEF IInv, AllGasIsOffered

(***************************************************************************)
(* A flashblock is built within its limits, or overruns its deadline.      *)
(***************************************************************************)
LEMMA BuildIInv ==
  ASSUME IInv, Build
  PROVE  IInv'
<1>1. TypeOK /\ Offered /\ pc = "build"
  BY DEF IInv, Build
<1>2. PICK overrun \in 0 .. MaxOverrun, gas \in gas_used .. gas_limit :
        /\ elapsed' = elapsed + deadline + overrun
        /\ gas_used' = gas
        /\ overran' = (overran \/ overrun >= interval)
  BY DEF Build
<1>3. /\ pc' = IF elapsed' >= enclosing_deadline THEN "done" ELSE "create"
      /\ deadline' = deadline /\ gas_limit' = gas_limit /\ share' = share
  BY DEF Build
<1>4. /\ RemainingTime \in Nat
      /\ elapsed + RemainingTime = enclosing_deadline
      /\ RemainingBlocks \in Nat
  BY <1>1, RemainingFacts DEF Offered
<1>5. CASE deadline = RemainingTime /\ gas_limit = enclosing_gas_limit
  <2>1. elapsed' >= enclosing_deadline /\ elapsed' <= enclosing_deadline + MaxOverrun
    BY <1>1, <1>2, <1>4, <1>5, LimitsAssumption DEF TypeOK
  <2>2. TypeOK'
    BY <1>1, <1>2, <1>3, <1>4, <2>1, LimitsAssumption DEF TypeOK
  <2> QED  BY <1>3, <1>5, <2>1, <2>2 DEF IInv, AllGasIsOffered
<1>6. CASE /\ deadline = interval
           /\ RemainingBlocks > 1
           /\ share * (RemainingBlocks - 1) <= enclosing_gas_limit - gas_limit
  <2>1. 2 * interval <= RemainingTime
    <3>1. RemainingBlocks * interval <= RemainingTime
      BY <1>4, DivFacts, LimitsAssumption DEF RemainingBlocks
    <3>2. RemainingBlocks * interval >= 2 * interval
      BY <1>4, <1>6, LimitsAssumption
    <3> QED  BY <1>4, <3>1, <3>2, LimitsAssumption
  <2>2. elapsed' <= enclosing_deadline + MaxOverrun
    BY <1>1, <1>2, <1>4, <1>6, <2>1, LimitsAssumption DEF TypeOK
  <2>3. TypeOK'
    BY <1>1, <1>2, <1>3, <1>6, <2>2, LimitsAssumption DEF TypeOK
  <2>4. CASE elapsed' >= enclosing_deadline
    <3>1. overrun >= interval
      BY <1>1, <1>2, <1>4, <1>6, <2>1, <2>4, LimitsAssumption DEF TypeOK
    <3> QED  BY <1>2, <1>3, <2>3, <2>4, <3>1 DEF IInv, AllGasIsOffered
  <2>5. CASE ~(elapsed' >= enclosing_deadline)
    <3>1. elapsed' \in Nat /\ RemainingTime' = enclosing_deadline - elapsed'
      BY <1>1, <1>2, <1>6, <2>5, LimitsAssumption DEF TypeOK, RemainingTime
    <3>2. RemainingTime' \in Nat /\ RemainingTime' + interval <= RemainingTime
      BY <1>1, <1>2, <1>4, <1>6, <2>5, <3>1, LimitsAssumption DEF TypeOK
    <3>3. RemainingBlocks' \in Nat /\ RemainingBlocks' <= RemainingBlocks - 1
      BY <1>4, <3>2, DivAfterInterval, DivFacts, LimitsAssumption DEF RemainingBlocks
    <3>4. /\ share \in Nat /\ gas_limit \in Nat /\ gas_used' \in Nat
          /\ gas_used' <= gas_limit /\ gas_limit <= enclosing_gas_limit
      BY <1>1, <1>2, LimitsAssumption DEF TypeOK
    <3>5. enclosing_gas_limit \in Nat /\ enclosing_gas_limit - gas_limit \in Nat
      BY <3>4, LimitsAssumption
    <3>6. RemainingGas' = IF gas_used' >= enclosing_gas_limit
                          THEN 0 ELSE enclosing_gas_limit - gas_used'
      BY DEF RemainingGas
    <3>7. RemainingGas' \in Nat /\ enclosing_gas_limit - gas_limit <= RemainingGas'
      BY <3>4, <3>5, <3>6, RemainingAfterUse
    <3>8. Affordable'
      <4>1. share * RemainingBlocks' <= RemainingGas' /\ share <= RemainingGas'
        BY <1>4, <1>6, <3>3, <3>4, <3>5, <3>7, FewerShares
      <4> QED  BY <1>3, <4>1 DEF Affordable
    <3> QED  BY <1>3, <2>3, <2>5, <3>1, <3>8, LimitsAssumption DEF IInv, AllGasIsOffered
  <2> QED  BY <2>4, <2>5
<1> QED  BY <1>1, <1>5, <1>6 DEF Offered

(***************************************************************************)
(* The inductive invariant holds in every reachable state.                 *)
(***************************************************************************)
THEOREM Invariance == LimitsSpec => []IInv
<1>1. IInv /\ [LimitsNext]_vars => IInv'
  <2> SUFFICES ASSUME IInv, [LimitsNext]_vars PROVE IInv'
    OBVIOUS
  <2>1. CASE OfferTheRest  BY <2>1, OfferTheRestIInv
  <2>2. CASE OfferShare  BY <2>2, OfferShareIInv
  <2>3. CASE Build  BY <2>3, BuildIInv
  <2>4. CASE UNCHANGED vars
    BY <2>4 DEF vars, IInv, TypeOK, Offered, Affordable, AllGasIsOffered,
       RemainingTime, RemainingBlocks, RemainingGas
  <2> QED  BY <2>1, <2>2, <2>3, <2>4 DEF LimitsNext
<1> QED  BY <1>1, InitIInv, PTL DEF LimitsSpec

(***************************************************************************)
(* The limits stay within the job's own (limits.rs:46-82), for every job.  *)
(***************************************************************************)
THEOREM TypeCorrect == LimitsSpec => []TypeOK
<1>1. IInv => TypeOK
  BY DEF IInv
<1> QED  BY <1>1, Invariance, PTL

(***************************************************************************)
(* All gas is on offer before a job ends (limits.rs:46-58), for every      *)
(* interval, deadline and gas limit.                                       *)
(***************************************************************************)
THEOREM AllGasOffered == LimitsSpec => []AllGasIsOffered
<1>1. IInv => AllGasIsOffered
  BY DEF IInv
<1> QED  BY <1>1, Invariance, PTL

(***************************************************************************)
(* No flashblock gets less room than the one before it (limits.rs:41-82),  *)
(* for every interval, deadline and gas limit.                             *)
(***************************************************************************)
THEOREM SharesNeverShrink == LimitsSpec => ShareNeverShrinks
<1> DEFINE Grows == pc = "create" /\ deadline > 0 /\ RemainingGas > 0 => share' >= share
<1>1. IInv /\ [LimitsNext]_vars => [Grows]_vars
  <2> SUFFICES ASSUME IInv, LimitsNext, pc = "create", deadline > 0, RemainingGas > 0
               PROVE  share' >= share
    OBVIOUS
  <2>1. TypeOK /\ Affordable
    BY DEF IInv
  <2>2. /\ RemainingBlocks \in Nat /\ RemainingGas \in Nat /\ share \in Nat
        /\ RemainingGas = enclosing_gas_limit - gas_used
        /\ gas_used \in Nat
    BY <2>1, RemainingFacts, LimitsAssumption DEF TypeOK
  <2>3. CASE OfferTheRest
    BY <2>1, <2>2, <2>3 DEF OfferTheRest, Offer, Affordable
  <2>4. CASE OfferShare
    <3>1. RemainingBlocks > 1 /\ share * RemainingBlocks <= RemainingGas
      BY <2>1, <2>4 DEF OfferShare, Affordable
    <3>2. share <= RemainingGas \div RemainingBlocks
      BY <2>2, <3>1, DivIsLargest
    <3>3. share' = (gas_used + RemainingGas \div RemainingBlocks) - gas_used
      BY <2>4 DEF OfferShare, Offer
    <3>4. RemainingGas \div RemainingBlocks \in Nat
      BY <2>2, <3>1, DivFacts
    <3> QED  BY <2>2, <3>2, <3>3, <3>4
  <2>5. CASE Build
    BY <2>5 DEF Build
  <2> QED  BY <2>3, <2>4, <2>5 DEF LimitsNext
<1> QED  BY <1>1, Invariance, PTL DEF LimitsSpec, ShareNeverShrinks
=============================================================================
