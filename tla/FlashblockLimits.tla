-------------------------- MODULE FlashblockLimits --------------------------
(***************************************************************************)
(* How FlashblockLimits (limits.rs) divides the gas and the time of one    *)
(* payload job among its flashblocks.  The outer loop of the pipeline      *)
(* (examples/pipeline.rs) asks for limits, runs the flashblock pipeline    *)
(* under them, and repeats until the job's deadline has passed.            *)
(*                                                                         *)
(* Times are in milliseconds of any granularity, counted from the start of *)
(* the job.                                                                *)
(***************************************************************************)
EXTENDS Integers

CONSTANTS
  interval,            \* FlashblockLimits::interval
  enclosing_deadline,  \* the job's deadline
  enclosing_gas_limit, \* the job's gas limit
  MaxOverrun           \* how far a flashblock may run past its deadline

ASSUME LimitsAssumption ==
  /\ interval \in Nat \ {0}
  /\ enclosing_deadline \in Nat
  /\ enclosing_gas_limit \in Nat
  /\ MaxOverrun \in Nat

VARIABLES
  pc,        \* "create" limits, "build" under them, or "done"
  elapsed,   \* time since the job started
  gas_used,  \* cumulative gas of the payload
  deadline,  \* the limits of the current flashblock
  gas_limit,
  share,     \* history: the gas the current flashblock may add
  overran    \* history: some flashblock took an interval longer than it should

vars == <<pc, elapsed, gas_used, deadline, gas_limit, share, overran>>

\* The prologue has taken some time and used some gas.
LimitsInit ==
  /\ pc = "create"
  /\ elapsed \in 0 .. enclosing_deadline
  /\ gas_used \in 0 .. enclosing_gas_limit
  /\ deadline = 0 /\ gas_limit = 0
  /\ share = 0
  /\ overran = FALSE

RemainingTime == IF elapsed >= enclosing_deadline THEN 0 ELSE enclosing_deadline - elapsed

RemainingBlocksRoundedUp ==  \* mutant: the quotient is rounded up
  (RemainingTime + interval - 1) \div interval

RemainingBlocks == RemainingTime \div interval

RemainingGas ==
  IF gas_used >= enclosing_gas_limit THEN 0 ELSE enclosing_gas_limit - gas_used

Offer(time, gas) ==
  /\ deadline' = time
  /\ gas_limit' = gas
  /\ share' = gas - gas_used
  /\ pc' = "build"
  /\ UNCHANGED <<elapsed, gas_used, overran>>

\* Too little time for two flashblocks, or no gas left: one that takes it all.
OfferTheRest ==
  /\ pc = "create"
  /\ RemainingBlocks <= 1 \/ RemainingGas = 0
  /\ Offer(RemainingTime, enclosing_gas_limit)

OfferShareOfTotal ==  \* mutant: the total gas is divided, not the remaining gas
  /\ pc = "create"
  /\ RemainingBlocks > 1 /\ RemainingGas # 0
  /\ Offer(interval, gas_used + enclosing_gas_limit \div RemainingBlocks)

OfferShareOfLimit ==  \* mutant: the share is not added to the gas used so far
  /\ pc = "create"
  /\ RemainingBlocks > 1 /\ RemainingGas # 0
  /\ Offer(interval, RemainingGas \div RemainingBlocks)

OfferShare ==
  /\ pc = "create"
  /\ RemainingBlocks > 1 /\ RemainingGas # 0
  /\ Offer(interval, gas_used + RemainingGas \div RemainingBlocks)

\* The flashblock is filled until its deadline, and a step may overrun it.
Build ==
  /\ pc = "build"
  /\ \E overrun \in 0 .. MaxOverrun, gas \in gas_used .. gas_limit :
       /\ elapsed' = elapsed + deadline + overrun
       /\ gas_used' = gas
       /\ overran' = (overran \/ overrun >= interval)
  /\ pc' = IF elapsed' >= enclosing_deadline THEN "done" ELSE "create"
  /\ UNCHANGED <<deadline, gas_limit, share>>

LimitsNext == OfferTheRest \/ OfferShare \/ Build

LimitsSpec == LimitsInit /\ [][LimitsNext]_vars

-----------------------------------------------------------------------------
TypeOK ==
  /\ pc \in {"create", "build", "done"}
  /\ elapsed \in 0 .. (enclosing_deadline + MaxOverrun)
  /\ gas_used \in 0 .. enclosing_gas_limit
  /\ deadline \in 0 .. enclosing_deadline
  /\ gas_limit \in 0 .. enclosing_gas_limit
  /\ share \in 0 .. enclosing_gas_limit
  /\ overran \in BOOLEAN

(***************************************************************************)
(* A flashblock never gets less room than the one before it (limits.rs:    *)
(* 41-82): what earlier flashblocks leave unused and what truncation       *)
(* leaves over goes to the later ones, whatever time they took.  Excepted  *)
(* is a block with no gas left.                                            *)
(***************************************************************************)
ShareNeverShrinks ==
  [][pc = "create" /\ deadline > 0 /\ RemainingGas > 0 => share' >= share]_vars

(***************************************************************************)
(* All gas is on offer before the job ends (limits.rs:46-58): the last     *)
(* flashblock may fill the block up to the job's gas limit, unless a       *)
(* flashblock overran its deadline by a whole interval.                    *)
(***************************************************************************)
AllGasIsOffered == pc = "done" => overran \/ gas_limit = enclosing_gas_limit

=============================================================================
