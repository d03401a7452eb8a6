CONSTANTS
  a = a
  b = b
  slot = slot
  ab = ab
  ba = ba
  read_slot = read_slot
  write_slot = write_slot
  deposit = deposit
  None = None
  Key <- MCKey
  Value <- MCValue
  Parent <- MCParent
  SystemWrites <- MCSystemWrites
  Tx <- MCTx
  Deposit <- MCDeposit
  Signer <- MCSigner
  Tip <- MCTip
  Effect <- MCEffect
  GasLimit = 30
  MaxTxs = 4
  MaxFlashblocks = 3

SPECIFICATION BuilderSpec
INVARIANTS
  TypeOK
  ExecutionAgrees
  AccessListAgreesUnlessRepeated
  StateAgreesUnlessReplaced
CHECK_DEADLOCK FALSE
