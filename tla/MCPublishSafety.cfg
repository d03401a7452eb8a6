SPECIFICATION PublishSpec
CONSTANTS
  pA = pA
  pB = pB
  pC = pC
  h = h
  deposit = deposit
  t1 = t1
  t2 = t2
  Tx = {deposit, t1, t2}
  Sequencer <- MCSequencer
  Jobs <- MCJobs
  RemoteFlashblock <- MCRemote
  NoPayload = NoPayload
  None = None
  ZeroHash = ZeroHash
  MaxTxs = 3
  MaxPublishes = 3
CHECK_DEADLOCK FALSE
SYMMETRY MCSymmetry
INVARIANTS
  TypeOK
  QuiescentIsReset
  BuiltExecutesItsTxs
  ReducesToBuilt
  OnlyCompetitionRejects
  ResultIsWhole
