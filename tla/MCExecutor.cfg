SPECIFICATION ExecFairSpec
CONSTANTS
  pA = pA
  pB = pB
  h1 = h1
  h2 = h2
  PayloadId = {pA, pB}
  NoPayload = NoPayload
  None = None
  Hash = {h1, h2}
  ZeroHash = ZeroHash
  MAX_FLASHBLOCK_INDEX = 2
  Flashblock <- MCFlashblock
  CAPACITY = 3
  Jobs <- MCJobs
  MaxBlocksPerJob = 2
  RemoteFlashblock <- MCRemote
  MaxDeliveries = 3
CHECK_DEADLOCK FALSE
INVARIANTS
  TypeOK
  ListWellFormed
  LatestMatchesList
  BlockIsWholeUnlessFailed
  StreamHasNoGapUnlessRaced
  IdleMeansCaughtUp
PROPERTIES
  PendingBlockNeverGoesBack
  EmittedIsProcessed
