SPECIFICATION ExecSpec
CONSTANTS
  pA = pA
  pB = pB
  h1 = h1
  h2 = h2
  PayloadId = {pA, pB}
  NoPayload = NoPayload
  None = None
  Hash = {h1, h2}
  ZeroHash = ZeroHash
  MAX_FLASHBLOCK_INDEX = 1
  Flashblock <- MCFlashblock
  CAPACITY = 3
  Jobs <- MCNoJobs
  MaxBlocksPerJob = 2
  RemoteFlashblock <- MCFlashblock
  MaxDeliveries = 4
CHECK_DEADLOCK FALSE
INVARIANTS
  BlockIsWhole
