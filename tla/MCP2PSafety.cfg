SPECIFICATION MCSpec
CONSTANTS
  PayloadId = {pA, pB}
  NoPayload = NoPayload
  None = None
  MAX_FLASHBLOCK_INDEX = 2
  Flashblock <- MCFlashblock
  MaxBroadcasts = 3
INVARIANTS
  P2PTypeOK
  BufferCoherent
  InOrder
  FrontierAtGap
  EmittedWasBroadcast
PROPERTIES
  ImplementsStream
