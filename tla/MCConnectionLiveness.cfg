SPECIFICATION ConnFairSpec
CONSTANTS
  pA = pA
  pB = pB
  PayloadId = {pA, pB}
  NoPayload = NoPayload
  None = None
  MAX_FLASHBLOCK_INDEX = 1
  Flashblock <- MCFlashblock
  Peer = {c1, c2}
  CAPACITY = 10
  LocalJob <- MCLocalJob
  RemoteFlashblock <- MCOnePayload
  Garbage = Garbage
  Eof = Eof
  MaxInbound = 2
CHECK_DEADLOCK FALSE
PROPERTIES
  BroadcastReachesPeers
