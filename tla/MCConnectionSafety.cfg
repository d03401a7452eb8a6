SPECIFICATION ConnSpec
CONSTANTS
  pA = pA
  pB = pB
  PayloadId = {pA, pB}
  NoPayload = NoPayload
  None = None
  MAX_FLASHBLOCK_INDEX = 1
  Flashblock <- MCFlashblock
  Peer = {c1, c2}
  CAPACITY = 3
  LocalJob <- MCLocalJob
  RemoteFlashblock <- MCRemote
  Garbage = Garbage
  Eof = Eof
  MaxInbound = 3
CHECK_DEADLOCK FALSE
SYMMETRY MCPeers
INVARIANTS
  TypeOK
  NoLostWakeupInTurn
  PenaltyExactlyForDuplicates
  NoDuplicatesInTurn
PROPERTIES
  NoEcho
