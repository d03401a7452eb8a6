SPECIFICATION GossipFairSpec
CONSTANTS
  A = A
  B = B
  C = C
  p = p
  q = q
  Node <- MCNode
  Builder = A
  Edge <- MCLine
  Job <- MCJob
  PayloadId = {p, q}
  NoPayload = NoPayload
  None = None
  MAX_FLASHBLOCK_INDEX = 1
  MaxBreaks = 1
INVARIANTS
  TypeOK
  StreamsInOrder
  NobodyPenalised
PROPERTIES
  NodesImplementP2P
  JoinedGetEverything
