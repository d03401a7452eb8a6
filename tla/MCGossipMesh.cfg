SPECIFICATION GossipSpec
CONSTANTS
  A = A
  B = B
  C = C
  p = p
  q = q
  Node <- MCNode
  Builder = A
  Edge <- MCTriangle
  Job <- MCShortJob
  PayloadId = {p, q}
  NoPayload = NoPayload
  None = None
  MAX_FLASHBLOCK_INDEX = 1
  MaxBreaks = 0
INVARIANTS
  StreamsInOrder
