CONSTANTS
  A = A
  B = B
  Node <- MCNode
  Hash <- PairHash
  Genesis = 1
  Number <- PairNumber
  Parent <- PairParent
  PrevId <- PairPrevId
  Records <- PairRecords
  Branch <- PairBranch
  Creator <- PairCreator
  Topology <- Mutual
  Empty = {}
  CheckpointDepth = 3
  PushLookback = 1
  RequiredChecks = 2
  MaxFaults = 0
SPECIFICATION SpecEager
PROPERTY LongestChainWins
CHECK_DEADLOCK FALSE
