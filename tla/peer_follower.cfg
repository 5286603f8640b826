CONSTANTS
  A = A
  B = B
  Node <- MCNode
  Hash <- MCHash
  Genesis = 1
  Number <- MCNumber
  Parent <- MCParent
  PrevId <- MCPrevId
  Records <- MCRecords
  Branch <- MCBranch
  Creator <- MCCreator
  Topology <- Follower
  Empty = {B}
  CheckpointDepth = 3
  PushLookback = 1
  RequiredChecks = 2
  MaxFaults = 1
SPECIFICATION Spec
INVARIANT TypeOK
PROPERTY BuildsOnSharedTip
PROPERTY StaleParentKeepsTip
PROPERTY CatchesUp
CHECK_DEADLOCK FALSE
