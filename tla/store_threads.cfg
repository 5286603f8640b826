SPECIFICATION Spec
CONSTANTS
  Thread = {sync, http}
  Hash <- TwinHash
  Genesis = 1
  Number <- TwinNumber
  Parent <- TwinParent
  PrevId <- TwinPrevId
  Records <- TwinRecords
  Branch <- TwinBranch
  StateOK = {1,2,3,4}
  ChainOK = {1,2,3,4}
  MaxRebuildDepth = 10
  CheckpointDepth = 1
INVARIANT TypeOK
INVARIANT StoreInv
INVARIANT RootedStore
INVARIANT IndexSound
PROPERTY ImplementsChainStore
CHECK_DEADLOCK FALSE
