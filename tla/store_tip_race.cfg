SPECIFICATION SpecRunning
CONSTANTS
  Thread = {sync, http}
  Hash <- GapHash
  Genesis = 1
  Number <- GapNumber
  Parent <- GapParent
  PrevId <- GapPrevId
  Records <- GapRecords
  Branch <- GapBranch
  StateOK = {1,2,3,4}
  ChainOK = {1,2,3,4}
  MaxRebuildDepth = 10
  CheckpointDepth = 1
PROPERTY TipAdvancesByExtension
CHECK_DEADLOCK FALSE
