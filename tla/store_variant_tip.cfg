SPECIFICATION SpecRunning
CONSTANTS
  Thread = {sync}
  Hash <- MCHash
  Genesis = 1
  Number <- MCNumber
  Parent <- MCParent
  PrevId <- MCPrevId
  Records <- MCRecords
  Branch <- MCBranch
  StateOK = {1,2,4,5,6}
  ChainOK = {1,2,4,5,6}
  MaxRebuildDepth = 10
  CheckpointDepth = 1
INVARIANT AcceptedTipValid
CHECK_DEADLOCK FALSE
