SPECIFICATION Spec
CONSTANTS
  Key = {founder, member}
  Founder = founder
  RecoveryKey = founder
  GenesisBlock = 1
  EpochSize = 2
  SelectionLag = 2
  HeartbeatValid = 3
  HeartbeatRenew = 2
  RecoveryWindow = 2
  LastSlot = 8
CHECK_DEADLOCK FALSE
INVARIANT OutageRecovers
