CONSTANTS
  Record = {1, 4}
  Transfer = {1}
  Heartbeat = {4}
  Sender <- MCSender
  Nonce <- MCNonce
  Join = {}
  MemberOnly = {4}
  Malformed = {}
  Open = {}
  Founders = {node}
  MaxRecords = 2
  Legacy = {}
  Client = {http}
  Builder = builder
  alice = alice
  bob = bob
  node = node
  MaxSeq = 2
  MaxBlocks = 2
  MaxReorgs = 1
SPECIFICATION Spec
PROPERTY ClearsWhatItRead
CHECK_DEADLOCK FALSE
