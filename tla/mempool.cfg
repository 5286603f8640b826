CONSTANTS
  Record = {1, 2, 4, 5}
  Transfer = {1, 2}
  Heartbeat = {4}
  Sender <- MCSender
  Nonce <- MCNonce
  Join = {5}
  MemberOnly = {4}
  Malformed = {}
  Open = {}
  Founders = {node}
  MaxRecords = 2
  Legacy = {4}
  Client = {http}
  Builder = builder
  alice = alice
  bob = bob
  node = node
  MaxSeq = 2
  MaxBlocks = 2
  MaxReorgs = 1
SPECIFICATION Spec
INVARIANT TypeOK
INVARIANT TogetherAsAlone
PROPERTY ReadersDropNothing
CHECK_DEADLOCK FALSE
