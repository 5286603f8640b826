SPECIFICATION SpecViews
CONSTANTS
  Key = {founder, member}
  Founder = founder
  Name = {alice, bob}
  NoName = noname
  BadName = badname
  Nobody = nobody
  Amount = {0, 1, 2}
  Nonce = {1, 2}
  Time = {0}
  Checkpoint = {1, 3}
  Period = {1}
  Unit = 2
  Tolerance = 1
  MaxBlocks = 3
  MaxRecords = 5
  CarryAge = 1
  CarryPeriod = 1
SYMMETRY NameSymmetry
CHECK_DEADLOCK FALSE
INVARIANT TypeOK
INVARIANT NoOverdraft
INVARIANT NonceSequence
INVARIANT NamesConsistent
INVARIANT Conservation
INVARIANT ViewsAgree
INVARIANT GapIsRewards
INVARIANT StorageAgreesOnMoney
