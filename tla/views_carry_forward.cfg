SPECIFICATION SpecMade
CONSTANTS
  Key = {founder, member}
  Founder = founder
  Name = {alice, bob}
  NoName = noname
  BadName = badname
  Nobody = nobody
  Amount = {0, 1, 2, 3, 4}
  Nonce = {1, 2}
  Time = {0}
  Checkpoint = {1, 2, 3}
  Period = {1, 2, 3}
  Unit = 2
  Tolerance = 1
  MaxBlocks = 5
  MaxRecords = 5
  CarryAge = 1
  CarryPeriod = 1
CHECK_DEADLOCK FALSE
INVARIANT CarryForwardMatchesHistory
