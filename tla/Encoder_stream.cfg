SPECIFICATION FairSpec
CONSTANTS
  Base = 8
  Mark <- Header
  Payload = 2
  Pulses = 63
  Direction = 1
  Threshold = 6
  MaxStep = 1
  Capacity = 16
  MaxRead = 10
  Axis <- NearZero
  MaxWire = 10
  MaxMoves = 7
  MaxLost = 1
INVARIANT NeverFooled
INVARIANT UpToDate
PROPERTY FollowsAgain
