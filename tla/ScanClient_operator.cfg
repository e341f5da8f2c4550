SPECIFICATION FairSpec
CONSTANTS
  Positions <- TwoEnds
  Scans <- OneScan
  Gotos <- PointGoto
  WebGotos <- OneGoto
  Tolerance = 1
  Unheard = 9
  MaxQueue = 1
  MaxClicks = 2
  MaxUpsets = 1
PROPERTY UiNeverFreezes
PROPERTY CancelRests
PROPERTY ScanTurns
PROPERTY FollowsAxis
CHECK_DEADLOCK FALSE
