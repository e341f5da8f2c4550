SPECIFICATION FairSpec
CONSTANTS
  Clients = {c1}
  Requests <- LiveRequests
  Anticlockwise = FALSE
  Left0 <- Minus2
  Right0 <- Minus1
  MaxAngle = 2
  MaxRate = 3
  FastFrom = 1
  FastIs = 2
  CheckRate = 0
  MaxSends = 3
  MaxQueue = 1
  MaxFails = 1
  MaxUpsets = 0
  MaxFreezes = 0
PROPERTY StopEnds
PROPERTY LocatingEnds
PROPERTY ClearCheckEnds
PROPERTY OvertravelCleared
