SPECIFICATION FairSpec
CONSTANTS
  Clients = {c1}
  Requests <- CheckRequests
  Anticlockwise = FALSE
  Left0 <- Minus2
  Right0 = 2
  MaxAngle = 2
  MaxRate = 3
  FastFrom = 1
  FastIs = 2
  CheckRate = 0
  MaxSends = 2
  MaxQueue = 1
  MaxFails = 0
  MaxUpsets = 0
  MaxFreezes = 0
PROPERTY CheckEnds
