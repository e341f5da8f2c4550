SPECIFICATION Spec
CONSTANTS
  Clients = {c1}
  Requests <- FaultRequests
  Anticlockwise = FALSE
  Left0 <- Minus2
  Right0 = 2
  MaxAngle = 2
  MaxRate = 3
  FastFrom = 1
  FastIs = 2
  CheckRate = 0
  MaxSends = 2
  MaxQueue = 1
  MaxFails = 2
  MaxUpsets = 1
  MaxFreezes = 0
INVARIANT TypeOK
INVARIANT FreeMeansStandstill
INVARIANT ServoReleasedOnExit
INVARIANT ProfileApplied
