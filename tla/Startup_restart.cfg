SPECIFICATION FairSpec
CONSTANTS
  Params = {p1, p2}
  Reset = TRUE
  Points <- NearPoints
  MaxFails = 1
  MaxOsErrors = 1
  MaxUnready = 1
  MaxTimeouts = 1
  MaxCrashes = 1
  MaxMoves = 1
INVARIANT AlignedInService
INVARIANT ServoConfigured
INVARIANT ExitReleasesServo
PROPERTY BackInService
