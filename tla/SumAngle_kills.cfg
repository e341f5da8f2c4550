SPECIFICATION Spec
CONSTANTS
  Base = 3
  InitialSums <- Sums
  Angles <- FiveAngles
  MaxMoves = 3
  MaxCrashes = 2
INVARIANT NeverUnderestimates
PROPERTY FileNeverGoesBack
