SPECIFICATION FairSpec
CONSTANTS
  Loggers = {"main", "command"}
  Levels = {1}
  Lengths = {3}
  Size = 3
  Newline = Newline
  MaxCalls = 2
  RtuConfs <- RtuAsked
  UartConfs <- UartAsked
  Amplifier <- AmplifierEnd
  Encoder <- EncoderEnd
  Kernel <- AfterReset
  MaxRuns = 2
  MaxEdits = 1
  MaxErrors = 2
  MaxResets = 1
INVARIANT LinesWhole
INVARIANT WorksAgain
INVARIANT FaultsOnlyReleased
PROPERTY StopEndsRun
CHECK_DEADLOCK FALSE
