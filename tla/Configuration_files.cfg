SPECIFICATION FairSpec
CONSTANTS
  Missing = Missing
  Nothing = Nothing
  Text = Text
  Lines <- SomeLines
  MaxLines = 4
  Example <- ExampleLines
  Default <- Defaults
  MaxAngle = 3
  MaxTime = 4
  DICTMINSZ = 2
  MaxFaults = 1
INVARIANT ReadsWholeFile
PROPERTY OverwritesOnlyUnreadable
PROPERTY ComesToServe
