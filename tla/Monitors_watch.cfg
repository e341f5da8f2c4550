SPECIFICATION FairSpec
CONSTANTS
  Typed = {"spdmsg"}
  Junk = "junk"
  Lists = {"spdmsg"}
  MaxSockets = 2
  MaxStarts = 1
  MaxMail = 1
  Samples <- AllSamples
  Grown <- AllGrowth
  Modulus = 4
  MaxChanges = 1
  MaxRequests = 1
  MaxUsers = 1
  MaxUpsets = 2
INVARIANT NeverDeafSilently
INVARIANT FreshFields
INVARIANT UsageIsShare
PROPERTY TerminalHears
CHECK_DEADLOCK FALSE
