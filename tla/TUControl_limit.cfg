\* A word whose u is beyond its limit passes the scan limit check.
CONSTANTS
  Steerings <- AllSteerings
  Tests <- AllTests
  Settings <- TwoSettings
  MaxInbox = 1
  MaxCrashes = 0
SPECIFICATION Spec
INVARIANTS
  WithinUV
