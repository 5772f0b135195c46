\* Both units start, die and restart; settings change; a datagram is lost.
CONSTANTS
  Steerings = {}
  Tests = {}
  Settings <- TwoSettings
  MaxInbox = 2
  MaxCrashes = 1
  MaxLost = 1
  MaxDUACrashes = 1
SPECIFICATION FairSync
INVARIANTS
  QuietAgrees
PROPERTIES
  TUFollows
