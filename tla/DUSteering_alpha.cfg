CONSTANTS
  Unit = "ALPHA"
  ForceTest = FALSE
  Angles = {1, 2}
  MaxCrashes = 1
SPECIFICATION FairSpec
INVARIANTS
  RestsAnalog
  FiresAsCommanded
  OfflineOnly
  ModesCurrent
PROPERTIES
  ModesFollow
