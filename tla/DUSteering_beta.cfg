\* The beta unit, which does not read the modes on a configuration interrupt.
CONSTANTS
  Unit = "BETA"
  ForceTest = FALSE
  Angles = {1, 2}
  MaxCrashes = 0
SPECIFICATION Spec
INVARIANTS
  OfflineOnly
