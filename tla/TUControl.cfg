\* Steering, stress tests and configuration commands, and two crashes.
CONSTANTS
  Steerings <- AllSteerings
  Tests <- AllTests
  Settings <- TwoSettings
  MaxInbox = 1
  MaxCrashes = 2
SPECIFICATION Spec
INVARIANTS
  StartsAsCommanded
  ConfigurationKept
  ToleratesHalfAStep
