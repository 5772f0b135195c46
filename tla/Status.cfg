\* Every input fault alone, a silent or reporting beta unit, and an I/O module
\* that comes, goes and drops connections at any step of a call.
CONSTANTS
  Peers = {"BETA"}
  Limit = 1
  YellowAt = 1
  RedAt = 2
  ConnectRetries = 2
  ReadRetries = 2
  HWStates <- SingleFaults
SPECIFICATION IOSpec
INVARIANTS
  OverallFollows
  FieldsFollow
  SilentFlagged
  SilencePublished
PROPERTIES
  ImplementsStatus
  CallsEnd
