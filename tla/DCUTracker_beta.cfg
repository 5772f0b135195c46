\* DUB: three registers compete for two locations; the queue is drained in the
\* timer handler.
CONSTANTS
  Locs = {1, 2}
  NumRegs = 3
  Marker = 199
  Own = "BETA"
  Interval = 3
  Forwarded = {}
SPECIFICATION FairSpec
INVARIANTS
  TypeOK
  KnownIsInitial
  UniqueIds
  PollVerdict
PROPERTIES
  RefreshedDisplay
  FaultsAreQueued
  DisplaySettles
