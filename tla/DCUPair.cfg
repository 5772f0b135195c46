\* One DCU on each unit.  The datagrams of DUB overflow the socket of DUA at any
\* time, and one is lost, or one of the units re-polls or dies.
CONSTANTS
  Locs = {1}
  NumRegs = 1
  Marker = 199
  Own = "ALPHA"
  Interval = 2
  Forwarded = {1, 199}
  AlphaReadings <- There
  BetaReadings <- ComesAndGoes
  Garbage = {"WHITE"}
  Room = 1
  MaxTroubles = 1
SPECIFICATION FairPair
INVARIANTS
  MarkerIsFollowed
  Mirrored
  TableMirrored
  RefreshArrives
PROPERTIES
  PairSettles
