\* The comment on the rolled-up status, against a unit that starts anew: the DCU
\* of DUB fails, and is not there when DUB has started again.
CONSTANTS
  Locs = {1}
  NumRegs = 1
  Marker = 199
  Own = "ALPHA"
  Interval = 2
  Forwarded = {1, 199}
  AlphaReadings <- There
  BetaReadings <- ComesAndGoes
  Garbage = {"WHITE"}
  Room = 2
  MaxTroubles = 1
SPECIFICATION PairSpec
INVARIANT FailedAsReported
