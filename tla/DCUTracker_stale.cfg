\* The comment above the change test of processDCUStatus, against the code.
CONSTANTS
  Locs = {1}
  NumRegs = 1
  Marker = 199
  Own = "BETA"
  Interval = 3
  Forwarded = {}
SPECIFICATION Spec
INVARIANT ChangesAreSent
