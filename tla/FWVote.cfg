\* Four values are enough for every pattern of ties among five samples but the
\* one in which all differ; the fifth value adds that one.
CONSTANTS
  Values = {v1, v2, v3, v4, v5}
  Depth = 4
SPECIFICATION FairSpec
INVARIANTS
  TypeOK
  ScanIsSelect
PROPERTIES
  GlitchMasked
  ChangeAccepted
  Follows
