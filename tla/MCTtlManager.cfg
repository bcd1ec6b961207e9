SPECIFICATION FairSpec
CONSTANTS
  Keys = {k1, k2}
  Writers = {w1}
  Ttl = 2
  Factor = 2
  TtlHorizon = 3
  Keep = 1
INVARIANTS Tracked NotExpiredEarly
PROPERTIES Expires
