SPECIFICATION FairSpec
CONSTANTS
  Keys = {k1}
  Writers = {w1}
  Ttl = 2
  Factor = 1
  TtlHorizon = 2
  Keep = 0
PROPERTY TtlRespected
