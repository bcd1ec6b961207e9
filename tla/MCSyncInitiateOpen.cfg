SPECIFICATION FairSpec
CONSTANTS
  Peers = {p1}
  Docs = {d1}
  Tasks = {t1, t2}
  FailureThreshold = 2
  SuccessThreshold = 2
  OpenTimeout = 1
  MaxAttempts = 1
  Capacity = 2
  TokensPerRefill = 1
  RefillInterval = 2
  Cooldown = 1
PROPERTY OpenIsTriedAgain
