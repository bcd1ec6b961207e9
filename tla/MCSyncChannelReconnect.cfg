SPECIFICATION ReachableSpec
CONSTANTS
  Channels = {1, 2}
  Senders = {t1}
  MAX_RECONNECT_ATTEMPTS = 1
PROPERTY ReconnectsOnFailure
