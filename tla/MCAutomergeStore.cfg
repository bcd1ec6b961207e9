SPECIFICATION Spec
CONSTANTS
  Threads = {t1, t2}
  RemoteChanges = {r1, r2}
  LocalChanges = {l1}
  Ops = {"merge", "compact", "get", "upsert", "delete", "tombstone"}
  Faults = {"evict", "crash", "io"}
INVARIANTS DurableBeforeVisible LockedWritesKeepChanges CacheCoherent
PROPERTIES TombstoneKeepsSyncOut
