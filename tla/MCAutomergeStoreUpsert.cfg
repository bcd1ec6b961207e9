SPECIFICATION Spec
CONSTANTS
  Threads = {t1, t2}
  RemoteChanges = {r1, r2}
  LocalChanges = {l1}
  Ops = {"merge", "upsert"}
  Faults = {}
INVARIANT CommittedChangesKept
