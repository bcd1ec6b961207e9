SPECIFICATION Spec
CONSTANTS
  Threads = {t1, t2}
  RemoteChanges = {r1, r2}
  LocalChanges = {l1}
  Ops = {"merge", "tombstone"}
  Faults = {}
INVARIANT TombstonePreventsResurrection
