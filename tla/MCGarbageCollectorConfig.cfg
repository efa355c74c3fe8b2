\* An admin changes the configuration while the last session runs the collection.
CONSTANTS
  Sessions = {s1}
  Admins = {a1}
  AdminOps = {"config"}
  NumDists = 1
  Contents = {c1}
  None = None
SPECIFICATION MCSpec
INVARIANTS HistoryKept
CHECK_DEADLOCK FALSE
