\* Uploads and every kind of admin request.  Sessions and requests live once, and a panic
\* ends the process, so the model stops.
CONSTANTS
  Sessions = {s1, s2, s3}
  Admins = {a1, a2}
  AdminOps = {"config", "key", "create", "delete"}
  NumDists = 1
  Contents = {c1}
  None = None
SPECIFICATION MCSpec
SYMMETRY Symmetric
INVARIANTS LockCountExact HeldUploadsIntact NoMissedCollection UploadedHistoryKept NeverPanics
PROPERTIES CollectionComplete
CHECK_DEADLOCK FALSE
