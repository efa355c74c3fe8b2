\* Three requests, a session with a changes file and one of a lone deb, every kind of part.
\* Requests are served once and sessions live once, so the model stops.
CONSTANTS
  Requests = {r1, r2, r3}
  Sessions = {s1, s2}
  Lone = {s2}
  Files = {"a", "b"}
  Uploads <- MCUploads
  None = None
SPECIFICATION MCSpec
SYMMETRY Symmetry
INVARIANTS MergesWhole MergedOnce ConfirmedAfterMerge StatusConsistent RefusalReported
CHECK_DEADLOCK FALSE
