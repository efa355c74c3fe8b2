\* Two uploads, administrative requests of any kind and a reader.  The process is killed
\* anywhere, any number of times, and any link may fail.
CONSTANTS
  i1 = i1  i2 = i2  u1 = u1  u2 = u2
  Dists <- MCDists
  Items <- MCItems
  Uploaders <- MCUploaders
  Keys = {k1}
  Admins = {a1, a2}
  Readers = {c1}
  None = None
  Torn = Torn
SPECIFICATION Spec
SYMMETRY Symmetry
INVARIANTS DownloadsWhole PublishedWhenDone NeverStale
PROPERTIES RefRecoverable
\* Every client may be done.
CHECK_DEADLOCK FALSE
