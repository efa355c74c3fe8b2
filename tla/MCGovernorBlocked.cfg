\* The updater and an admin's PUT take the write lock at the same time.
CONSTANTS
  Readers = {r1}
  Writers = {w1, w2}
  Max = 2
  None = None
SPECIFICATION FairSpec
PROPERTIES WriterGetsIn
CHECK_DEADLOCK FALSE
